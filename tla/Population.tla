------------------------------ MODULE Population ------------------------------
(***************************************************************************)
(* Two commands that make many units of one (main.c). `airbot replicate`   *)
(* reads a unit from a file, which may have been cut short when it was     *)
(* written, and copies it if its rights allow (replicator.c). `airbot      *)
(* matrix` starts from a unit of its own and runs its copies round after   *)
(* round, each from the state it was left in (matrix.c).                   *)
(***************************************************************************)
EXTENDS Environment, Units

CONSTANTS
  Written,        \* the units that were written to files, also by builds that
                  \* allow longer sections
  Templates,      \* the units a matrix is made of
  Counts,         \* the values of --count and --population
  RoundCounts,    \* and of --steps
  MaxPopulation   \* MATRIX_MAX_POPULATION

ASSUME PopulationAssumption ==
  /\ \A u \in Written \cup Templates :
       /\ u \in [flags : SUBSET {"code", "data", "state", "rights"}, fuel : Word, current : BOOLEAN,
                 code : Seq(Byte), data : Seq(Byte), state : Seq(Byte), rights : SUBSET (0 .. 63)]
  /\ \A u \in Templates :
       Len(u.code) <= MaxCode /\ Len(u.data) <= MaxData /\ Len(u.state) <= MaxState
  /\ MaxState \in 1 .. MemSize
  /\ Counts \subseteq Nat /\ RoundCounts \subseteq Nat /\ MaxPopulation \in Nat

VARIABLES
  template,   \* the unit to copy
  source,     \* the file it is read from, and the bytes that are there
  count,      \* --count or --population
  rounds,     \* max_steps
  activity,   \* "read", "replicate", "populate", "round", "run" or "done"
  units,      \* units of the matrix, or replicas of the result
  entries,    \* entries of the matrix
  turn,       \* i of matrix_step
  step,       \* and of the matrix: step,
  unique      \* unique_states

command == <<template, source, count, rounds>>
matrix == <<units, entries, turn, step, unique>>
population == <<machine, command, activity, matrix>>

PopulationInit ==
  /\ count \in Counts
  /\ \/ /\ activity = "read" /\ template = EmptyUnit /\ rounds = 0
        /\ \E u \in Written :
             \E bytes \in 0 .. Size(Serialize(u)) : source = [file |-> Serialize(u), bytes |-> bytes]
     \/ /\ activity = "populate" /\ template \in Templates /\ rounds \in RoundCounts
        /\ source = [file |-> Serialize(template), bytes |-> 0]
  /\ units = <<>> /\ entries = <<>> /\ turn = 1 /\ step = 0 /\ unique = 0
  /\ MachineInit

-----------------------------------------------------------------------------
\* cmd_replicate up to repl_execute. A file that is refused ends it.
ReadFile ==
  /\ activity = "read"
  /\ IF Readable(source.file, source.bytes)
     THEN /\ template' = Deserialize(source.file, source.bytes)
          /\ activity' = "replicate"
     ELSE activity' = "done" /\ UNCHANGED template
  /\ UNCHANGED <<machine, source, count, rounds, matrix>>

\* The command allows CAP_ALL: the unit's own rights decide.
Replicate ==
  /\ activity = "replicate"
  /\ units' = IF Authorized(template, 0 .. 63) THEN Replicas(template, count) ELSE <<>>
  /\ activity' = "done"
  /\ UNCHANGED <<machine, command, entries, turn, step, unique>>

\* matrix_init.
Populate ==
  LET size == IF count > MaxPopulation THEN MaxPopulation ELSE count IN
  /\ activity = "populate"
  /\ units' = [i \in 1 .. size |-> Marked(template, (i - 1) % 256)]
  /\ entries' = [i \in 1 .. size |->
                   [alive |-> TRUE, generation |-> 0, used |-> 0, hash |-> Hash(units'[i])]]
  /\ activity' = IF rounds = 0 THEN "done" ELSE "round"
  /\ UNCHANGED <<machine, command, turn, step, unique>>

-----------------------------------------------------------------------------
InRound == activity = "round" /\ turn <= Len(units)

\* The unit at turn is dead from here on.
Bury ==
  /\ entries' = [entries EXCEPT ![turn].alive = FALSE]
  /\ turn' = turn + 1
  /\ activity' = "round"
  /\ UNCHANGED <<machine, command, units, step, unique>>

Skip ==
  /\ InRound /\ ~ entries[turn].alive
  /\ turn' = turn + 1
  /\ UNCHANGED <<machine, command, activity, units, entries, step, unique>>

\* env_execute refuses the unit.
RefuseUnit == InRound /\ entries[turn].alive /\ ~ Valid(units[turn]) /\ Bury

\* env_execute up to vm_run.
ExecuteUnit ==
  /\ InRound /\ entries[turn].alive /\ Valid(units[turn])
  /\ LoadUnit(units[turn])
  /\ activity' = "run"
  /\ UNCHANGED <<command, matrix>>

RunUnit ==
  /\ activity = "run"
  /\ MachineStep
  /\ UNCHANGED <<command, activity, matrix>>

Die == activity = "run" /\ status \in Errors /\ Bury

\* A unit takes over the final state and gets the environment's fuel.
Renewed(u) ==
  [u EXCEPT !.state = [i \in 1 .. MaxState |-> memory[i - 1]],
            !.flags = @ \cup {"state"}, !.fuel = FuelLimit]

\* Seeded fault: the entry keeps the hash of the last round.
SurviveKeepsHash ==
  /\ activity = "run" /\ status = "halted"
  /\ units' = [units EXCEPT ![turn] = Renewed(@)]
  /\ entries' = [entries EXCEPT ![turn].generation = (@ + 1) % 256, ![turn].used = Budget(units[turn]) - fuel]
  /\ turn' = turn + 1 /\ activity' = "round"
  /\ UNCHANGED <<machine, command, step, unique>>

\* The program halted: the unit is renewed and its entry gets a new hash.
Survive ==
  /\ activity = "run" /\ status = "halted"
  /\ units' = [units EXCEPT ![turn] = Renewed(@)]
  /\ entries' = [entries EXCEPT ![turn] =
                   [alive |-> TRUE, generation |-> (@.generation + 1) % 256, used |-> Budget(units[turn]) - fuel,
                    hash |-> Hash(units'[turn])]]
  /\ turn' = turn + 1 /\ activity' = "round"
  /\ UNCHANGED <<machine, command, step, unique>>

Alive == {i \in 1 .. Len(units) : entries[i].alive}

\* matrix_unique_states.
UniqueStates == Cardinality({entries[i].hash : i \in Alive})

\* The rest of matrix_step, and the loop of matrix_run.
EndRound ==
  /\ activity = "round" /\ turn > Len(units)
  /\ unique' = UniqueStates
  /\ step' = step + 1 /\ turn' = 1
  /\ activity' = IF step + 1 = rounds \/ Alive = {} THEN "done" ELSE "round"
  /\ UNCHANGED <<machine, command, units, entries>>

Finished == activity = "done" /\ UNCHANGED population

PopulationNext ==
  \/ Finished \/ ReadFile \/ Replicate \/ Populate
  \/ Skip \/ RefuseUnit \/ ExecuteUnit \/ RunUnit \/ Die \/ Survive \/ EndRound

PopulationSpec == PopulationInit /\ [][PopulationNext]_population

-----------------------------------------------------------------------------
\* Types, and: the hash of every entry is that of its unit, also of one that
\* died; it is what the diversity is computed from.
PopulationTypes ==
  /\ MachineTypeOK
  /\ activity \in {"read", "replicate", "populate", "round", "run", "done"}
  /\ \A i \in 1 .. Len(units) : Len(units[i].state) <= MaxState /\ units[i].fuel \in Word
  /\ Len(units) <= MaxPopulation \/ Len(units) <= MaxReplicas
  /\ entries # <<>> => Len(entries) = Len(units)
  /\ \A i \in 1 .. Len(entries) : entries[i].hash = Hash(units[i]) /\ entries[i].used \in Word
  /\ turn \in Nat /\ step \in 0 .. rounds /\ unique \in 0 .. Len(units)

\* A file that is cut short (write_file in main.c does not look at what fwrite
\* wrote) is refused, or the unit made of it shows what it lacks: a section
\* that is not as it was written, because it was cut off or because its setter
\* refused it, is empty and still announced by the flags.
LostSectionsAreFlagged ==
  activity = "replicate" =>
    \A n \in 1 .. Len(source.file.sections) :
       LET section == source.file.sections[n] IN
       \/ template[section.tag] = section.body
       \/ template[section.tag] = EmptyUnit[section.tag] /\ section.tag \in template.flags

\* From one round to the next the number of different units never grows: what
\* an execution does depends on the unit alone, not on those that ran before
\* it on the same machine, so that equal units stay equal.
DiversityNeverGrows == [][step > 0 /\ step' > step => unique' <= unique]_population
=============================================================================
