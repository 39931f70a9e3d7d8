----------------------------- MODULE Experiments -----------------------------
(***************************************************************************)
(* `airbot experiment` (main.c, experiments.c): three experiments on the   *)
(* machine, on evolution and on replication, one of them or one after the  *)
(* other. Each scores what it finds and compares that with a target. H2 is *)
(* state_evolve, whose steps are Evolution's.                              *)
(***************************************************************************)
EXTENDS Evolution, Units

CONSTANT Plans   \* num_units and min_unique of experiment_h1, steps and
                 \* min_distinct of experiment_h2, experiment_h3's replica_count

ASSUME ExperimentsAssumption ==
  /\ Plans \subseteq [units : Word \ {0}, unique : Nat, steps : Nat, distinct : Nat, replicas : Nat]
  /\ MaxState = StateSize
  \* The programs of H1 and H2 come to their end, and what H3 sets is set and
  \* replicated; the counter of H2, a byte, takes every value once in a trace.
  /\ FuelLimit >= 5 /\ OutSlots >= 1
  /\ MaxCode >= 2 /\ MaxState >= 4 /\ MaxReplicas >= 2
  /\ MaxTrace <= 256

VARIABLES
  plan,
  agenda,    \* the experiments to come, the first of them perhaps under way
  executed,  \* the units experiment_h1 has executed
  seen,      \* their fingerprints
  behaviors, \* unique_count
  results    \* of each experiment: total_tests, passed_tests, passed

campaign == <<plan, agenda, executed, seen, behaviors, results>>
AllVars == <<vars, campaign>>

Doing(h) == agenda # <<>> /\ Head(agenda) = h

Unmeasured == [total |-> 0, score |-> 0, passed |-> FALSE]

Conclude(h, total, score, passed) ==
  /\ results' = [results EXCEPT ![h] = [total |-> total, score |-> score, passed |-> passed]]
  /\ agenda' = Tail(agenda)

-----------------------------------------------------------------------------
\* cmd_experiment: without --hypothesis it is experiments_run_all.
ExperimentsInit ==
  /\ plan \in Plans
  /\ agenda \in {<<"H1">>, <<"H2">>, <<"H3">>, <<"H1", "H2", "H3">>}
  /\ executed = 0 /\ seen = {} /\ behaviors = 0
  /\ results = [h \in {"H1", "H2", "H3"} |-> Unmeasured]
  /\ unit = [code |-> <<>>, rights |-> {}, fuel |-> 0, state |-> <<>>, current |-> TRUE]
  /\ steps = 0 /\ phase = "next"
  /\ trace = <<>> /\ fixed = None /\ cycle = [start |-> None, length |-> 0]
  /\ MachineInit

-----------------------------------------------------------------------------
\* The unit experiment_h1 makes of i.
Generated(i) ==
  [code |-> EncodeImmediate("LDI", 0, i) \o EncodeImmediate("LDI", 1, 3 * i + 7)
            \o Encode("ADD", 2, 0, 1) \o Encode("EMIT", 2, 0, 0) \o EncodeJump("HALT", 0),
   rights |-> {}, fuel |-> 200, state |-> <<>>, current |-> TRUE]

\* num_units is capped.
Sample == IF plan.units > 256 THEN 256 ELSE plan.units

BeginH1 ==
  /\ phase = "next" /\ Doing("H1")
  /\ unit' = Generated(0) /\ phase' = "execute"
  /\ UNCHANGED <<machine, steps, trace, fixed, cycle, campaign>>

\* The BehaviorFingerprint of an execution that has ended.
Fingerprint ==
  [outputs |-> output, consumed |-> Budget(unit) - fuel, halted |-> status = "halted", error |-> status \in Errors]

\* Seeded fault: the outputs are counted and not compared.
SameCounts(f, g) == Len(f.outputs) = Len(g.outputs) /\ f.halted = g.halted /\ f.error = g.error

\* fingerprints_equal. The fuel is not compared.
SameBehavior(f, g) == f.outputs = g.outputs /\ f.halted = g.halted /\ f.error = g.error

\* Execution number executed has ended.
Record ==
  /\ Doing("H1") /\ phase = "run" /\ status # "running"
  /\ executed' = executed + 1
  /\ seen' = seen \cup {Fingerprint}
  /\ behaviors' = IF \E f \in seen : SameBehavior(f, Fingerprint) THEN behaviors ELSE behaviors + 1
  /\ IF executed' < Sample
     THEN /\ unit' = Generated(executed') /\ phase' = "execute"
          /\ UNCHANGED <<agenda, results>>
     ELSE /\ phase' = "next" /\ UNCHANGED unit
          /\ Conclude("H1", executed', behaviors', behaviors' >= plan.unique)
  /\ UNCHANGED <<machine, steps, trace, fixed, cycle, plan>>

-----------------------------------------------------------------------------
\* The counter of experiment_h2.
CountingUnit ==
  [code |-> Encode("LOAD", 0, 7, 0) \o EncodeImmediate("ADDI", 0, 1) \o Encode("STORE", 0, 7, 0)
            \o Encode("EMIT", 0, 0, 0) \o EncodeJump("HALT", 0),
   rights |-> {}, fuel |-> 100, state |-> <<0>>, current |-> TRUE]

BeginH2 ==
  /\ phase = "next" /\ Doing("H2")
  /\ unit' = CountingUnit /\ steps' = plan.steps
  /\ trace' = <<>> /\ fixed' = None /\ cycle' = [start |-> None, length |-> 0]
  /\ phase' = IF plan.steps = 0 THEN "detect" ELSE "execute"
  /\ UNCHANGED <<machine, campaign>>

\* The distinct states of the trace are counted; the detectors run once more.
JudgeH2 ==
  LET distinct == Cardinality({trace[i].hash : i \in 1 .. Len(trace)}) IN
  /\ phase = "done" /\ Doing("H2")
  /\ Conclude("H2", Len(trace), distinct, distinct >= plan.distinct)
  /\ phase' = "next"
  /\ UNCHANGED <<machine, evolution, plan, executed, seen, behaviors>>

-----------------------------------------------------------------------------
\* The units of experiment_h3: HALT, some state, some rights.
Stopper(state, rights) ==
  SetSection(SetSection(SetSection([EmptyUnit EXCEPT !.fuel = 500],
    "code", EncodeJump("HALT", 0)), "state", state), "rights", rights)

Replicator == {0, 2, ReplicateBit}   \* CAP_READ, CAP_EXECUTE, CAP_REPLICATE

\* repl_execute's result: nothing without authorization. The environment of the
\* tests but the second allows everything.
Made(u, allowed, n) == IF Authorized(u, allowed) THEN Replicas(u, n) ELSE <<>>

AuthorizedCopies ==
  LET made == Made(Stopper(<<0, 1, 2, 3>>, Replicator), 0 .. 63, plan.replicas) IN
  made # <<>> /\ \A i \in 1 .. Len(made) : Valid(made[i])

UnauthorizedMakesNone ==
  LET u == Stopper(<<>>, Replicator \ {ReplicateBit}) IN
  ~ Authorized(u, Allowed) /\ Made(u, Allowed, 5) = <<>>

CopiesAreValid ==
  LET made == Made(Stopper(<<0, 0>>, Replicator), 0 .. 63, 5) IN
  \A i \in 1 .. Len(made) : Valid(made[i])

NeighboursDiffer ==
  LET made == Made(Stopper(<<0, 0>>, Replicator), 0 .. 63, 3) IN
  Len(made) >= 2 /\ \A i \in 1 .. Len(made) - 1 : Hash(made[i]) # Hash(made[i + 1])

\* experiment_h3: four tests, none of which runs a program.
JudgeH3 ==
  LET score == Cardinality({t \in 1 .. 4 :
                 <<AuthorizedCopies, UnauthorizedMakesNone, CopiesAreValid, NeighboursDiffer>>[t]}) IN
  /\ phase = "next" /\ Doing("H3")
  /\ Conclude("H3", 4, score, score = 4)
  /\ UNCHANGED <<machine, evolution, phase, plan, executed, seen, behaviors>>

-----------------------------------------------------------------------------
EndExperiments ==
  /\ phase = "next" /\ agenda = <<>>
  /\ phase' = "done"
  /\ UNCHANGED <<machine, evolution, campaign>>

\* What the experiments do of their own.
ExperimentsNext ==
  \/ BeginH1 \/ Record \/ BeginH2 \/ JudgeH2 \/ JudgeH3 \/ EndExperiments
  \/ Doing("H1") /\ (Execute \/ Run) /\ UNCHANGED campaign

\* The steps of state_evolve, for the command `evolve` and for H2.
Evolving == (agenda = <<>> \/ Doing("H2")) /\ Next /\ UNCHANGED campaign

\* The commands `evolve` and `experiment`.
CommandInit ==
  \/ /\ Init
     /\ plan = CHOOSE p \in Plans : TRUE
     /\ agenda = <<>> /\ executed = 0 /\ seen = {} /\ behaviors = 0
     /\ results = [h \in {"H1", "H2", "H3"} |-> Unmeasured]
  \/ ExperimentsInit

CommandNext == Evolving \/ ExperimentsNext

CommandSpec == CommandInit /\ [][CommandNext]_AllVars /\ WF_AllVars(CommandNext)

-----------------------------------------------------------------------------
\* The scores are those of the programs, worked out by arithmetic: unit i of H1
\* computes i plus the low byte of 3i + 7, and two units behave alike exactly
\* when their sums are equal; the counter of H2 comes to a new state in every
\* step that is recorded; and of H3 only the first test can fail, when no
\* replica is asked for. Nothing one execution leaves in the machine, in the
\* unit or among the fingerprints changes the score of another.
ScoresAreEarned ==
  \A h \in {"H1", "H2", "H3"} : results[h] # Unmeasured =>
    LET recorded == IF plan.steps > MaxTrace THEN MaxTrace ELSE plan.steps
        sums == {i + ((3 * i + 7) % 256) : i \in 0 .. Sample - 1}
        total == CASE h = "H1" -> Sample [] h = "H2" -> recorded [] h = "H3" -> 4
        score == CASE h = "H1" -> Cardinality(sums)
                   [] h = "H2" -> recorded
                   [] h = "H3" -> IF plan.replicas = 0 THEN 3 ELSE 4
        target == CASE h = "H1" -> plan.unique [] h = "H2" -> plan.distinct [] h = "H3" -> 4
    IN results[h] = [total |-> total, score |-> score, passed |-> score >= target]
=============================================================================
