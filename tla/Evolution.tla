------------------------------ MODULE Evolution ------------------------------
(***************************************************************************)
(* `airbot evolve` (main.c): state_evolve (state.c) executes a unit        *)
(* (env_execute, environment.c) again and again, each time from the state  *)
(* the last execution left, records a hash of the unit after every step,   *)
(* and looks in that trace for a fixed point and a cycle.                  *)
(*                                                                         *)
(* Of the fields a unit's hash covers only the state changes, and every    *)
(* recorded state has the same length: the hash is the state.              *)
(***************************************************************************)
EXTENDS Environment

CONSTANTS
  Units,        \* what eiu_deserialize makes of the unit files
  StateSize,    \* EIU_MAX_STATE, and the length of a final state
  MaxTrace,     \* MAX_TRACE_LENGTH
  StepCounts    \* the values of --steps

ASSUME EvolutionAssumption ==
  /\ Units \subseteq [code : Seq(Byte), rights : SUBSET (0 .. 63), fuel : Word,
                      state : Seq(Byte), current : BOOLEAN]
  /\ \A u \in Units : Len(u.state) <= StateSize
  /\ StateSize \in 1 .. MemSize /\ MaxTrace \in Nat /\ StepCounts \subseteq Nat

VARIABLES
  unit,     \* the EIU; current: its version is EIU_VERSION
  steps,    \* the steps asked for
  phase,    \* "execute", "run", "detect" or "done"; "next" between experiments
  trace,    \* entries: what the hash covers, and fuel_used
  fixed,    \* fixed_point
  cycle     \* cycle_start and cycle_length

evolution == <<unit, steps, trace, fixed, cycle>>
vars == <<machine, evolution, phase>>

None == -1

Init ==
  /\ unit \in Units /\ steps \in StepCounts
  /\ phase = IF steps = 0 THEN "detect" ELSE "execute"
  /\ trace = <<>> /\ fixed = None /\ cycle = [start |-> None, length |-> 0]
  /\ MachineInit

\* env_execute refuses the unit: state_evolve returns before any step.
Refuse ==
  /\ phase = "execute" /\ ~ unit.current
  /\ phase' = "detect"
  /\ UNCHANGED <<machine, evolution>>

\* env_execute up to vm_run.
Execute ==
  /\ phase = "execute" /\ unit.current
  /\ LoadUnit(unit)
  /\ phase' = "run"
  /\ UNCHANGED evolution

Run ==
  /\ phase = "run"
  /\ MachineStep
  /\ UNCHANGED <<evolution, phase>>

\* vm_run returns an error, which ends state_evolve; the unit stays as the last
\* step left it.
Abandon ==
  /\ phase = "run" /\ status \in Errors
  /\ phase' = "detect"
  /\ UNCHANGED <<machine, evolution>>

\* Seeded fault: the trace is found full one entry late.
AdvancePastTheTrace ==
  LET final == [i \in 1 .. StateSize |-> memory[i - 1]] IN
  /\ phase = "run" /\ status = "halted"
  /\ unit' = [unit EXCEPT !.state = final]
  /\ trace' = IF Len(trace) <= MaxTrace
              THEN Append(trace, [hash |-> final, used |-> Budget(unit) - fuel])
              ELSE trace
  /\ phase' = IF Len(trace) > MaxTrace \/ Len(trace) + 1 = steps THEN "detect" ELSE "execute"
  /\ UNCHANGED <<machine, steps, fixed, cycle>>

\* The program halted: state_evolve takes over the final state and records it.
\* A full trace ends the loop, but only after the state has been taken over.
Advance ==
  LET final == [i \in 1 .. StateSize |-> memory[i - 1]] IN
  /\ phase = "run" /\ status = "halted"
  /\ unit' = [unit EXCEPT !.state = final]
  /\ trace' = IF Len(trace) < MaxTrace
              THEN Append(trace, [hash |-> final, used |-> Budget(unit) - fuel])
              ELSE trace
  /\ phase' = IF Len(trace) >= MaxTrace \/ Len(trace) + 1 = steps THEN "detect" ELSE "execute"
  /\ UNCHANGED <<machine, steps, fixed, cycle>>

-----------------------------------------------------------------------------
Same(i, j) == trace[i + 1].hash = trace[j + 1].hash

Least(S) == CHOOSE x \in S : \A y \in S : x <= y

\* Seeded fault: the first of two equal entries is named, not the second.
RepeatsNamesTheFirst == {i \in 0 .. Len(trace) - 2 : Same(i + 1, i)}

\* The entries, counted from 0, that equal the one before them.
Repeats == {i \in 1 .. Len(trace) - 1 : Same(i, i - 1)}

\* The entries that are seen again.
Returns == {i \in 0 .. Len(trace) - 1 : \E j \in i + 1 .. Len(trace) - 1 : Same(i, j)}

\* trace_detect_fixed_point and trace_detect_cycle. cmd_evolve calls them
\* again, to the same effect, and after an error for the first time.
Detect ==
  /\ phase = "detect"
  /\ fixed' = IF Repeats = {} THEN None ELSE Least(Repeats)
  /\ cycle' = IF Returns = {} THEN [start |-> None, length |-> 0]
              ELSE LET i == Least(Returns) IN
                   [start |-> i, length |-> Least({j \in i + 1 .. Len(trace) - 1 : Same(i, j)}) - i]
  /\ phase' = "done"
  /\ UNCHANGED <<machine, unit, steps, trace>>

Next == Refuse \/ Execute \/ Run \/ Abandon \/ Advance \/ Detect

\* The command is one thread and waits for nothing.
Spec == Init /\ [][Next]_vars /\ WF_vars(Next)

-----------------------------------------------------------------------------
TypeOK ==
  /\ MachineTypeOK
  /\ unit \in [code : Seq(Byte), rights : SUBSET (0 .. 63), fuel : Word,
               state : Seq(Byte), current : BOOLEAN]
  /\ Len(unit.state) <= StateSize
  /\ phase \in {"next", "execute", "run", "detect", "done"}
  /\ Len(trace) <= MaxTrace /\ Len(trace) <= steps
  /\ \A i \in 1 .. Len(trace) : trace[i].hash \in [1 .. StateSize -> Byte] /\ trace[i].used \in Word
  /\ fixed \in Int /\ cycle \in [start : Int, length : Nat]

\* trace_detect_cycle sees two equal states and nothing between or after them
\* (state.c:33). Whatever the program, the rest of the trace must then go
\* round that cycle: an execution depends on the state it starts from alone,
\* and takes the same fuel each time it comes by.
\* And trace_detect_fixed_point (state.c:22), which scans it in another order,
\* must agree: there is a fixed point exactly where the cycle has length one,
\* and it is the cycle's second state.
DetectorsAreRight ==
  phase = "done" =>
    /\ cycle.length > 0 =>
         \A i \in cycle.start .. Len(trace) - 1 - cycle.length :
            /\ Same(i, i + cycle.length)
            /\ i > cycle.start => trace[i + 1].used = trace[i + 1 + cycle.length].used
    /\ fixed = IF cycle.length = 1 THEN cycle.start + 1 ELSE None

\* Every program ends, by halting, failing or running out of fuel, and so does
\* the evolution.
EvolutionEnds == <>(phase = "done")
=============================================================================
