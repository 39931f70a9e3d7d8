---------------------------- MODULE MCEvolution ----------------------------
(***************************************************************************)
(* Every program of two instructions of a pool that has each opcode, most  *)
(* with operands on both sides of their bounds, and every program of three *)
(* of a smaller pool of calls, jumps and stores; longer ones that count    *)
(* round cycles of two and three states. Memory is eight cells, the state  *)
(* four of them, and the stacks and buffers hold one or two values.         *)
(*                                                                         *)
(* Beside them the experiments, as cmd_experiment asks for them, H2 cut to *)
(* the length of the trace, and with targets that are missed, too many     *)
(* units for experiment_h1 and no replicas.                                *)
(***************************************************************************)
EXTENDS Experiments

Pool ==
  {Encode(op, 0, 1, 2) : op \in {"NOP", "HALT", "PUSH", "POP", "LOAD", "STORE", "ADD", "SUB",
     "AND", "OR", "XOR", "NOT", "SHL", "SHR", "CMP", "RET", "EMIT", "READ", "BFLIP", "BREAD",
     "SPAWN", "FUEL", "MOV"}}
  \cup {EncodeImmediate("LDI", 0, 7), EncodeImmediate("LDI", 1, 200), EncodeImmediate("LDI", 1, 2),
        EncodeImmediate("ADDI", 0, 1), EncodeImmediate("SELF", 1, 1), EncodeImmediate("SELF", 1, 9),
        EncodeImmediate("CCHK", 0, 65), EncodeImmediate("CCHK", 0, 6)}
  \cup {EncodeJump(op, 0) : op \in {"JMP", "JZ", "JNZ", "JGT", "CALL"}}
  \cup {EncodeJump("CALL", 4), EncodeJump("JMP", 5)}

Knots ==
  {EncodeJump("CALL", 0), EncodeJump("CALL", 2), EncodeJump("JZ", 1), EncodeJump("JNZ", 0),
   Encode("RET", 0, 0, 0), Encode("CMP", 0, 0, 0), Encode("HALT", 0, 0, 0), Encode("PUSH", 0, 0, 0),
   Encode("EMIT", 0, 0, 0), EncodeImmediate("ADDI", 0, 3), Encode("SPAWN", 1, 0, 0),
   Encode("BFLIP", 2, 0, 0)}

Stop == Encode("HALT", 0, 0, 0)

\* state[0] counts 0, 1, 2, ... and goes from limit back to restart.
Counter(limit, restart) ==
  Encode("LOAD", 0, 7, 0) \o EncodeImmediate("ADDI", 0, 1) \o EncodeImmediate("LDI", 1, limit)
  \o Encode("CMP", 0, 1, 0) \o EncodeJump("JNZ", 6) \o EncodeImmediate("LDI", 0, restart)
  \o Encode("STORE", 0, 7, 0) \o Stop

\* Flips a bit of the state when register 0 has been raised three times.
Patient ==
  EncodeImmediate("ADDI", 0, 1) \o EncodeImmediate("LDI", 1, 3) \o Encode("CMP", 0, 1, 0)
  \o EncodeJump("JNZ", 5) \o Encode("BFLIP", 7, 7, 0) \o Stop

Unit(c, r, f, s) == [code |-> c, rights |-> r, fuel |-> f, state |-> s, current |-> TRUE]

MCUnits ==
  {Unit(i \o j \o Stop, {0, 1, 6}, 5, <<>>) : i \in Pool, j \in Pool}
  \cup {Unit(i \o j \o k, {0}, 6, <<1>>) : i \in Knots, j \in Knots, k \in Knots}
  \cup {Unit(i \o Stop, r, f, <<0, 255>>) : i \in Pool, r \in {{}, {0}, {1}}, f \in {0, 1, 20}}
  \cup {Unit(Counter(3, r), {}, 9, s) : r \in {0, 1, 2}, s \in {<<>>, <<0, 0>>, <<1>>}}
  \cup {Unit(Encode("BFLIP", 0, 0, 0) \o Stop, {}, 9, <<>>), Unit(<<8>>, {}, 9, <<>>), Unit(Patient, {}, 9, <<>>),
        [Unit(Stop, {}, 9, <<>>) EXCEPT !.current = FALSE]}
-----------------------------------------------------------------------------
MCPlans ==
  {[units |-> 256, unique |-> 32, steps |-> 5, distinct |-> 5, replicas |-> 5],
   [units |-> 300, unique |-> 127, steps |-> 7, distinct |-> 6, replicas |-> 0],
   [units |-> 2, unique |-> 2, steps |-> 0, distinct |-> 0, replicas |-> 1]}
=============================================================================
