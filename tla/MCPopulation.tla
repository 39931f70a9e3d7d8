---------------------------- MODULE MCPopulation ----------------------------
(***************************************************************************)
(* Files with every choice of sections, cut at every byte, of units with   *)
(* and without the right to replicate and a state near the end of a byte,  *)
(* and one whose data is too long to be read back;                         *)
(* and populations of zero to four of the counter of main.c and of units   *)
(* that merge, stop on some states, start some rounds with little fuel, or *)
(* are of another version. Memory is eight cells, the state two of them.   *)
(***************************************************************************)
EXTENDS Population

Build(sections, body, f) ==
  FoldLeft(LAMBDA u, tag : IF tag \in sections THEN SetSection(u, tag, body[tag]) ELSE u,
           [EmptyUnit EXCEPT !.fuel = f], <<"code", "data", "state", "rights">>)

Stop == Encode("HALT", 0, 0, 0)

Bodies == {[code |-> Stop, data |-> <<7>>, state |-> s, rights |-> r] :
             s \in {<<0, 1>>, <<254>>}, r \in {{}, {0, 2, 3}}}

MCWritten ==
  {Build(sections, body, 9) : sections \in SUBSET {"code", "data", "state", "rights"}, body \in Bodies}
  \cup {[EmptyUnit EXCEPT !.flags = {"code", "data"}, !.code = Stop, !.data = <<1, 2>>]}

Program(c, f, s) == Build({"code", "state"}, [code |-> c, state |-> s], f)

\* The unit of cmd_matrix: LOAD, ADDI, STORE, EMIT, HALT.
Counter ==
  Encode("LOAD", 0, 7, 0) \o EncodeImmediate("ADDI", 0, 1) \o Encode("STORE", 0, 7, 0)
  \o Encode("EMIT", 0, 0, 0) \o Stop

\* state[0] keeps the bits of n and no others.
Merge(n) ==
  Encode("LOAD", 0, 7, 0) \o EncodeImmediate("LDI", 1, n) \o Encode("AND", 0, 0, 1)
  \o Encode("STORE", 0, 7, 0) \o Stop

\* Stops with an error on the state n, else counts.
Mortal(n) ==
  Encode("LOAD", 0, 7, 0) \o EncodeImmediate("LDI", 1, n) \o Encode("CMP", 0, 1, 0)
  \o EncodeJump("JNZ", 5) \o EncodeImmediate("SELF", 0, 0)
  \o EncodeImmediate("ADDI", 0, 1) \o Encode("STORE", 0, 7, 0) \o Stop

\* state[0] becomes 1 if register 0 comes to five, and 0 otherwise.
Patient ==
  EncodeImmediate("ADDI", 0, 1) \o EncodeImmediate("LDI", 1, 5) \o Encode("CMP", 0, 1, 0)
  \o EncodeImmediate("LDI", 2, 0) \o EncodeJump("JNZ", 6) \o EncodeImmediate("LDI", 2, 1)
  \o Encode("STORE", 2, 7, 0) \o Stop

MCTemplates ==
  {Program(Counter, 100, <<0, 0>>), Program(Counter, 100, <<>>), Program(Counter, 3, <<0>>),
   Program(Merge(1), 20, <<0>>), Program(Merge(2), 20, <<0, 3>>),
   Program(Mortal(0), 20, <<0>>), Program(Mortal(2), 20, <<0>>), Program(Mortal(3), 7, <<0>>),
   Program(Patient, 20, <<0>>), Program(<<8>>, 20, <<0>>),
   [Program(Stop, 20, <<0>>) EXCEPT !.current = FALSE]}
=============================================================================
