---------------------------- MODULE Programs_proofs ----------------------------
(***************************************************************************)
(* Proofs about the virtual machine and what is built on it, for every set *)
(* of units and every size of memory, stacks and buffers, in this order:   *)
(* what a step does to calls and to the rest of the machine; an execution  *)
(* as a function of the unit's state, and what the detectors of an         *)
(* evolution find; the types of the machine and of an evolution; the       *)
(* rounds of a population; files of units, and what a cut one still has;   *)
(* the experiments, and the scores their programs come to; and what        *)
(* carries over from an evolution to a command.                            *)
(***************************************************************************)
EXTENDS Experiments, Population, TLAPS, SequenceTheorems, FiniteSetTheorems,
        WellFoundedInduction

(* The virtual machine. What a step does to the control state (pc, return  *)
(* stack, status) is summed up once, in ControlStep, in five shapes; the   *)
(* invariants are then proved shape by shape and not instruction by        *)
(* instruction.                                                            *)

Within == pc * 2 + 1 < Len(code)

\* No instruction is fetched.
NoFetch == pc' = pc /\ rs' = rs /\ status' \in {"out of fuel", "bounds"}

\* An instruction that only moves on, whether it succeeds or fails.
MovesOn ==
  /\ Within /\ pc' = pc + 1 /\ rs' = rs
  /\ status' = "no capability" =>
       \/ Op = "SELF" /\ SelfBit \notin granted
       \/ Op = "SPAWN" /\ SpawnBit \notin granted

Jumps_ == Within /\ Op \in Jumps /\ pc' = Off /\ rs' = rs /\ status' = "running"

Calls_ ==
  /\ Within /\ Op = "CALL" /\ pc' = Off
  /\ ~ (Len(rs) >= RetDepth)
  /\ rs' = Append(rs, pc + 1) /\ status' = "running"

Returns_ ==
  /\ rs # <<>> /\ pc' = rs[Len(rs)]
  /\ rs' = SubSeq(rs, 1, Len(rs) - 1) /\ status' = "running"

LEMMA ControlStep ==
  ASSUME MachineStep
  PROVE  /\ UNCHANGED program
         /\ NoFetch \/ MovesOn \/ Jumps_ \/ Calls_ \/ Returns_
<1> USE DEF program, NoFetch, MovesOn, Within, Fetch
<1>1. CASE OutOfFuel \/ FetchOutside
  BY <1>1 DEF OutOfFuel, FetchOutside
<1>2. CASE Nop \/ Halt \/ Assign \/ Compare \/ CapCheck \/ Emit
  BY <1>2 DEF Nop, Halt, Assign, Compare, CapCheck, Emit, Continue
<1>3. CASE Push \/ Pop \/ LoadCell \/ StoreCell \/ BitFlip \/ BitRead
  BY <1>3 DEF Push, Pop, LoadCell, StoreCell, BitFlip, BitRead, Continue, Fail
<1>4. CASE Self \/ Spawn
  BY <1>4 DEF Self, Spawn, Continue, Fail
<1>5. CASE Jump
  <2>1. Within /\ Op \in Jumps /\ status = "running" /\ UNCHANGED <<program, rs, status>>
    BY <1>5 DEF Jump, Jumps
  <2>2. pc' = Off \/ pc' = pc + 1
    BY <1>5 DEF Jump
  <2>. QED  BY <2>1, <2>2 DEF Jumps_
<1>6. CASE Call
  <2>1. CASE Len(rs) >= RetDepth
    BY <1>6, <2>1 DEF Call, Fail
  <2>2. CASE ~ (Len(rs) >= RetDepth)
    BY <1>6, <2>2 DEF Call, Calls_
  <2>. QED  BY <2>1, <2>2
<1>7. CASE Return
  BY <1>7 DEF Return, Fail, Returns_
<1>. QED
  BY <1>1, <1>2, <1>3, <1>4, <1>5, <1>6, <1>7 DEF MachineStep

-----------------------------------------------------------------------------
\* Return addresses follow calls, and the return stack never outgrows its
\* array. The program must be bytes for Off to be a number.
Nested ==
  /\ code \in Seq(Byte)
  /\ pc \in Nat
  /\ rs \in Seq(Nat) /\ Len(rs) <= RetDepth
  /\ ReturnsFollowCalls

LEMMA OffNat ==
  ASSUME code \in Seq(Byte), pc \in Nat, Within
  PROVE  Off \in Nat /\ pc < Count(code)
<1>1. 2 * pc + 1 \in 1 .. Len(code) /\ 2 * pc + 2 \in 1 .. Len(code)
  BY DEF Within
<1>2. ASSUME NEW n \in 1 .. Len(code)  PROVE code[n] \in Nat
  <2>1. code[n] \in Byte
    BY <1>2, ElementOfSeq
  <2>2. Byte \subseteq Nat
    BY DEF Byte
  <2>. QED  BY <2>1, <2>2
<1>3. code[2 * pc + 1] \in Nat /\ code[2 * pc + 2] \in Nat
  BY <1>1, <1>2, Zenon
<1>4. InstrAt(code, pc) \in Nat
  BY <1>3 DEF InstrAt
<1>. QED  BY <1>4 DEF Off, OffAt, Within, Count

\* What is left of a stack without its top.
LEMMA Popped ==
  ASSUME NEW s \in Seq(Nat), s # <<>>
  PROVE  LET t == SubSeq(s, 1, Len(s) - 1) IN
         /\ t \in Seq(Nat) /\ Len(t) = Len(s) - 1
         /\ \A i \in 1 .. Len(s) - 1 : t[i] = s[i]
<1>1. Len(s) \in Nat /\ Len(s) > 0
  BY EmptySeq, LenProperties
<1>2. PICK n \in Nat : Len(s) - 1 = n
  BY <1>1
<1>3. \A i \in 1 .. n : s[i] \in Nat
  BY <1>1, <1>2, ElementOfSeq
<1>4. /\ SubSeq(s, 1, n) \in Seq(Nat)
      /\ Len(SubSeq(s, 1, n)) = IF 1 <= n THEN n - 1 + 1 ELSE 0
      /\ \A i \in 1 .. n - 1 + 1 : SubSeq(s, 1, n)[i] = s[1 + i - 1]
  BY <1>2, <1>3, SubSeqProperties
<1>5. Len(SubSeq(s, 1, n)) = n
  BY <1>4
<1>6. ASSUME NEW i \in 1 .. n  PROVE SubSeq(s, 1, n)[i] = s[i]
  <2>1. i \in 1 .. n - 1 + 1 /\ 1 + i - 1 = i
    OBVIOUS
  <2>2. SubSeq(s, 1, n)[i] = s[1 + i - 1]
    BY <1>4, <2>1, Zenon
  <2>. QED  BY <2>1, <2>2, Zenon
<1>. QED  BY <1>2, <1>4, <1>5, <1>6, Zenon

LEMMA NestedStep ==
  ASSUME Nested, MachineStep
  PROVE  Nested'
<1> USE DEF Nested, ReturnsFollowCalls
<1>1. code' = code /\ granted' = granted
  BY ControlStep DEF program
<1>2. CASE NoFetch
  BY <1>1, <1>2 DEF NoFetch
<1>3. CASE MovesOn
  <2>1. pc' = pc + 1 /\ rs' = rs
    BY <1>3, Zenon DEF MovesOn
  <2>. QED  BY <1>1, <2>1
<1>4. CASE Jumps_
  BY <1>1, <1>4, OffNat DEF Jumps_
<1>5. CASE Calls_
  <2>1. pc' \in Nat
    BY <1>5, OffNat DEF Calls_
  <2>2. pc + 1 <= Count(code) /\ OpAt(code, pc) = "CALL"
    BY <1>5, OffNat DEF Calls_, Op, Count
  <2>3. /\ rs' \in Seq(Nat) /\ Len(rs') = Len(rs) + 1
        /\ \A i \in 1 .. Len(rs) + 1 : rs'[i] = IF i = Len(rs) + 1 THEN pc + 1 ELSE rs[i]
    BY <1>5, AppendProperties DEF Calls_
  <2>4. Len(rs') <= RetDepth
    BY <1>5, <2>3, MachineAssumption DEF Calls_
  <2>5. ASSUME NEW i \in 1 .. Len(rs')
        PROVE  rs'[i] > 0 /\ rs'[i] <= Count(code) /\ OpAt(code, rs'[i] - 1) = "CALL"
    <3>1. CASE i = Len(rs) + 1
      <4>1. rs'[i] = pc + 1
        BY <3>1, <2>3, <2>5
      <4>2. rs'[i] - 1 = pc
        BY <4>1
      <4>. QED  BY <4>1, <4>2, <2>2
    <3>2. CASE i # Len(rs) + 1
      <4>1. i \in 1 .. Len(rs) /\ rs'[i] = rs[i]
        BY <3>2, <2>3, <2>5
      <4>. QED  BY <4>1
    <3>. QED  BY <3>1, <3>2
  <2>. QED  BY <1>1, <2>1, <2>3, <2>4, <2>5
<1>6. CASE Returns_
  <2>1. Len(rs) \in Nat /\ Len(rs) > 0
    BY <1>6, EmptySeq, LenProperties DEF Returns_
  <2>2. rs[Len(rs)] \in Nat
    BY <2>1, ElementOfSeq
  <2>3. /\ rs' \in Seq(Nat) /\ Len(rs') = Len(rs) - 1
        /\ \A i \in 1 .. Len(rs) - 1 : rs'[i] = rs[i]
    BY <1>6, Popped DEF Returns_
  <2>4. \A i \in 1 .. Len(rs') : i \in 1 .. Len(rs) /\ rs'[i] = rs[i]
    BY <2>1, <2>3
  <2>. QED  BY <1>1, <1>6, <2>1, <2>2, <2>3, <2>4, MachineAssumption DEF Returns_
<1>. QED
  BY <1>2, <1>3, <1>4, <1>5, <1>6, ControlStep

LEMMA NestedAtLoad ==
  ASSUME NEW u, u.code \in Seq(Byte), LoadUnit(u)
  PROVE  Nested'
<1>1. code' = u.code /\ pc' = 0 /\ rs' = <<>>
  BY DEF LoadUnit, Load
<1>2. <<>> \in Seq(Nat) /\ Len(<<>>) = 0
  BY EmptySeq
<1>. QED  BY <1>1, <1>2, MachineAssumption DEF Nested, ReturnsFollowCalls

LEMMA NestedRests ==
  ASSUME Nested, UNCHANGED machine
  PROVE  Nested'
BY DEF Nested, ReturnsFollowCalls, machine, program

LEMMA NestedAtFirst ==
  ASSUME MachineInit
  PROVE  Nested
<1>1. code = <<>> /\ pc = 0 /\ rs = <<>>
  BY DEF MachineInit
<1>2. <<>> \in Seq(Nat) /\ <<>> \in Seq(Byte) /\ Len(<<>>) = 0
  BY EmptySeq
<1>. QED  BY <1>1, <1>2, MachineAssumption DEF Nested, ReturnsFollowCalls

\* In the evolution the program is the unit's.
UnitNested == Nested /\ unit.code \in Seq(Byte)

LEMMA NestedInductive ==
  ASSUME UnitNested, [Next]_vars
  PROVE  UnitNested'
<1> USE DEF UnitNested
<1>1. CASE Refuse \/ Abandon \/ Detect \/ UNCHANGED vars
  <2>1. UNCHANGED machine /\ unit' = unit
    BY <1>1 DEF Refuse, Abandon, Detect, evolution, vars
  <2>. QED  BY <2>1, NestedRests
<1>2. CASE Execute
  <2>1. unit' = unit /\ LoadUnit(unit)
    BY <1>2 DEF Execute, evolution
  <2>. QED  BY <2>1, NestedAtLoad
<1>3. CASE Run
  BY <1>3, NestedStep DEF Run, evolution
<1>4. CASE Advance
  <2>1. UNCHANGED machine /\ unit'.code = unit.code
    BY <1>4 DEF Advance
  <2>. QED  BY <2>1, NestedRests
<1>. QED  BY <1>1, <1>2, <1>3, <1>4 DEF Next

LEMMA NestedInit ==
  ASSUME Init
  PROVE  UnitNested
<1>1. MachineInit /\ unit \in Units
  BY DEF Init
<1>2. unit.code \in Seq(Byte)
  BY <1>1, EvolutionAssumption
<1>. QED  BY <1>1, <1>2, NestedAtFirst DEF UnitNested

\* Whatever a program jumps to, RET goes to the instruction after a CALL, and
\* the 32 entries of ret_stack are never exceeded (vm.c:184-192).
THEOREM CallsNest == Spec => [](ReturnsFollowCalls /\ Len(rs) <= RetDepth)
<1>1. UnitNested => ReturnsFollowCalls /\ Len(rs) <= RetDepth
  BY DEF UnitNested, Nested
<1>. QED  BY <1>1, NestedInit, NestedInductive, PTL DEF Spec

-----------------------------------------------------------------------------
\* A verified program has every right its instructions ask for, and its jumps
\* land inside it.
LEMMA VerifiedMeans ==
  ASSUME Verified(code, granted), code \in Seq(Byte), pc \in Nat, Within
  PROVE  /\ Op = "SELF" => SelfBit \in granted
         /\ Op = "SPAWN" => SpawnBit \in granted
         /\ Op \in Jumps => Off < Count(code)
<1>1. pc \in 0 .. Count(code) - 1
  BY DEF Within, Count
<1>2. Op \in Jumps => Off < Count(code)
  BY <1>1 DEF Verified, Op, Off
<1>3. Required(code) \subseteq granted
  BY DEF Verified
<1>4. Op = "SELF" => SelfBit \in Required(code)
  BY <1>1 DEF Required, Op, SelfBit, SpawnBit
<1>5. Op = "SPAWN" => SpawnBit \in Required(code)
  BY <1>1 DEF Required, Op, SelfBit, SpawnBit
<1>. QED  BY <1>2, <1>3, <1>4, <1>5

LEMMA VerifiedStep ==
  ASSUME Nested, VerifiedStays, MachineStep
  PROVE  VerifiedStays'
<1>1. code' = code /\ granted' = granted
  BY ControlStep DEF program
<1> SUFFICES ASSUME Verified(code, granted)
             PROVE  pc' <= Count(code) /\ status' # "no capability"
  BY <1>1 DEF VerifiedStays
<1>2. code \in Seq(Byte) /\ pc \in Nat /\ Len(code) \in Nat
  BY LenProperties DEF Nested
<1>3. CASE NoFetch
  BY <1>3 DEF NoFetch, VerifiedStays
<1>4. CASE MovesOn
  <2>1. Within /\ pc' = pc + 1
    BY <1>4 DEF MovesOn
  <2>2. pc' <= Count(code)
    BY <1>2, <2>1 DEF Within, Count
  <2>3. status' # "no capability"
    BY <1>2, <1>4, <2>1, VerifiedMeans DEF MovesOn
  <2>. QED  BY <2>2, <2>3
<1>5. CASE Jumps_ \/ Calls_
  <2>1. Within /\ Op \in Jumps /\ pc' = Off /\ status' = "running"
    BY <1>5 DEF Jumps_, Calls_, Jumps
  <2>2. Off < Count(code) /\ Off \in Nat
    BY <1>2, <2>1, VerifiedMeans, OffNat
  <2>. QED  BY <1>2, <2>1, <2>2 DEF Count
<1>6. CASE Returns_
  <2>1. pc' = rs[Len(rs)] /\ status' = "running" /\ Len(rs) \in 1 .. Len(rs)
    BY <1>6, EmptySeq, LenProperties DEF Returns_, Nested
  <2>2. rs[Len(rs)] <= Count(code)
    BY <2>1 DEF Nested, ReturnsFollowCalls
  <2>. QED  BY <2>1, <2>2
<1>. QED
  BY <1>3, <1>4, <1>5, <1>6, ControlStep

LEMMA VerifiedInductive ==
  ASSUME UnitNested, VerifiedStays, [Next]_vars
  PROVE  VerifiedStays'
<1>1. CASE Refuse \/ Abandon \/ Detect \/ Advance \/ UNCHANGED vars
  <2>1. UNCHANGED <<code, granted, pc, status>>
    BY <1>1 DEF Refuse, Abandon, Detect, Advance, vars, machine, program
  <2>. QED  BY <2>1 DEF VerifiedStays
<1>2. CASE Execute
  <2>1. code' = unit.code /\ pc' = 0 /\ status' = "running"
    BY <1>2 DEF Execute, LoadUnit, Load
  <2>2. Len(unit.code) \in Nat
    BY LenProperties DEF UnitNested
  <2>3. 0 <= Count(unit.code)
    <3>1. \A n \in Nat : 0 <= n \div 2
      OBVIOUS
    <3>. QED  BY <2>2, <3>1, Zenon DEF Count
  <2>. QED  BY <2>1, <2>3, Zenon DEF VerifiedStays
<1>3. CASE Run
  BY <1>3, VerifiedStep DEF Run, UnitNested
<1>. QED  BY <1>1, <1>2, <1>3 DEF Next

\* A program verifier_analyze passes for the rights it runs with stays inside
\* its code and never asks for a right it lacks (verifier.c:13-77).
THEOREM VerifierIsSound == Spec => []VerifiedStays
<1>1. Init => VerifiedStays
  <2> SUFFICES ASSUME Init  PROVE pc <= Count(code) /\ status # "no capability"
    BY DEF VerifiedStays
  <2>1. code = <<>> /\ pc = 0 /\ status = "halted"
    BY DEF Init, MachineInit
  <2>2. Len(<<>>) = 0
    BY EmptySeq
  <2>. QED  BY <2>1, <2>2 DEF Count
<1>. QED  BY <1>1, NestedInit, NestedInductive, VerifiedInductive, PTL DEF Spec

-----------------------------------------------------------------------------
LEMMA FailingStep ==
  ASSUME MachineStep, status' \in Errors
  PROVE  UNCHANGED <<store, rs>>
<1>1. status' # "running" /\ status' # "halted"
  BY DEF Errors
<1> USE DEF Fetch, Continue, Fail
<1>2. CASE OutOfFuel \/ FetchOutside
  BY <1>2 DEF OutOfFuel, FetchOutside
<1>3. CASE Nop \/ Halt \/ Assign \/ Compare \/ CapCheck \/ Emit \/ Jump
  BY <1>1, <1>3 DEF Nop, Halt, Assign, Compare, CapCheck, Emit, Jump
<1>4. CASE Push \/ Pop \/ LoadCell \/ StoreCell \/ BitFlip \/ BitRead
  BY <1>1, <1>4 DEF Push, Pop, LoadCell, StoreCell, BitFlip, BitRead
<1>5. CASE Call \/ Return
  BY <1>1, <1>5 DEF Call, Return
<1>6. CASE Self \/ Spawn
  BY <1>1, <1>6 DEF Self, Spawn
<1>. QED
  BY <1>2, <1>3, <1>4, <1>5, <1>6 DEF MachineStep

\* No failing instruction has half an effect, whatever failed (vm.c:88-259).
THEOREM FailuresAreInert == Spec => FailureIsInert
<1>1. [Next]_vars => [status' \in Errors => UNCHANGED <<store, rs>>]_machine
  <2> SUFFICES ASSUME [Next]_vars, ~ UNCHANGED machine, status' \in Errors
               PROVE  UNCHANGED <<store, rs>>
    OBVIOUS
  <2>1. CASE Refuse \/ Abandon \/ Detect \/ Advance \/ UNCHANGED vars
    BY <2>1 DEF Refuse, Abandon, Detect, Advance, vars
  <2>2. CASE Execute
    BY <2>2 DEF Execute, LoadUnit, Load, Errors
  <2>3. CASE Run
    BY <2>3, FailingStep DEF Run
  <2>. QED  BY <2>1, <2>2, <2>3 DEF Next
<1>. QED  BY <1>1, PTL DEF Spec, FailureIsInert

-----------------------------------------------------------------------------

(* The evolution. vm_step is a function of the machine (After), so an      *)
(* execution is determined by the state it starts from, and equal entries  *)
(* of the trace have equal successors. What the two detectors find then    *)
(* follows from the trace alone.                                           *)

\* All of the machine.
Machine ==
  [code |-> code, granted |-> granted, regs |-> regs, flags |-> flags, ds |-> ds, rs |-> rs,
   memory |-> memory, output |-> output, pc |-> pc, fuel |-> fuel, spawn |-> spawn, status |-> status]

OpOf(m) == OpAt(m.code, m.pc)
OffOf(m) == OffAt(m.code, m.pc)
AOf(m) == (InstrAt(m.code, m.pc) \div 256) % 8
BOf(m) == (InstrAt(m.code, m.pc) \div 32) % 8
COf(m) == (InstrAt(m.code, m.pc) \div 4) % 8
ImmOf(m) == InstrAt(m.code, m.pc) % 256

ResultOf(m) ==
  LET op == OpOf(m)  b == m.regs[BOf(m)]  c == m.regs[COf(m)] IN
  CASE op = "LDI"  -> ImmOf(m)
    [] op = "ADD"  -> (b + c) % 2^16
    [] op = "SUB"  -> (b - c) % 2^16
    [] op = "AND"  -> Packed(Ones(b) \cap Ones(c))
    [] op = "OR"   -> Packed(Ones(b) \cup Ones(c))
    [] op = "XOR"  -> Packed((Ones(b) \cup Ones(c)) \ (Ones(b) \cap Ones(c)))
    [] op = "NOT"  -> 65535 - b
    [] op = "SHL"  -> (b * 2^(c % 16)) % 2^16
    [] op = "SHR"  -> b \div 2^(c % 16)
    [] op = "READ" -> 0
    [] op = "FUEL" -> m.fuel - 1
    [] op = "MOV"  -> b
    [] op = "ADDI" -> (m.regs[AOf(m)] + ImmOf(m)) % 2^16

CarryOf(m) ==
  IF OpOf(m) = "ADD" THEN m.regs[BOf(m)] + m.regs[COf(m)] > 65535
  ELSE IF OpOf(m) = "SUB" THEN LET r == [m.regs EXCEPT ![AOf(m)] = ResultOf(m)] IN r[BOf(m)] < r[COf(m)]
  ELSE m.flags.carry

\* Where the instruction cannot do what it is for.
ErrorOf(m) ==
  LET op == OpOf(m)  a == m.regs[AOf(m)]  b == m.regs[BOf(m)] IN
  CASE op = "PUSH" -> IF Len(m.ds) >= DataDepth THEN "stack overflow" ELSE "none"
    [] op = "POP" -> IF m.ds = <<>> THEN "stack underflow" ELSE "none"
    [] op \in {"LOAD", "STORE"} -> IF b \notin Cells THEN "bounds" ELSE "none"
    [] op = "BFLIP" -> IF a \notin Cells THEN "bounds" ELSE "none"
    [] op = "BREAD" -> IF a \notin Cells THEN "bounds"
                       ELSE IF Len(m.ds) >= DataDepth THEN "stack overflow" ELSE "none"
    [] op = "CALL" -> IF Len(m.rs) >= RetDepth THEN "stack overflow" ELSE "none"
    [] op = "RET" -> IF m.rs = <<>> THEN "stack underflow" ELSE "none"
    [] op = "SELF" -> IF SelfBit \notin m.granted THEN "no capability"
                      ELSE IF ImmOf(m) >= Len(m.code) THEN "bounds" ELSE "none"
    [] op = "SPAWN" -> IF SpawnBit \notin m.granted THEN "no capability"
                       ELSE IF a + b > MemSize \/ b > SpawnMax THEN "bounds" ELSE "none"
    [] OTHER -> "none"

Fetches(m) == m.fuel # 0 /\ ~ (m.pc * 2 + 1 >= Len(m.code))

StatusAfter(m) ==
  IF m.fuel = 0 THEN "out of fuel"
  ELSE IF ~ Fetches(m) THEN "bounds"
  ELSE IF OpOf(m) = "HALT" THEN "halted"
  ELSE IF ErrorOf(m) # "none" THEN ErrorOf(m) ELSE "running"

\* One of ops is executed, and succeeds.
Does(m, ops) == Fetches(m) /\ OpOf(m) \in ops /\ ErrorOf(m) = "none"

RegsAfter(m) ==
  LET Assigned(value) == [m.regs EXCEPT ![AOf(m)] = value] IN
  IF Does(m, Assigning) THEN Assigned(ResultOf(m))
  ELSE IF Does(m, {"POP"}) THEN Assigned(m.ds[Len(m.ds)])
  ELSE IF Does(m, {"LOAD"}) THEN Assigned(m.memory[m.regs[BOf(m)]])
  ELSE IF Does(m, {"SELF"}) THEN Assigned(m.code[ImmOf(m) + 1])
  ELSE m.regs

FlagsAfter(m) ==
  LET a == m.regs[AOf(m)]  b == m.regs[BOf(m)] IN
  IF Does(m, Assigning) THEN [m.flags EXCEPT !.carry = CarryOf(m)]
  ELSE IF Does(m, {"CMP"}) THEN [m.flags EXCEPT !.zero = a = b, !.greater = a > b]
  ELSE IF Does(m, {"CCHK"}) THEN [m.flags EXCEPT !.zero = (ImmOf(m) % 64) \in m.granted]
  ELSE m.flags

DsAfter(m) ==
  IF Does(m, {"PUSH"}) THEN Append(m.ds, m.regs[AOf(m)])
  ELSE IF Does(m, {"BREAD"}) THEN Append(m.ds, Bit(m.memory[m.regs[AOf(m)]], m.regs[BOf(m)] % 8))
  ELSE IF Does(m, {"POP"}) THEN SubSeq(m.ds, 1, Len(m.ds) - 1)
  ELSE m.ds

RsAfter(m) ==
  IF Does(m, {"CALL"}) THEN Append(m.rs, m.pc + 1)
  ELSE IF Does(m, {"RET"}) THEN SubSeq(m.rs, 1, Len(m.rs) - 1)
  ELSE m.rs

MemoryAfter(m) ==
  IF Does(m, {"STORE"}) THEN [m.memory EXCEPT ![m.regs[BOf(m)]] = m.regs[AOf(m)] % 256]
  ELSE IF Does(m, {"BFLIP"})
       THEN LET b == m.regs[BOf(m)] % 8 IN
            [m.memory EXCEPT ![m.regs[AOf(m)]] = IF Bit(@, b) = 1 THEN @ - 2^b ELSE @ + 2^b]
  ELSE m.memory

OutputAfter(m) ==
  IF Does(m, {"EMIT"}) /\ Len(m.output) < OutSlots THEN Append(m.output, m.regs[AOf(m)]) ELSE m.output

SpawnAfter(m) ==
  IF Does(m, {"SPAWN"}) THEN [i \in 1 .. m.regs[BOf(m)] |-> m.memory[m.regs[AOf(m)] + i - 1]] ELSE m.spawn

TakenOf(m) ==
  CASE OpOf(m) = "JMP" -> TRUE
    [] OpOf(m) = "JZ"  -> m.flags.zero
    [] OpOf(m) = "JNZ" -> ~ m.flags.zero
    [] OpOf(m) = "JGT" -> m.flags.greater

PcAfter(m) ==
  IF ~ Fetches(m) THEN m.pc
  ELSE IF Does(m, {"JMP", "JZ", "JNZ", "JGT"}) THEN IF TakenOf(m) THEN OffOf(m) ELSE m.pc + 1
  ELSE IF Does(m, {"CALL"}) THEN OffOf(m)
  ELSE IF Does(m, {"RET"}) THEN m.rs[Len(m.rs)]
  ELSE m.pc + 1

After(m) ==
  [code |-> m.code, granted |-> m.granted, regs |-> RegsAfter(m), flags |-> FlagsAfter(m),
   ds |-> DsAfter(m), rs |-> RsAfter(m), memory |-> MemoryAfter(m), output |-> OutputAfter(m),
   pc |-> PcAfter(m), fuel |-> IF m.fuel = 0 THEN 0 ELSE m.fuel - 1, spawn |-> SpawnAfter(m),
   status |-> StatusAfter(m)]

LEMMA MachineFields ==
  /\ Machine.code = code /\ Machine.granted = granted /\ Machine.regs = regs /\ Machine.flags = flags
  /\ Machine.ds = ds /\ Machine.rs = rs /\ Machine.memory = memory /\ Machine.output = output
  /\ Machine.pc = pc /\ Machine.fuel = fuel /\ Machine.spawn = spawn /\ Machine.status = status
BY DEF Machine

\* The decoded instruction is the machine's.
LEMMA DecodedAlike ==
  /\ OpOf(Machine) = Op /\ OffOf(Machine) = Off /\ AOf(Machine) = A /\ BOf(Machine) = B
  /\ COf(Machine) = C /\ ImmOf(Machine) = Imm
BY MachineFields DEF OpOf, OffOf, AOf, BOf, COf, ImmOf, Op, Off, A, B, C, Imm

LEMMA ComputedAlike ==
  ResultOf(Machine) = Result /\ CarryOf(Machine) = Carry /\ TakenOf(Machine) = Taken
<1>. USE MachineFields, DecodedAlike
<1>1. ResultOf(Machine) = Result
  BY DEF ResultOf, Result
<1>2. CarryOf(Machine) = Carry
  BY <1>1 DEF CarryOf, Carry
<1>3. TakenOf(Machine) = Taken
  BY DEF TakenOf, Taken
<1>. QED  BY <1>1, <1>2, <1>3

\* What the machine must be for a step to be told by its fuel and its pc.
Countable == code \in Seq(Byte) /\ pc \in Nat /\ fuel \in Nat

LEMMA FetchAlike ==
  ASSUME NEW ops, Countable, Fetch(ops)
  PROVE  /\ status = "running" /\ UNCHANGED program
         /\ Fetches(Machine) /\ OpOf(Machine) = Op /\ Op \in ops
         /\ fuel # 0 /\ fuel' = fuel - 1
<1>1. fuel # 0 /\ ~ (pc * 2 + 1 >= Len(code))
  <2>1. Len(code) \in Nat
    BY LenProperties DEF Countable
  <2>. QED  BY <2>1 DEF Countable, Fetch
<1>. QED  BY <1>1, MachineFields, DecodedAlike DEF Fetch, Fetches

\* A step is the one After computes.
Acts ==
  /\ status = "running" /\ UNCHANGED program
  /\ regs' = RegsAfter(Machine) /\ flags' = FlagsAfter(Machine)
  /\ ds' = DsAfter(Machine) /\ rs' = RsAfter(Machine)
  /\ memory' = MemoryAfter(Machine) /\ output' = OutputAfter(Machine)
  /\ pc' = PcAfter(Machine) /\ spawn' = SpawnAfter(Machine)
  /\ fuel' = IF fuel = 0 THEN 0 ELSE fuel - 1
  /\ status' = StatusAfter(Machine)

\* A fetched instruction, and whether it can do what it is for.
LEMMA Fetched ==
  ASSUME NEW ops, Countable, Fetch(ops)
  PROVE  /\ status = "running" /\ UNCHANGED program /\ Op \in ops
         /\ fuel' = IF fuel = 0 THEN 0 ELSE fuel - 1
         /\ StatusAfter(Machine) = IF Op = "HALT" THEN "halted"
                                   ELSE IF ErrorOf(Machine) # "none" THEN ErrorOf(Machine) ELSE "running"
         /\ \A doing : Does(Machine, doing) <=> Op \in doing /\ ErrorOf(Machine) = "none"
         /\ Fetches(Machine)
<1>1. Fetches(Machine) /\ Machine.fuel # 0
  BY FetchAlike, MachineFields
<1>. QED  BY FetchAlike, <1>1, Zenon DEF StatusAfter, Does

LEMMA NothingFetched ==
  ASSUME Countable, OutOfFuel \/ FetchOutside
  PROVE  Acts
<1>1. ~ Fetches(Machine) /\ \A ops : ~ Does(Machine, ops)
  <2>1. Len(code) \in Nat
    BY LenProperties DEF Countable
  <2>2. ~ Fetches(Machine)
    BY <2>1, MachineFields DEF Fetches, OutOfFuel, FetchOutside, Countable
  <2>. QED  BY <2>2 DEF Does
<1>2. /\ status = "running" /\ UNCHANGED <<program, store, rs, pc>>
      /\ fuel' = IF fuel = 0 THEN 0 ELSE fuel - 1
      /\ status' = IF fuel = 0 THEN "out of fuel" ELSE "bounds"
  <2>1. CASE OutOfFuel
    BY <2>1 DEF OutOfFuel
  <2>2. CASE FetchOutside
    <3>1. fuel # 0
      BY <2>2 DEF FetchOutside, Countable
    <3>. QED  BY <2>2, <3>1 DEF FetchOutside
  <2>. QED  BY <2>1, <2>2
<1>. QED
  BY <1>1, <1>2, MachineFields
     DEF Acts, RegsAfter, FlagsAfter, DsAfter, RsAfter, MemoryAfter, OutputAfter, PcAfter, SpawnAfter,
         StatusAfter, program, store

LEMMA SmallStep ==
  ASSUME Countable, Nop \/ Halt \/ Assign \/ Compare \/ CapCheck \/ Emit
  PROVE  Acts
<1>. USE MachineFields, DecodedAlike, ComputedAlike
<1>. USE DEF Acts, RegsAfter, FlagsAfter, DsAfter, RsAfter, MemoryAfter, OutputAfter, PcAfter, SpawnAfter,
             Continue, store, program
<1>1. CASE Nop
  <2>1. Fetch({"NOP"}) /\ Op = "NOP" /\ ErrorOf(Machine) = "none"
    BY <1>1 DEF Nop, Fetch, ErrorOf
  <2>. QED  BY <1>1, <2>1, Fetched DEF Nop, Assigning
<1>2. CASE Halt
  <2>1. Fetch({"HALT"}) /\ Op = "HALT" /\ ErrorOf(Machine) = "none"
    BY <1>2 DEF Halt, Fetch, ErrorOf
  <2>. QED  BY <1>2, <2>1, Fetched DEF Halt, Assigning
<1>3. CASE Assign
  <2>1. Fetch(Assigning) /\ Op \in Assigning /\ ErrorOf(Machine) = "none"
    BY <1>3 DEF Assign, Fetch, ErrorOf, Assigning
  <2>. QED  BY <1>3, <2>1, Fetched DEF Assign, Assigning
<1>4. CASE Compare
  <2>1. Fetch({"CMP"}) /\ Op = "CMP" /\ ErrorOf(Machine) = "none"
    BY <1>4 DEF Compare, Fetch, ErrorOf
  <2>. QED  BY <1>4, <2>1, Fetched DEF Compare, Assigning
<1>5. CASE CapCheck
  <2>1. Fetch({"CCHK"}) /\ Op = "CCHK" /\ ErrorOf(Machine) = "none"
    BY <1>5 DEF CapCheck, Fetch, ErrorOf
  <2>. QED  BY <1>5, <2>1, Fetched DEF CapCheck, Assigning
<1>6. CASE Emit
  <2>1. Fetch({"EMIT"}) /\ Op = "EMIT" /\ ErrorOf(Machine) = "none"
    BY <1>6 DEF Emit, Fetch, ErrorOf
  <2>. QED  BY <1>6, <2>1, Fetched DEF Emit, Assigning
<1>. QED  BY <1>1, <1>2, <1>3, <1>4, <1>5, <1>6

\* An instruction that fails changes the status and pc alone.
LEMMA FailAlike ==
  ASSUME NEW ops, NEW error, Countable, Fetch(ops), Op # "HALT",
         ErrorOf(Machine) = error, error # "none", Fail(error)
  PROVE  Acts
BY Fetched, MachineFields
   DEF Acts, RegsAfter, FlagsAfter, DsAfter, RsAfter, MemoryAfter, OutputAfter, PcAfter, SpawnAfter,
       Fail, store, program

\* The instructions that can fail: either the step is the failure ErrorOf names,
\* or it is the whole effect.
LEMMA DataStep ==
  ASSUME Countable, Push \/ Pop \/ LoadCell \/ StoreCell \/ BitFlip \/ BitRead
  PROVE  Acts
<1>. USE MachineFields, DecodedAlike
<1>. USE DEF Acts, RegsAfter, FlagsAfter, DsAfter, RsAfter, MemoryAfter, OutputAfter, PcAfter, SpawnAfter,
             Continue, store, program, Assigning
<1>1. CASE Push
  <2>1. Fetch({"PUSH"}) /\ Op = "PUSH"
    BY <1>1 DEF Push, Fetch
  <2>2. ErrorOf(Machine) = IF Len(ds) >= DataDepth THEN "stack overflow" ELSE "none"
    BY <2>1, Zenon DEF ErrorOf
  <2>3. CASE Len(ds) >= DataDepth
    BY <1>1, <2>1, <2>2, <2>3, FailAlike DEF Push
  <2>4. CASE ~ (Len(ds) >= DataDepth)
    BY <1>1, <2>1, <2>2, <2>4, Fetched DEF Push
  <2>. QED  BY <2>3, <2>4
<1>2. CASE Pop
  <2>1. Fetch({"POP"}) /\ Op = "POP"
    BY <1>2 DEF Pop, Fetch
  <2>2. ErrorOf(Machine) = IF ds = <<>> THEN "stack underflow" ELSE "none"
    BY <2>1, Zenon DEF ErrorOf
  <2>3. CASE ds = <<>>
    BY <1>2, <2>1, <2>2, <2>3, FailAlike DEF Pop
  <2>4. CASE ~ (ds = <<>>)
    BY <1>2, <2>1, <2>2, <2>4, Fetched DEF Pop
  <2>. QED  BY <2>3, <2>4
<1>3. CASE LoadCell
  <2>1. Fetch({"LOAD"}) /\ Op = "LOAD"
    BY <1>3 DEF LoadCell, Fetch
  <2>2. ErrorOf(Machine) = IF regs[B] \notin Cells THEN "bounds" ELSE "none"
    BY <2>1, Zenon DEF ErrorOf
  <2>3. CASE regs[B] \notin Cells
    BY <1>3, <2>1, <2>2, <2>3, FailAlike DEF LoadCell
  <2>4. CASE ~ (regs[B] \notin Cells)
    BY <1>3, <2>1, <2>2, <2>4, Fetched DEF LoadCell
  <2>. QED  BY <2>3, <2>4
<1>4. CASE StoreCell
  <2>1. Fetch({"STORE"}) /\ Op = "STORE"
    BY <1>4 DEF StoreCell, Fetch
  <2>2. ErrorOf(Machine) = IF regs[B] \notin Cells THEN "bounds" ELSE "none"
    BY <2>1, Zenon DEF ErrorOf
  <2>3. CASE regs[B] \notin Cells
    BY <1>4, <2>1, <2>2, <2>3, FailAlike DEF StoreCell
  <2>4. CASE ~ (regs[B] \notin Cells)
    BY <1>4, <2>1, <2>2, <2>4, Fetched DEF StoreCell
  <2>. QED  BY <2>3, <2>4
<1>5. CASE BitFlip
  <2>1. Fetch({"BFLIP"}) /\ Op = "BFLIP"
    BY <1>5 DEF BitFlip, Fetch
  <2>2. ErrorOf(Machine) = IF regs[A] \notin Cells THEN "bounds" ELSE "none"
    BY <2>1, Zenon DEF ErrorOf
  <2>3. CASE regs[A] \notin Cells
    BY <1>5, <2>1, <2>2, <2>3, FailAlike DEF BitFlip
  <2>4. CASE ~ (regs[A] \notin Cells)
    BY <1>5, <2>1, <2>2, <2>4, Fetched DEF BitFlip
  <2>. QED  BY <2>3, <2>4
<1>6. CASE BitRead
  <2>1. Fetch({"BREAD"}) /\ Op = "BREAD"
    BY <1>6 DEF BitRead, Fetch
  <2>2. ErrorOf(Machine) = IF regs[A] \notin Cells THEN "bounds" ELSE IF Len(ds) >= DataDepth THEN "stack overflow" ELSE "none"
    BY <2>1, Zenon DEF ErrorOf
  <2>3. CASE regs[A] \notin Cells
    BY <1>6, <2>1, <2>2, <2>3, FailAlike DEF BitRead
  <2>4. CASE ~ (regs[A] \notin Cells) /\ Len(ds) >= DataDepth
    BY <1>6, <2>1, <2>2, <2>4, FailAlike DEF BitRead
  <2>5. CASE ~ (regs[A] \notin Cells) /\ ~ (Len(ds) >= DataDepth)
    BY <1>6, <2>1, <2>2, <2>5, Fetched DEF BitRead
  <2>. QED  BY <2>3, <2>4, <2>5
<1>. QED  BY <1>1, <1>2, <1>3, <1>4, <1>5, <1>6

LEMMA FlowStep ==
  ASSUME Countable, Jump \/ Call \/ Return \/ Self \/ Spawn
  PROVE  Acts
<1>. USE MachineFields, DecodedAlike, ComputedAlike
<1>. USE DEF Acts, RegsAfter, FlagsAfter, DsAfter, RsAfter, MemoryAfter, OutputAfter, PcAfter, SpawnAfter,
             Continue, store, program, Assigning
<1>1. CASE Jump
  <2>1. Fetch({"JMP", "JZ", "JNZ", "JGT"}) /\ Op \in {"JMP", "JZ", "JNZ", "JGT"}
    BY <1>1 DEF Jump, Fetch
  <2>2. ErrorOf(Machine) = "none"
    BY <2>1 DEF ErrorOf
  <2>. QED  BY <1>1, <2>1, <2>2, Fetched DEF Jump
<1>2. CASE Call
  <2>1. Fetch({"CALL"}) /\ Op = "CALL"
    BY <1>2 DEF Call, Fetch
  <2>2. ErrorOf(Machine) = IF Len(rs) >= RetDepth THEN "stack overflow" ELSE "none"
    BY <2>1, Zenon DEF ErrorOf
  <2>3. CASE Len(rs) >= RetDepth
    BY <1>2, <2>1, <2>2, <2>3, FailAlike DEF Call
  <2>4. CASE ~ (Len(rs) >= RetDepth)
    BY <1>2, <2>1, <2>2, <2>4, Fetched DEF Call
  <2>. QED  BY <2>3, <2>4
<1>3. CASE Return
  <2>1. Fetch({"RET"}) /\ Op = "RET"
    BY <1>3 DEF Return, Fetch
  <2>2. ErrorOf(Machine) = IF rs = <<>> THEN "stack underflow" ELSE "none"
    BY <2>1, Zenon DEF ErrorOf
  <2>3. CASE rs = <<>>
    BY <1>3, <2>1, <2>2, <2>3, FailAlike DEF Return
  <2>4. CASE ~ (rs = <<>>)
    BY <1>3, <2>1, <2>2, <2>4, Fetched DEF Return
  <2>. QED  BY <2>3, <2>4
<1>4. CASE Self
  <2>1. Fetch({"SELF"}) /\ Op = "SELF"
    BY <1>4 DEF Self, Fetch
  <2>2. ErrorOf(Machine) = IF SelfBit \notin granted THEN "no capability" ELSE IF Imm >= Len(code) THEN "bounds" ELSE "none"
    BY <2>1, Zenon DEF ErrorOf
  <2>3. CASE SelfBit \notin granted
    BY <1>4, <2>1, <2>2, <2>3, FailAlike DEF Self
  <2>4. CASE ~ (SelfBit \notin granted) /\ Imm >= Len(code)
    BY <1>4, <2>1, <2>2, <2>4, FailAlike DEF Self
  <2>5. CASE ~ (SelfBit \notin granted) /\ ~ (Imm >= Len(code))
    BY <1>4, <2>1, <2>2, <2>5, Fetched DEF Self
  <2>. QED  BY <2>3, <2>4, <2>5
<1>5. CASE Spawn
  <2>1. Fetch({"SPAWN"}) /\ Op = "SPAWN"
    BY <1>5 DEF Spawn, Fetch
  <2>2. ErrorOf(Machine) = IF SpawnBit \notin granted THEN "no capability" ELSE IF regs[A] + regs[B] > MemSize \/ regs[B] > SpawnMax THEN "bounds" ELSE "none"
    BY <2>1, Zenon DEF ErrorOf
  <2>3. CASE SpawnBit \notin granted
    BY <1>5, <2>1, <2>2, <2>3, FailAlike DEF Spawn
  <2>4. CASE ~ (SpawnBit \notin granted) /\ (regs[A] + regs[B] > MemSize \/ regs[B] > SpawnMax)
    BY <1>5, <2>1, <2>2, <2>4, FailAlike DEF Spawn
  <2>5. CASE ~ (SpawnBit \notin granted) /\ ~ (regs[A] + regs[B] > MemSize \/ regs[B] > SpawnMax)
    BY <1>5, <2>1, <2>2, <2>5, Fetched DEF Spawn
  <2>. QED  BY <2>3, <2>4, <2>5
<1>. QED  BY <1>1, <1>2, <1>3, <1>4, <1>5

\* vm_step is a function of the machine.
LEMMA StepIsAFunction ==
  ASSUME Countable, MachineStep
  PROVE  status = "running" /\ Machine' = After(Machine)
<1>1. Acts
  BY NothingFetched, SmallStep, DataStep, FlowStep DEF MachineStep
<1>. QED  BY <1>1, MachineFields DEF Acts, Machine, After, program

-----------------------------------------------------------------------------
\* A non-empty set of naturals has a least element.
LEMMA LeastNatural ==
  ASSUME NEW T, T \subseteq Nat, T # {}
  PROVE  \E m \in T : \A k \in T : m <= k
<1>1. PICK m \in T : \A k \in T : ~ (<<k, m>> \in OpToRel(<, Nat))
  BY NatLessThanWellFounded, WFMin
<1>2. \A k \in T : ~ (k < m)
  BY <1>1 DEF OpToRel
<1>. QED  BY <1>2

LEMMA LeastIsLeast ==
  ASSUME NEW T, T \subseteq Nat, T # {}
  PROVE  Least(T) \in T /\ \A k \in T : Least(T) <= k
BY LeastNatural, Zenon DEF Least

\* Equal states have equal successors.
Deterministic ==
  \A i, j \in 0 .. Len(trace) - 2 :
     Same(i, j) => Same(i + 1, j + 1) /\ trace[i + 2].used = trace[j + 2].used

LEMMA SameIsEquality ==
  /\ \A i : Same(i, i)
  /\ \A i, j : Same(i, j) => Same(j, i)
  /\ \A i, j, k : Same(i, j) /\ Same(j, k) => Same(i, k)
BY DEF Same

\* From the first state that is seen again on, every state is, one period later.
LEMMA CycleGoesOn ==
  ASSUME Len(trace) \in Nat, Deterministic,
         NEW i \in Nat, NEW l \in Nat \ {0}, i + l <= Len(trace) - 1, Same(i, i + l)
  PROVE  \A k \in i .. Len(trace) - 1 - l : Same(k, k + l)
<1>. DEFINE T == {k \in i .. Len(trace) - 1 - l : ~ Same(k, k + l)}
<1>. SUFFICES ASSUME T # {}  PROVE FALSE
  OBVIOUS
<1>1. T \subseteq Nat
  OBVIOUS
<1>2. PICK m \in T : \A k \in T : m <= k
  BY <1>1, LeastNatural
<1>3. m \in i + 1 .. Len(trace) - 1 - l
  BY <1>2
<1>4. m - 1 \in i .. Len(trace) - 1 - l /\ m - 1 \notin T
  BY <1>2, <1>3
<1>5. Same(m - 1, (m - 1) + l)
  BY <1>4
<1>6. m - 1 \in 0 .. Len(trace) - 2 /\ (m - 1) + l \in 0 .. Len(trace) - 2
  BY <1>3
<1>7. Same((m - 1) + 1, ((m - 1) + l) + 1)
  BY <1>5, <1>6, Zenon DEF Deterministic
<1>8. (m - 1) + 1 = m /\ ((m - 1) + l) + 1 = m + l
  BY <1>3
<1>9. ~ Same(m, m + l)
  BY <1>2
<1>. QED  BY <1>7, <1>8, <1>9, Zenon

\* A state that repeats at once repeats for ever.
LEMMA RepeatGoesOn ==
  ASSUME Len(trace) \in Nat, Deterministic,
         NEW r \in Nat, NEW j \in r .. Len(trace) - 1, r + 1 <= Len(trace) - 1, Same(r, r + 1)
  PROVE  Same(r, j)
<1>. DEFINE T == {k \in r .. Len(trace) - 1 : ~ Same(r, k)}
<1>. SUFFICES ASSUME T # {}  PROVE FALSE
  OBVIOUS
<1>1. T \subseteq Nat
  OBVIOUS
<1>2. PICK m \in T : \A k \in T : m <= k
  BY <1>1, LeastNatural
<1>3. m # r
  BY <1>2, SameIsEquality
<1>4. m - 1 \in r .. Len(trace) - 1 /\ m - 1 \notin T
  BY <1>2, <1>3
<1>5. Same(r, m - 1)
  BY <1>4
<1>6. r \in 0 .. Len(trace) - 2 /\ m - 1 \in 0 .. Len(trace) - 2
  BY <1>2, <1>4
<1>7. Same(r + 1, (m - 1) + 1)
  BY <1>5, <1>6, Zenon DEF Deterministic
<1>8. (m - 1) + 1 = m
  BY <1>2
<1>9. Same(r, m)
  BY <1>7, <1>8, SameIsEquality, Zenon
<1>. QED  BY <1>2, <1>9

\* What Detect leaves behind.
Detected ==
  /\ fixed = IF Repeats = {} THEN None ELSE Least(Repeats)
  /\ cycle = IF Returns = {} THEN [start |-> None, length |-> 0]
             ELSE LET i == Least(Returns) IN
                  [start |-> i, length |-> Least({j \in i + 1 .. Len(trace) - 1 : Same(i, j)}) - i]

LEMMA DetectorsFind ==
  ASSUME Len(trace) \in Nat, Deterministic, Detected, phase = "done"
  PROVE  DetectorsAreRight
<1>1. Repeats \subseteq Nat /\ Returns \subseteq Nat
  BY DEF Repeats, Returns
<1>2. ASSUME NEW r \in Repeats
      PROVE  /\ r \in 1 .. Len(trace) - 1 /\ Same(r, r - 1) /\ Same(r - 1, r)
             /\ r - 1 \in Returns
  <2>1. r \in 1 .. Len(trace) - 1 /\ Same(r, r - 1)
    BY DEF Repeats
  <2>2. Same(r - 1, r)
    BY <2>1, SameIsEquality, Zenon
  <2>3. r - 1 \in 0 .. Len(trace) - 1 /\ r \in (r - 1) + 1 .. Len(trace) - 1
    BY <2>1
  <2>. QED  BY <2>1, <2>2, <2>3, Zenon DEF Returns
<1>3. CASE Returns = {}
  <2>1. Repeats = {}
    BY <1>2, <1>3
  <2>2. cycle.length = 0 /\ fixed = None
    BY <1>3, <2>1 DEF Detected
  <2>. QED  BY <2>2 DEF DetectorsAreRight
<1>4. CASE Returns # {}
  <2>. DEFINE i == Least(Returns)
              J == {j \in i + 1 .. Len(trace) - 1 : Same(i, j)}
              j == Least(J)
              l == j - i
  <2>1. i \in Returns /\ \A k \in Returns : i <= k
    BY <1>1, <1>4, LeastIsLeast
  <2>2. i \in Nat /\ J # {} /\ J \subseteq Nat
    <3>. HIDE DEF i
    <3>1. i \in 0 .. Len(trace) - 1 /\ \E k \in i + 1 .. Len(trace) - 1 : Same(i, k)
      BY <2>1, Zenon DEF Returns
    <3>. QED  BY <3>1
  <2>3. j \in J /\ \A k \in J : j <= k
    BY <2>2, LeastIsLeast
  <2>4. j \in i + 1 .. Len(trace) - 1 /\ Same(i, j)
    BY <2>3
  <2>5. \A k \in i + 1 .. Len(trace) - 1 : Same(i, k) => j <= k
    BY <2>3
  <2>6. cycle.start = i /\ cycle.length = l
    BY <1>4 DEF Detected
  <2>. HIDE DEF J
  <2>. HIDE DEF i
  <2>. HIDE DEF j
  <2>7. l \in Nat \ {0} /\ i + l = j
    BY <2>2, <2>4
  <2>. HIDE DEF l
  <2>8. \A k \in i .. Len(trace) - 1 - l : Same(k, k + l)
    <3>1. i + l <= Len(trace) - 1 /\ Same(i, i + l)
      BY <2>4, <2>7
    <3>. QED  BY <2>2, <2>7, <3>1, CycleGoesOn
  <2>9. ASSUME NEW k \in i .. Len(trace) - 1 - l, k > i
        PROVE  trace[k + 1].used = trace[k + 1 + l].used
    <3>1. k - 1 \in i .. Len(trace) - 1 - l
      BY <2>2, <2>7, <2>9
    <3>2. Same(k - 1, (k - 1) + l)
      BY <2>8, <3>1
    <3>3. k - 1 \in 0 .. Len(trace) - 2 /\ (k - 1) + l \in 0 .. Len(trace) - 2
      BY <2>2, <2>7, <2>9, <3>1
    <3>4. trace[(k - 1) + 2].used = trace[((k - 1) + l) + 2].used
      BY <3>2, <3>3, Zenon DEF Deterministic
    <3>5. (k - 1) + 2 = k + 1 /\ ((k - 1) + l) + 2 = k + 1 + l
      BY <2>2, <2>7, <2>9
    <3>. QED  BY <3>4, <3>5, Zenon
  <2>10. l = 1 => fixed = i + 1
    <3>. SUFFICES ASSUME l = 1  PROVE fixed = i + 1
      OBVIOUS
    <3>1. i + 1 \in 1 .. Len(trace) - 1 /\ Same(i + 1, (i + 1) - 1)
      BY <2>2, <2>4, <2>7, SameIsEquality
    <3>2. i + 1 \in Repeats
      BY <3>1 DEF Repeats
    <3>3. \A r \in Repeats : i + 1 <= r
      <4>. SUFFICES ASSUME NEW r \in Repeats  PROVE i + 1 <= r
        OBVIOUS
      <4>1. i <= r - 1 /\ r \in Nat
        BY <1>1, <1>2, <2>1
      <4>. QED  BY <2>2, <4>1
    <3>4. Least(Repeats) \in Repeats /\ \A r \in Repeats : Least(Repeats) <= r
      BY <1>1, <3>2, LeastIsLeast
    <3>5. Least(Repeats) = i + 1
      <4>. DEFINE f == Least(Repeats)
      <4>1. f \in Nat /\ f <= i + 1 /\ i + 1 <= f
        BY <1>1, <3>2, <3>3, <3>4
      <4>. HIDE DEF f
      <4>2. f = i + 1
        BY <2>2, <4>1
      <4>. QED  BY <4>2 DEF f
    <3>. QED  BY <3>2, <3>5 DEF Detected
  <2>11. l # 1 => fixed = None
    <3>. SUFFICES ASSUME l # 1, Repeats # {}  PROVE FALSE
      BY DEF Detected
    <3>1. PICK r \in Repeats : \A k \in Repeats : r <= k
      BY <1>1, LeastNatural
    <3>2. /\ r \in 1 .. Len(trace) - 1 /\ Same(r, r - 1) /\ Same(r - 1, r)
          /\ i <= r - 1
      BY <1>2, <2>1
    <3>3. CASE r - 1 >= j
      <4>1. /\ r - l \in i .. Len(trace) - 1 - l /\ (r - l) - 1 \in i .. Len(trace) - 1 - l
            /\ (r - l) + l = r /\ ((r - l) - 1) + l = r - 1
        BY <2>2, <2>4, <2>7, <3>2, <3>3
      <4>2. Same(r - l, r) /\ Same((r - l) - 1, r - 1)
        <5>1. Same(r - l, (r - l) + l) /\ Same((r - l) - 1, ((r - l) - 1) + l)
          BY <2>8, <4>1, Zenon
        <5>. QED  BY <4>1, <5>1, Zenon
      <4>3. Same(r - l, (r - l) - 1)
        BY <3>2, <4>2, SameIsEquality, Zenon
      <4>4. r - l \in 1 .. Len(trace) - 1
        BY <2>2, <2>4, <2>7, <3>2, <4>1
      <4>5. r - l \in Repeats
        BY <4>3, <4>4 DEF Repeats
      <4>6. r <= r - l
        BY <3>1, <4>5
      <4>. QED  BY <2>7, <3>2, <4>6
    <3>4. CASE r - 1 < j
      <4>1. r - 1 \in Nat /\ j \in r - 1 .. Len(trace) - 1 /\ (r - 1) + 1 = r
        BY <2>2, <2>4, <3>2, <3>4
      <4>2. Same(r - 1, j)
        BY <3>2, <4>1, RepeatGoesOn
      <4>3. Same(i, r - 1) /\ Same(i, r)
        BY <2>4, <3>2, <4>2, SameIsEquality, Zenon
      <4>4. r - 1 = i
        BY <2>2, <2>4, <2>5, <3>2, <3>4, <4>3
      <4>5. j <= r
        BY <2>2, <2>5, <3>2, <4>3
      <4>. QED  BY <2>2, <2>4, <2>7, <4>4, <4>5, <3>2
    <3>. QED  BY <2>2, <2>4, <3>2, <3>3, <3>4
  <2>. QED  BY <2>6, <2>8, <2>9, <2>10, <2>11, Zenon DEF DetectorsAreRight
<1>. QED  BY <1>3, <1>4

-----------------------------------------------------------------------------
\* What all executions of a unit have in common.
Job(u) == [code |-> u.code, granted |-> Allowed \cap u.rights, fuel |-> Budget(u)]

\* The machine an execution starts with, given the unit's state.
Loaded(job, given) ==
  [code |-> job.code, granted |-> job.granted, regs |-> [r \in Regs |-> 0],
   flags |-> [zero |-> FALSE, carry |-> FALSE, greater |-> FALSE], ds |-> <<>>, rs |-> <<>>,
   memory |-> [c \in Cells |-> IF c < Len(given) THEN given[c + 1] ELSE Image(job.code)[c]],
   output |-> <<>>, pc |-> 0, fuel |-> job.fuel, spawn |-> NoSpawn, status |-> "running"]

LEMMA LoadedMachine ==
  ASSUME NEW u, LoadUnit(u)
  PROVE  Machine' = Loaded(Job(u), u.state) /\ fuel' = Budget(u) /\ status' = "running"
BY DEF LoadUnit, Load, Machine, Loaded, Job, Overlaid

\* The first n + 1 machines of that execution.
Executes(job, given, p, n) ==
  /\ p[0] = Loaded(job, given)
  /\ \A k \in 0 .. n - 1 : p[k].status = "running" /\ p[k + 1] = After(p[k])

Reached(job, given, m) == \E n \in Nat : \E p : Executes(job, given, p, n) /\ p[n] = m

\* The execution has ended, with the first size cells for a state and this much
\* fuel used.
Leaves(job, given, size, final, used) ==
  \E m : /\ Reached(job, given, m) /\ m.status # "running"
         /\ final = [i \in 1 .. size |-> m.memory[i - 1]]
         /\ used = job.fuel - m.fuel

\* Two executions from one state go through the same machines.
LEMMA ExecutionsAgree ==
  ASSUME NEW job, NEW given, NEW n \in Nat, NEW l \in Nat, n <= l, NEW p, NEW q,
         Executes(job, given, p, n), Executes(job, given, q, l)
  PROVE  p[n] = q[n]
<1>. DEFINE T == {k \in 0 .. n : p[k] # q[k]}
<1>. SUFFICES ASSUME T # {}  PROVE FALSE
  OBVIOUS
<1>1. PICK k \in T : \A i \in T : k <= i
  <2>1. T \subseteq Nat
    OBVIOUS
  <2>. QED  BY <2>1, LeastNatural
<1>2. k # 0
  BY <1>1 DEF Executes
<1>3. k - 1 \in 0 .. n - 1 /\ k - 1 \in 0 .. l - 1 /\ k - 1 \in 0 .. n /\ (k - 1) + 1 = k /\ ~ (k <= k - 1)
  BY <1>1, <1>2
<1>4. p[k - 1] = q[k - 1]
  BY <1>1, <1>3
<1>5. p[(k - 1) + 1] = After(p[k - 1]) /\ q[(k - 1) + 1] = After(q[k - 1])
  BY <1>3, Zenon DEF Executes
<1>6. p[k] = q[k]
  BY <1>3, <1>4, <1>5, Zenon
<1>. QED  BY <1>1, <1>6

\* An execution has one end.
LEMMA OneEnd ==
  ASSUME NEW job, NEW given, NEW m1, NEW m2, Reached(job, given, m1), Reached(job, given, m2),
         m1.status # "running", m2.status # "running"
  PROVE  m1 = m2
<1>1. PICK n \in Nat : \E p : Executes(job, given, p, n) /\ p[n] = m1
  BY Zenon DEF Reached
<1>2. PICK p : Executes(job, given, p, n) /\ p[n] = m1
  BY <1>1
<1>3. PICK l \in Nat : \E q : Executes(job, given, q, l) /\ q[l] = m2
  BY Zenon DEF Reached
<1>4. PICK q : Executes(job, given, q, l) /\ q[l] = m2
  BY <1>3
<1>5. ~ (n < l)
  <2>. SUFFICES ASSUME n < l  PROVE FALSE
    OBVIOUS
  <2>1. n <= l /\ n \in 0 .. l - 1
    OBVIOUS
  <2>2. p[n] = q[n]
    BY <1>2, <1>4, <2>1, ExecutionsAgree
  <2>3. q[n].status = "running"
    BY <1>4, <2>1 DEF Executes
  <2>. QED  BY <1>2, <2>2, <2>3
<1>6. ~ (l < n)
  <2>. SUFFICES ASSUME l < n  PROVE FALSE
    OBVIOUS
  <2>1. l <= n /\ l \in 0 .. n - 1
    OBVIOUS
  <2>2. q[l] = p[l]
    BY <1>2, <1>4, <2>1, ExecutionsAgree
  <2>3. p[l].status = "running"
    BY <1>2, <2>1 DEF Executes
  <2>. QED  BY <1>4, <2>2, <2>3
<1>7. n = l /\ n <= l
  BY <1>5, <1>6
<1>. QED  BY <1>2, <1>4, <1>7, ExecutionsAgree

LEMMA OneOutcome ==
  ASSUME NEW job, NEW given, NEW size, NEW f1, NEW f2, NEW u1, NEW u2,
         Leaves(job, given, size, f1, u1), Leaves(job, given, size, f2, u2)
  PROVE  f1 = f2 /\ u1 = u2
<1>1. PICK m1 : /\ Reached(job, given, m1) /\ m1.status # "running"
                /\ f1 = [i \in 1 .. size |-> m1.memory[i - 1]] /\ u1 = job.fuel - m1.fuel
  BY Zenon DEF Leaves
<1>2. PICK m2 : /\ Reached(job, given, m2) /\ m2.status # "running"
                /\ f2 = [i \in 1 .. size |-> m2.memory[i - 1]] /\ u2 = job.fuel - m2.fuel
  BY Zenon DEF Leaves
<1>3. m1 = m2
  BY <1>1, <1>2, OneEnd
<1>. QED  BY <1>1, <1>2, <1>3, Zenon

LEMMA ReachedAtLoad ==
  ASSUME NEW job, NEW given  PROVE Reached(job, given, Loaded(job, given))
<1>. DEFINE p == [k \in {0} |-> Loaded(job, given)]
<1>1. p[0] = Loaded(job, given) /\ 0 \in Nat /\ 0 .. 0 - 1 = {}
  OBVIOUS
<1>2. Executes(job, given, p, 0)
  BY <1>1 DEF Executes
<1>. QED  BY <1>1, <1>2 DEF Reached

LEMMA ReachedGoesOn ==
  ASSUME NEW job, NEW given, NEW m, Reached(job, given, m), m.status = "running"
  PROVE  Reached(job, given, After(m))
<1>1. PICK n \in Nat : \E p : Executes(job, given, p, n) /\ p[n] = m
  BY Zenon DEF Reached
<1>2. PICK p : Executes(job, given, p, n) /\ p[n] = m
  BY <1>1
<1>. DEFINE q == [k \in 0 .. n + 1 |-> IF k = n + 1 THEN After(m) ELSE p[k]]
<1>3. q[n + 1] = After(m) /\ q[n] = m /\ q[0] = p[0] /\ \A k \in 0 .. n : q[k] = p[k]
  BY <1>2
<1>. HIDE DEF q
<1>4. q[0] = Loaded(job, given)
  BY <1>2, <1>3 DEF Executes
<1>5. ASSUME NEW k \in 0 .. (n + 1) - 1  PROVE q[k].status = "running" /\ q[k + 1] = After(q[k])
  <2>1. CASE k = n
    BY <1>3, <2>1
  <2>2. CASE k # n
    <3>1. k \in 0 .. n - 1 /\ k + 1 \in 0 .. n /\ k \in 0 .. n
      BY <2>2
    <3>2. p[k].status = "running" /\ p[k + 1] = After(p[k])
      BY <1>2, <3>1 DEF Executes
    <3>. QED  BY <1>3, <3>1, <3>2
  <2>. QED  BY <2>1, <2>2
<1>6. Executes(job, given, q, n + 1)
  BY <1>4, <1>5, Zenon DEF Executes
<1>7. n + 1 \in Nat
  OBVIOUS
<1>. QED  BY <1>3, <1>6, <1>7, Zenon DEF Reached

-----------------------------------------------------------------------------
\* Every step of the trace is an execution from the state before it.
Executed ==
  /\ UnitNested /\ unit.fuel \in Word /\ fuel \in Nat
  /\ unit = [code |-> unit.code, rights |-> unit.rights, fuel |-> unit.fuel,
             state |-> unit.state, current |-> unit.current]
  /\ Len(trace) \in Nat /\ \E S : trace \in Seq(S)
  /\ phase = "run" => Reached(Job(unit), unit.state, Machine)
  /\ phase \in {"execute", "run"} /\ Len(trace) > 0 => unit.state = trace[Len(trace)].hash
  /\ \A i \in 1 .. Len(trace) - 1 : Leaves(Job(unit), trace[i].hash, StateSize, trace[i + 1].hash, trace[i + 1].used)
  /\ phase = "done" => Detected

LEMMA ExecutedInit ==
  ASSUME Init  PROVE Executed
<1>1. /\ trace = <<>> /\ fuel = 0 /\ unit \in Units /\ phase \in {"detect", "execute"}
  BY DEF Init, MachineInit
<1>2. Len(trace) = 0 /\ trace \in Seq(Nat)
  BY <1>1, EmptySeq
<1>3. unit \in [code : Seq(Byte), rights : SUBSET (0 .. 63), fuel : Word,
                 state : Seq(Byte), current : BOOLEAN]
  BY <1>1, EvolutionAssumption
<1>. QED  BY <1>1, <1>2, <1>3, NestedInit DEF Executed

\* The provers are not to see how large a word is.
LEMMA WordRange == \A w : w \in Word <=> w \in Int /\ 0 <= w /\ w <= 65535
<1>. DEFINE top == 65535
<1>1. top \in Nat
  OBVIOUS
<1>2. Word = 0 .. top
  BY SMTT(60) DEF Word
<1>. HIDE DEF top
<1>3. \A w : w \in Word <=> w \in Int /\ 0 <= w /\ w <= top
  BY <1>1, <1>2, SMT
<1>. QED  BY <1>3 DEF top

LEMMA WordNat == \A w \in Word : w \in Nat
BY WordRange, SMT

LEMMA BudgetNat ==
  ASSUME NEW u, u.fuel \in Word  PROVE Budget(u) \in Nat
<1>1. FuelLimit \in Word
  BY EnvironmentAssumption
<1>. QED  BY <1>1, WordNat, SMT DEF Budget

LEMMA ExecutedStep ==
  ASSUME Executed, [Next]_vars
  PROVE  Executed'
<1>. USE DEF Executed
<1>1. UnitNested'
  BY NestedInductive
<1>2. ASSUME UNCHANGED <<machine, unit, trace>>,
             phase' = "detect" \/ (phase' = phase /\ UNCHANGED <<fixed, cycle>>)
      PROVE  Executed'
  <2>1. Job(unit)' = Job(unit) /\ Machine' = Machine /\ fuel' = fuel
    BY <1>2 DEF Job, Budget, Machine, machine, program, store
  <2>2. phase = "done" /\ phase' = "done" => Detected'
    BY <1>2 DEF Detected, Returns, Repeats, Same
  <2>. QED  BY <1>1, <1>2, <2>1, <2>2
<1>3. CASE Refuse \/ Abandon \/ UNCHANGED vars
  BY <1>2, <1>3 DEF Refuse, Abandon, vars, evolution
<1>4. CASE Detect
  <2>1. /\ UNCHANGED <<machine, unit, trace>> /\ phase' = "done"
        /\ fixed' = IF Repeats = {} THEN None ELSE Least(Repeats)
        /\ cycle' = IF Returns = {} THEN [start |-> None, length |-> 0]
                    ELSE LET i == Least(Returns) IN
                         [start |-> i, length |-> Least({j \in i + 1 .. Len(trace) - 1 : Same(i, j)}) - i]
    BY <1>4 DEF Detect
  <2>2. Job(unit)' = Job(unit) /\ fuel' = fuel
    BY <2>1 DEF Job, Budget, machine
  <2>3. Detected'
    BY <2>1 DEF Detected, Returns, Repeats, Same
  <2>. QED  BY <1>1, <2>1, <2>2, <2>3
<1>5. CASE Execute
  <2>1. UNCHANGED <<unit, trace>> /\ phase = "execute" /\ phase' = "run" /\ LoadUnit(unit)
    BY <1>5 DEF Execute, evolution
  <2>2. Job(unit)' = Job(unit)
    BY <2>1 DEF Job, Budget
  <2>3. Machine' = Loaded(Job(unit), unit.state) /\ fuel' = Budget(unit)
    BY <2>1, LoadedMachine
  <2>4. Reached(Job(unit), unit.state, Machine)'
    BY <2>1, <2>2, <2>3, ReachedAtLoad
  <2>5. fuel' \in Nat
    BY <2>3, BudgetNat
  <2>. QED  BY <1>1, <2>1, <2>2, <2>4, <2>5
<1>6. CASE Run
  <2>1. UNCHANGED <<unit, trace>> /\ phase = "run" /\ phase' = "run" /\ MachineStep
    BY <1>6 DEF Run, evolution
  <2>2. Job(unit)' = Job(unit)
    BY <2>1 DEF Job, Budget
  <2>3. status = "running" /\ Machine' = After(Machine)
    BY <2>1, StepIsAFunction DEF Countable, UnitNested, Nested
  <2>4. Reached(Job(unit), unit.state, After(Machine))
    BY <2>1, <2>3, MachineFields, ReachedGoesOn
  <2>5. fuel' \in Nat
    <3>1. fuel' = IF fuel = 0 THEN 0 ELSE fuel - 1
      BY <2>3, MachineFields DEF Machine, After
    <3>. QED  BY <3>1
  <2>. QED  BY <1>1, <2>1, <2>2, <2>3, <2>4, <2>5
<1>7. CASE Advance
  <2>. DEFINE final == [i \in 1 .. StateSize |-> memory[i - 1]]
              entry == [hash |-> final, used |-> Budget(unit) - fuel]
              l == Len(trace)
  <2>1. /\ unit' = [unit EXCEPT !.state = final] /\ UNCHANGED machine
        /\ phase = "run" /\ status = "halted"
        /\ phase' \in {"detect", "execute"}
        /\ \/ trace' = Append(trace, entry)
           \/ trace' = trace /\ phase' = "detect"
    <3>. HIDE DEF entry
    <3>1. /\ trace' = IF Len(trace) < MaxTrace THEN Append(trace, entry) ELSE trace
          /\ phase' = IF Len(trace) >= MaxTrace \/ Len(trace) + 1 = steps THEN "detect" ELSE "execute"
      BY <1>7, Zenon DEF Advance, entry
    <3>2. phase' \in {"detect", "execute"}
      BY <3>1
    <3>3. CASE Len(trace) < MaxTrace
      BY <3>1, <3>2, <3>3, <1>7, Zenon DEF Advance
    <3>4. CASE ~ (Len(trace) < MaxTrace)
      <4>1. Len(trace) >= MaxTrace
        BY <3>4, EvolutionAssumption
      <4>. QED  BY <3>1, <3>2, <3>4, <4>1, <1>7, Zenon DEF Advance
    <3>. QED  BY <3>3, <3>4
  <2>2. Leaves(Job(unit), unit.state, StateSize, entry.hash, entry.used)
    <3>1. /\ final = [i \in 1 .. StateSize |-> Machine.memory[i - 1]]
          /\ Budget(unit) - fuel = Job(unit).fuel - Machine.fuel
          /\ Machine.status # "running"
      BY <2>1, MachineFields DEF Job
    <3>2. Reached(Job(unit), unit.state, Machine)
      BY <2>1
    <3>. QED  BY <3>1, <3>2 DEF Leaves
  <2>. DEFINE f == final  e == entry
  <2>3. entry.hash = final
    OBVIOUS
  <2>. HIDE DEF final
  <2>. HIDE DEF entry
  <2>4. /\ unit'.code = unit.code /\ unit'.rights = unit.rights /\ unit'.fuel = unit.fuel
        /\ unit'.state = final
        /\ unit' = [code |-> unit'.code, rights |-> unit'.rights, fuel |-> unit'.fuel,
                    state |-> unit'.state, current |-> unit'.current]
    BY <2>1
  <2>5. Job(unit)' = Job(unit) /\ fuel' = fuel
    BY <2>1, <2>4 DEF Job, Budget, machine
  <2>6. CASE trace' = trace /\ phase' = "detect"
    BY <1>1, <2>4, <2>5, <2>6
  <2>7. CASE trace' = Append(trace, entry)
    <3>1. PICK S : trace \in Seq(S)
      BY Zenon
    <3>2. trace \in Seq(S \cup {entry})
      <4>1. \A i \in 1 .. l : trace[i] \in S \cup {entry}
        BY <3>1, ElementOfSeq
      <4>2. trace = [i \in 1 .. l |-> trace[i]]
        BY <3>1
      <4>. QED  BY <4>1, <4>2
    <3>3. /\ trace' \in Seq(S \cup {entry}) /\ Len(trace') = l + 1 /\ l \in Nat
          /\ trace'[l + 1] = entry /\ \A i \in 1 .. l : trace'[i] = trace[i]
      BY <2>7, <3>2, AppendProperties
    <3>. HIDE DEF l
    <3>4. unit'.state = trace'[Len(trace')].hash
      BY <2>3, <2>4, <3>3
    <3>5. ASSUME NEW i \in 1 .. Len(trace') - 1
          PROVE  Leaves(Job(unit), trace'[i].hash, StateSize, trace'[i + 1].hash, trace'[i + 1].used)
      <4>1. CASE i = l
        <5>1. unit.state = trace[l].hash
          BY <2>1, <3>3, <3>5, <4>1 DEF l
        <5>2. trace'[i + 1] = entry /\ trace'[i] = trace[l]
          BY <3>3, <3>5, <4>1
        <5>. QED  BY <2>2, <5>1, <5>2
      <4>2. CASE i # l
        <5>1. i \in 1 .. Len(trace) - 1
          BY <3>3, <3>5, <4>2 DEF l
        <5>2. Leaves(Job(unit), trace[i].hash, StateSize, trace[i + 1].hash, trace[i + 1].used)
          BY <5>1
        <5>3. trace'[i + 1] = trace[i + 1] /\ trace'[i] = trace[i]
          BY <3>3, <5>1 DEF l
        <5>. QED  BY <5>2, <5>3
      <4>. QED  BY <4>1, <4>2
    <3>6. Len(trace') \in Nat /\ \E S_1 : trace' \in Seq(S_1)
      BY <3>3
    <3>. QED  BY <1>1, <2>1, <2>4, <2>5, <3>4, <3>5, <3>6
  <2>. QED  BY <2>1, <2>6, <2>7
<1>. QED  BY <1>3, <1>4, <1>5, <1>6, <1>7 DEF Next

LEMMA ExecutionsRepeat ==
  ASSUME Executed  PROVE Deterministic
<1>. SUFFICES ASSUME NEW i \in 0 .. Len(trace) - 2, NEW j \in 0 .. Len(trace) - 2, Same(i, j)
              PROVE  Same(i + 1, j + 1) /\ trace[i + 2].used = trace[j + 2].used
  BY DEF Deterministic
<1>1. i + 1 \in 1 .. Len(trace) - 1 /\ j + 1 \in 1 .. Len(trace) - 1
      /\ (i + 1) + 1 = i + 2 /\ (j + 1) + 1 = j + 2
  BY DEF Executed
<1>2. /\ Leaves(Job(unit), trace[i + 1].hash, StateSize, trace[i + 2].hash, trace[i + 2].used)
      /\ Leaves(Job(unit), trace[j + 1].hash, StateSize, trace[j + 2].hash, trace[j + 2].used)
  BY <1>1 DEF Executed
<1>3. trace[i + 1].hash = trace[j + 1].hash
  BY DEF Same
<1>4. trace[i + 2].hash = trace[j + 2].hash /\ trace[i + 2].used = trace[j + 2].used
  BY <1>2, <1>3, OneOutcome
<1>. QED  BY <1>1, <1>4 DEF Same

\* Whatever the programs and the budget, the cycle trace_detect_cycle reports
\* goes round to the end of the trace, each turn with the same fuel, and
\* trace_detect_fixed_point agrees with it (state.c:22-56).
THEOREM DetectorsAreSound == Spec => []DetectorsAreRight
<1>1. Executed => DetectorsAreRight
  BY ExecutionsRepeat, DetectorsFind DEF Executed, DetectorsAreRight
<1>. QED  BY <1>1, ExecutedInit, ExecutedStep, PTL DEF Spec

-----------------------------------------------------------------------------

(* Types of the machine. Arithmetic, shifts and logic of vm.c work on sets *)
(* of bits; Packed gives the number back, and is shown to be the sum of    *)
(* their places, so that it stays a word.                                  *)

\* The value of a set of bits, bit by bit.
Place(s, i) == IF i \in s THEN 2^i ELSE 0
Value(s) ==
  Place(s, 0) + Place(s, 1) + Place(s, 2) + Place(s, 3) + Place(s, 4) + Place(s, 5) + Place(s, 6)
  + Place(s, 7) + Place(s, 8) + Place(s, 9) + Place(s, 10) + Place(s, 11) + Place(s, 12)
  + Place(s, 13) + Place(s, 14) + Place(s, 15)

LEMMA Powers ==
  /\ 2^0 = 1 /\ 2^1 = 2 /\ 2^2 = 4 /\ 2^3 = 8 /\ 2^4 = 16 /\ 2^5 = 32 /\ 2^6 = 64 /\ 2^7 = 128
  /\ 2^8 = 256 /\ 2^9 = 512 /\ 2^10 = 1024 /\ 2^11 = 2048 /\ 2^12 = 4096 /\ 2^13 = 8192
  /\ 2^14 = 16384 /\ 2^15 = 32768 /\ 2^16 = 65536
BY SMT

\* Every place is worth something.
LEMMA PowerType ==
  ASSUME NEW i \in 0 .. 15  PROVE 2^i \in Nat /\ 2^i > 0
<1>1. CASE i = 0  BY <1>1, Powers
<1>2. CASE i = 1  BY <1>2, Powers
<1>3. CASE i = 2  BY <1>3, Powers
<1>4. CASE i = 3  BY <1>4, Powers
<1>5. CASE i = 4  BY <1>5, Powers
<1>6. CASE i = 5  BY <1>6, Powers
<1>7. CASE i = 6  BY <1>7, Powers
<1>8. CASE i = 7  BY <1>8, Powers
<1>9. CASE i = 8  BY <1>9, Powers
<1>10. CASE i = 9  BY <1>10, Powers
<1>11. CASE i = 10  BY <1>11, Powers
<1>12. CASE i = 11  BY <1>12, Powers
<1>13. CASE i = 12  BY <1>13, Powers
<1>14. CASE i = 13  BY <1>14, Powers
<1>15. CASE i = 14  BY <1>15, Powers
<1>16. CASE i = 15  BY <1>16, Powers
<1>. QED  BY <1>1, <1>2, <1>3, <1>4, <1>5, <1>6, <1>7, <1>8, <1>9, <1>10, <1>11, <1>12, <1>13, <1>14, <1>15, <1>16

LEMMA PlaceBounds ==
  ASSUME NEW s, NEW i \in 0 .. 15
  PROVE  Place(s, i) \in Nat /\ Place(s, i) <= 2^i /\ 2^i \in Nat /\ 2^i > 0
<1>. DEFINE p == 2^i
<1>1. p \in Nat /\ p > 0
  BY PowerType
<1>2. Place(s, i) = p \/ Place(s, i) = 0
  BY Zenon DEF Place
<1>. HIDE DEF p
<1>3. Place(s, i) \in Nat /\ Place(s, i) <= p
  BY <1>1, <1>2
<1>. QED  BY <1>1, <1>3 DEF p

LEMMA ValueBounds ==
  ASSUME NEW s  PROVE Value(s) \in Int /\ 0 <= Value(s) /\ Value(s) <= 65535
<1>1. \A i \in 0 .. 15 : Place(s, i) \in Nat /\ Place(s, i) <= 2^i
  BY PlaceBounds
<1>. QED  BY <1>1, Powers, SMT DEF Value

LEMMA ValueWithout ==
  ASSUME NEW s, NEW x \in s, x \in 0 .. 15
  PROVE  Value(s) = 2^x + Value(s \ {x}) /\ Value(s \ {x}) < Value(s)
<1>. DEFINE t == s \ {x}
<1>1. \A i \in 0 .. 15 : i # x => Place(t, i) = Place(s, i)
  BY DEF Place
<1>2. Place(s, x) = 2^x /\ Place(t, x) = 0
  BY DEF Place
<1>3. \A i \in 0 .. 15 : Place(s, i) \in Nat /\ Place(t, i) \in Nat /\ 2^i \in Nat /\ 2^i > 0
  BY PlaceBounds
<1>. HIDE DEF t
<1>4. Value(s) = 2^x + Value(t)
  <2>1. x \in {0, 1, 2, 3, 4, 5, 6, 7} \/ x \in {8, 9, 10, 11, 12, 13, 14, 15}
    OBVIOUS
  <2>. QED  BY <1>1, <1>2, <1>3, <2>1, SMTT(60) DEF Value
<1>. DEFINE p == 2^x
<1>5. p \in Nat /\ p > 0
  BY PowerType
<1>6. Value(t) \in Int
  BY ValueBounds
<1>7. Value(s) = p + Value(t)
  BY <1>4
<1>. HIDE DEF p
<1>8. Value(t) < Value(s)
  BY <1>5, <1>6, <1>7
<1>. QED  BY <1>7, <1>8 DEF t, p

LEMMA PackedUnfolds ==
  ASSUME NEW ones
  PROVE  Packed(ones) =
           (CHOOSE it : it = [s \in SUBSET ones |-> IF s = {} THEN 0
                                ELSE 2^(CHOOSE x \in s : TRUE) + it[s \ {CHOOSE x \in s : TRUE}]])[ones]
BY Zenon DEF Packed, MapThenSumSet, MapThenFoldSet

LEMMA PackedIsValue ==
  ASSUME NEW ones, ones \subseteq 0 .. 15
  PROVE  Packed(ones) = Value(ones)
<1>. DEFINE Some(s) == CHOOSE x \in s : TRUE
            Step(it) == [s \in SUBSET ones |-> IF s = {} THEN 0 ELSE 2^Some(s) + it[s \ {Some(s)}]]
            sum == CHOOSE it : it = Step(it)
            value == [s \in SUBSET ones |-> Value(s)]
<1>1. Packed(ones) = sum[ones]
  BY PackedUnfolds, Zenon
<1>2. Value({}) = 0
  BY SMT DEF Value, Place
<1>3. ASSUME NEW s \in SUBSET ones, s # {}
      PROVE  /\ Some(s) \in s /\ s \ {Some(s)} \in SUBSET ones
             /\ Value(s) = 2^Some(s) + Value(s \ {Some(s)}) /\ Value(s \ {Some(s)}) < Value(s)
  <2>1. Some(s) \in s
    BY <1>3
  <2>2. Some(s) \in 0 .. 15 /\ s \ {Some(s)} \in SUBSET ones
    BY <2>1
  <2>. HIDE DEF Some
  <2>. QED  BY <2>1, <2>2, ValueWithout
<1>. HIDE DEF Some
<1>4. value = Step(value)
  <2>1. ASSUME NEW s \in SUBSET ones
        PROVE  Value(s) = IF s = {} THEN 0 ELSE 2^Some(s) + value[s \ {Some(s)}]
    BY <1>2, <1>3
  <2>. QED  BY <2>1, Zenon
<1>5. sum = Step(sum)
  BY <1>4, Zenon
<1>6. \A s \in SUBSET ones : sum[s] = IF s = {} THEN 0 ELSE 2^Some(s) + sum[s \ {Some(s)}]
  BY <1>5, Zenon
<1>. HIDE DEF sum
<1>. DEFINE Ranks == {n \in Nat : \E s \in SUBSET ones : n = Value(s) /\ sum[s] # Value(s)}
<1>. SUFFICES ASSUME sum[ones] # Value(ones)  PROVE FALSE
  BY <1>1
<1>7. \A s \in SUBSET ones : Value(s) \in Nat
  <2>1. \A s \in SUBSET ones : Value(s) \in Int /\ 0 <= Value(s)
    BY ValueBounds
  <2>. QED  BY <2>1
<1>8. PICK n \in Ranks : \A k \in Ranks : n <= k
  <2>1. Ranks # {} /\ Ranks \subseteq Nat
    BY <1>7
  <2>. QED  BY <2>1, LeastNatural
<1>9. PICK s \in SUBSET ones : n = Value(s) /\ sum[s] # Value(s)
  BY <1>8
<1>10. s # {}
  BY <1>2, <1>6, <1>9
<1>11. sum[s \ {Some(s)}] = Value(s \ {Some(s)})
  <2>1. s \ {Some(s)} \in SUBSET ones /\ Value(s \ {Some(s)}) \in Nat /\ ~ (n <= Value(s \ {Some(s)}))
    BY <1>3, <1>7, <1>9, <1>10
  <2>. QED  BY <1>8, <2>1
<1>. QED  BY <1>3, <1>6, <1>9, <1>10, <1>11

-----------------------------------------------------------------------------
LEMMA ByteRange == \A w : w \in Byte <=> w \in Int /\ 0 <= w /\ w <= 255
BY DEF Byte

LEMMA BytesAreWords == Byte \subseteq Word
BY ByteRange, WordRange, SMT

LEMMA PackedType ==
  ASSUME NEW ones, ones \subseteq 0 .. 15  PROVE Packed(ones) \in Word
<1>1. Value(ones) \in Word
  BY ValueBounds, WordRange, SMT
<1>. QED  BY <1>1, PackedIsValue, Zenon

LEMMA Quotient ==
  ASSUME NEW n \in Nat, NEW i \in 0 .. 15  PROVE n \div 2^i \in Nat /\ n \div 2^i <= n
<1>1. CASE i = 0  BY <1>1, Powers
<1>2. CASE i = 1  BY <1>2, Powers
<1>3. CASE i = 2  BY <1>3, Powers
<1>4. CASE i = 3  BY <1>4, Powers
<1>5. CASE i = 4  BY <1>5, Powers
<1>6. CASE i = 5  BY <1>6, Powers
<1>7. CASE i = 6  BY <1>7, Powers
<1>8. CASE i = 7  BY <1>8, Powers
<1>9. CASE i = 8  BY <1>9, Powers
<1>10. CASE i = 9  BY <1>10, Powers
<1>11. CASE i = 10  BY <1>11, Powers
<1>12. CASE i = 11  BY <1>12, Powers
<1>13. CASE i = 12  BY <1>13, Powers
<1>14. CASE i = 13  BY <1>14, Powers
<1>15. CASE i = 14  BY <1>15, Powers
<1>16. CASE i = 15  BY <1>16, Powers
<1>. QED  BY <1>1, <1>2, <1>3, <1>4, <1>5, <1>6, <1>7, <1>8, <1>9, <1>10, <1>11, <1>12, <1>13, <1>14, <1>15, <1>16

LEMMA BitType ==
  ASSUME NEW n \in Nat, NEW i \in 0 .. 15  PROVE Bit(n, i) \in {0, 1}
<1>1. n \div 2^i \in Nat
  BY Quotient
<1>2. \A q \in Nat : q % 2 \in {0, 1}
  OBVIOUS
<1>. QED  BY <1>1, <1>2, Zenon DEF Bit

LEMMA Modulo ==
  /\ \A n \in Int : n % 65536 \in Int /\ 0 <= n % 65536 /\ n % 65536 <= 65535
  /\ \A n \in Int : n % 16 \in 0 .. 15
BY SMT

LEMMA FieldTypes ==
  ASSUME code \in Seq(Byte), pc \in Nat, Within
  PROVE  A \in Regs /\ B \in Regs /\ C \in Regs /\ Imm \in Byte
<1>1. 2 * pc + 1 \in 1 .. Len(code) /\ 2 * pc + 2 \in 1 .. Len(code)
  BY DEF Within
<1>2. code[2 * pc + 1] \in Byte /\ code[2 * pc + 2] \in Byte
  BY <1>1, ElementOfSeq
<1>3. code[2 * pc + 1] \in Nat /\ code[2 * pc + 2] \in Nat
  BY <1>2, ByteRange
<1>. DEFINE instr == InstrAt(code, pc)
<1>4. instr \in Nat
  BY <1>3 DEF InstrAt
<1>. HIDE DEF instr
<1>5. (instr \div 256) % 8 \in Regs /\ (instr \div 32) % 8 \in Regs /\ (instr \div 4) % 8 \in Regs
  BY <1>4 DEF Regs
<1>6. instr % 256 \in Byte
  BY <1>4, ByteRange
<1>. QED  BY <1>5, <1>6 DEF instr, A, B, C, Imm

LEMMA OnesType == \A n : Ones(n) \subseteq 0 .. 15
BY DEF Ones

LEMMA ResultType ==
  ASSUME regs \in [Regs -> Word], fuel \in Word, fuel > 0, code \in Seq(Byte), pc \in Nat, Within,
         Op \in Assigning
  PROVE  Result \in Word
<1>. DEFINE b == regs[B]  c == regs[C]  a == regs[A]
<1>1. A \in Regs /\ B \in Regs /\ C \in Regs /\ Imm \in Byte
  BY FieldTypes
<1>2. a \in Word /\ b \in Word /\ c \in Word /\ Imm \in Word
  BY <1>1, BytesAreWords
<1>3. /\ Op = "LDI" => Result = Imm
      /\ Op = "ADD" => Result = (b + c) % 2^16
      /\ Op = "SUB" => Result = (b - c) % 2^16
      /\ Op = "AND" => Result = Packed(Ones(b) \cap Ones(c))
      /\ Op = "OR" => Result = Packed(Ones(b) \cup Ones(c))
      /\ Op = "XOR" => Result = Packed((Ones(b) \cup Ones(c)) \ (Ones(b) \cap Ones(c)))
      /\ Op = "NOT" => Result = 65535 - b
      /\ Op = "SHL" => Result = (b * 2^(c % 16)) % 2^16
      /\ Op = "SHR" => Result = b \div 2^(c % 16)
      /\ Op = "READ" => Result = 0
      /\ Op = "FUEL" => Result = fuel - 1
      /\ Op = "MOV" => Result = b
      /\ Op = "ADDI" => Result = (a + Imm) % 2^16
  BY SMT DEF Result
<1>. HIDE DEF a, b, c
<1>4. CASE Op \in {"LDI", "MOV"}
  <2>1. Result = Imm \/ Result = b
    BY <1>3, <1>4, SMT
  <2>. QED  BY <1>2, <2>1, Zenon
<1>5. CASE Op \in {"ADD", "SUB", "ADDI"}
  <2>1. b + c \in Int /\ b - c \in Int /\ a + Imm \in Int
    BY <1>2, WordNat
  <2>2. (b + c) % 65536 \in Word /\ (b - c) % 65536 \in Word /\ (a + Imm) % 65536 \in Word
    BY <2>1, Modulo, WordRange, SMT
  <2>. QED  BY <1>3, <1>5, <2>2, Powers, SMT
<1>6. CASE Op \in {"AND", "OR", "XOR"}
  <2>1. Ones(b) \subseteq 0 .. 15 /\ Ones(c) \subseteq 0 .. 15
    BY OnesType
  <2>. QED  BY <1>3, <1>6, <2>1, PackedType
<1>7. CASE Op \in {"NOT", "READ", "FUEL"}
  <2>1. 65535 - b \in Word /\ 0 \in Word /\ fuel - 1 \in Word
    BY <1>2, WordRange, SMT
  <2>. QED  BY <1>3, <1>7, <2>1, SMT
<1>8. CASE Op \in {"SHL", "SHR"}
  <2>. DEFINE k == c % 16
  <2>1. k \in 0 .. 15
    <3>1. c \in Int
      BY <1>2, WordNat
    <3>. QED  BY <3>1, Modulo
  <2>. HIDE DEF k
  <2>2. 2^k \in Nat /\ b \in Nat
    BY <1>2, <2>1, PowerType, WordNat
  <2>3. b \div 2^k \in Word
    <3>. DEFINE q == b \div 2^k
    <3>1. q \in Nat /\ q <= b
      BY <2>1, <2>2, Quotient
    <3>. HIDE DEF q
    <3>2. q \in Word
      BY <1>2, <3>1, WordRange, SMT
    <3>. QED  BY <3>2 DEF q
  <2>4. (b * 2^k) % 65536 \in Word
    <3>. DEFINE p == 2^k
    <3>1. p \in Nat
      BY <2>2
    <3>. HIDE DEF p
    <3>2. b * p \in Int
      BY <2>2, <3>1
    <3>. DEFINE e == b * p
    <3>3. e \in Int
      BY <3>2
    <3>. HIDE DEF e
    <3>4. e % 65536 \in Word
      BY <3>3, Modulo, WordRange, SMT
    <3>. QED  BY <3>4 DEF e, p
  <2>5. (b * 2^k) % 2^16 \in Word
    BY <2>4, Powers, SMT
  <2>6. Result = (b * 2^k) % 2^16 \/ Result = b \div 2^k
    BY <1>3, <1>8 DEF k
  <2>. QED  BY <2>3, <2>5, <2>6, Zenon
<1>. QED  BY <1>4, <1>5, <1>6, <1>7, <1>8, SMT DEF Assigning

-----------------------------------------------------------------------------
\* The types of what the instructions compute with.
StoreTypes ==
  /\ regs \in [Regs -> Word]
  /\ flags \in [zero : BOOLEAN, carry : BOOLEAN, greater : BOOLEAN]
  /\ ds \in Seq(Word) /\ Len(ds) <= DataDepth
  /\ memory \in [Cells -> Byte]
  /\ output \in Seq(Word) /\ Len(output) <= OutSlots
  /\ spawn = NoSpawn \/ (spawn \in Seq(Byte) /\ Len(spawn) <= SpawnMax)

LEMMA Pushed ==
  ASSUME NEW S, NEW s \in Seq(S), NEW e \in S, NEW n \in Nat, ~ (Len(s) >= n)
  PROVE  Append(s, e) \in Seq(S) /\ Len(Append(s, e)) <= n
<1>1. Append(s, e) \in Seq(S) /\ Len(Append(s, e)) = Len(s) + 1 /\ Len(s) \in Nat
  BY AppendProperties, LenProperties
<1>. QED  BY <1>1

LEMMA TopGone ==
  ASSUME NEW S, NEW s \in Seq(S), s # <<>>
  PROVE  /\ SubSeq(s, 1, Len(s) - 1) \in Seq(S) /\ Len(SubSeq(s, 1, Len(s) - 1)) <= Len(s)
         /\ s[Len(s)] \in S
<1>1. Len(s) \in Nat /\ Len(s) > 0 /\ Len(s) \in 1 .. Len(s)
  BY EmptySeq, LenProperties
<1>2. s[Len(s)] \in S
  BY <1>1, ElementOfSeq
<1>3. PICK n \in Nat : Len(s) - 1 = n
  BY <1>1
<1>4. \A i \in 1 .. n : s[i] \in S
  BY <1>1, <1>3, ElementOfSeq
<1>5. SubSeq(s, 1, n) \in Seq(S) /\ Len(SubSeq(s, 1, n)) = IF 1 <= n THEN n - 1 + 1 ELSE 0
  BY <1>3, <1>4, SubSeqProperties
<1>6. Len(SubSeq(s, 1, n)) <= Len(s)
  BY <1>1, <1>3, <1>5
<1>. QED  BY <1>2, <1>3, <1>5, <1>6, Zenon

\* A flipped bit leaves a byte.
LEMMA FlippedType ==
  ASSUME NEW v \in Byte, NEW b \in 0 .. 7
  PROVE  (IF Bit(v, b) = 1 THEN v - 2^b ELSE v + 2^b) \in Byte
<1>1. v \in Int /\ 0 <= v /\ v <= 255
  BY ByteRange
<1>2. Bit(v, b) = (v \div 2^b) % 2
  BY DEF Bit
<1>3. b = 0 \/ b = 1 \/ b = 2 \/ b = 3 \/ b = 4 \/ b = 5 \/ b = 6 \/ b = 7
  OBVIOUS
<1>4. CASE b = 0
  <2>1. Bit(v, b) = (v \div 1) % 2 /\ 2^b = 1
    BY <1>2, <1>4, Powers
  <2>. QED  BY <1>1, <2>1, ByteRange, SMT
<1>5. CASE b = 1
  <2>1. Bit(v, b) = (v \div 2) % 2 /\ 2^b = 2
    BY <1>2, <1>5, Powers
  <2>. QED  BY <1>1, <2>1, ByteRange, SMT
<1>6. CASE b = 2
  <2>1. Bit(v, b) = (v \div 4) % 2 /\ 2^b = 4
    BY <1>2, <1>6, Powers
  <2>. QED  BY <1>1, <2>1, ByteRange, SMT
<1>7. CASE b = 3
  <2>1. Bit(v, b) = (v \div 8) % 2 /\ 2^b = 8
    BY <1>2, <1>7, Powers
  <2>. QED  BY <1>1, <2>1, ByteRange, SMT
<1>8. CASE b = 4
  <2>1. Bit(v, b) = (v \div 16) % 2 /\ 2^b = 16
    BY <1>2, <1>8, Powers
  <2>. QED  BY <1>1, <2>1, ByteRange, SMT
<1>9. CASE b = 5
  <2>1. Bit(v, b) = (v \div 32) % 2 /\ 2^b = 32
    BY <1>2, <1>9, Powers
  <2>. QED  BY <1>1, <2>1, ByteRange, SMT
<1>10. CASE b = 6
  <2>1. Bit(v, b) = (v \div 64) % 2 /\ 2^b = 64
    BY <1>2, <1>10, Powers
  <2>. QED  BY <1>1, <2>1, ByteRange, SMT
<1>11. CASE b = 7
  <2>1. Bit(v, b) = (v \div 128) % 2 /\ 2^b = 128
    BY <1>2, <1>11, Powers
  <2>. QED  BY <1>1, <2>1, ByteRange, SMT
<1>. QED  BY <1>3, <1>4, <1>5, <1>6, <1>7, <1>8, <1>9, <1>10, <1>11

LEMMA FetchFacts ==
  ASSUME NEW ops, Fetch(ops)
  PROVE  Within /\ fuel > 0 /\ Op \in ops /\ fuel' = fuel - 1
BY DEF Fetch, Within

\* Reading and flipping bits of memory.
LEMMA CellTypes ==
  ASSUME memory \in [Cells -> Byte], regs \in [Regs -> Word], NEW r \in Regs, NEW q \in Regs,
         regs[r] \in Cells
  PROVE  /\ memory[regs[r]] \in Byte /\ memory[regs[r]] \in Word /\ memory[regs[r]] \in Nat
         /\ regs[q] % 8 \in 0 .. 7 /\ regs[q] % 8 \in 0 .. 15 /\ regs[q] % 256 \in Byte
<1>1. memory[regs[r]] \in Byte /\ regs[q] \in Word
  OBVIOUS
<1>2. memory[regs[r]] \in Word
  BY <1>1, BytesAreWords
<1>. DEFINE w == regs[q]  v == memory[regs[r]]
<1>3. w \in Nat /\ v \in Nat
  BY <1>1, <1>2, WordNat
<1>. HIDE DEF w
<1>4. w % 8 \in 0 .. 7 /\ w % 8 \in 0 .. 15 /\ w % 256 \in Byte
  BY <1>3, ByteRange
<1>. QED  BY <1>1, <1>2, <1>3, <1>4 DEF w

LEMMA CarryType ==
  ASSUME flags.carry \in BOOLEAN
  PROVE  Carry \in BOOLEAN
<1>1. CASE Op = "ADD"
  BY <1>1, SMT DEF Carry
<1>2. CASE Op = "SUB"
  BY <1>2, SMT DEF Carry
<1>3. CASE Op # "ADD" /\ Op # "SUB"
  BY <1>3, SMT DEF Carry
<1>. QED  BY <1>1, <1>2, <1>3

LEMMA StoreStep ==
  ASSUME StoreTypes, fuel \in Word, code \in Seq(Byte), pc \in Nat, MachineStep
  PROVE  StoreTypes'
<1>. USE DEF StoreTypes
<1>1. ASSUME UNCHANGED store  PROVE StoreTypes'
  BY <1>1 DEF store
<1>2. ASSUME Within
      PROVE  A \in Regs /\ B \in Regs /\ C \in Regs /\ Imm \in Byte /\ Imm \in Word
  BY <1>2, FieldTypes, BytesAreWords
<1>3. CASE OutOfFuel \/ FetchOutside \/ Nop \/ Halt \/ Jump \/ Call \/ Return
  <2>1. UNCHANGED store
    BY <1>3 DEF OutOfFuel, FetchOutside, Nop, Halt, Jump, Call, Return, Fail
  <2>. QED  BY <1>1, <2>1
<1>4. CASE Assign
  <2>1. /\ Within /\ fuel > 0 /\ Op \in Assigning
        /\ regs' = [regs EXCEPT ![A] = Result]
        /\ flags' = [flags EXCEPT !.carry = Carry]
        /\ UNCHANGED <<ds, memory, output, spawn>>
    BY <1>4, FetchFacts, Zenon DEF Assign
  <2>2. Result \in Word
    BY <2>1, ResultType
  <2>3. Carry \in BOOLEAN
    BY CarryType
  <2>. HIDE DEF StoreTypes
  <2>4. regs' \in [Regs -> Word]
    BY <2>1, <2>2 DEF StoreTypes
  <2>5. flags' \in [zero : BOOLEAN, carry : BOOLEAN, greater : BOOLEAN]
    BY <2>1, <2>3 DEF StoreTypes
  <2>. QED  BY <2>1, <2>4, <2>5 DEF StoreTypes
<1>5. CASE Compare \/ CapCheck
  <2>1. UNCHANGED <<regs, ds, memory, output, spawn>>
    BY <1>5 DEF Compare, CapCheck
  <2>. DEFINE equal == regs[A] = regs[B]  more == regs[A] > regs[B]  holds == (Imm % 64) \in granted
  <2>2. equal \in BOOLEAN /\ more \in BOOLEAN /\ holds \in BOOLEAN
    OBVIOUS
  <2>3. \/ flags' = [flags EXCEPT !.zero = equal, !.greater = more]
        \/ flags' = [flags EXCEPT !.zero = holds]
    BY <1>5, Zenon DEF Compare, CapCheck
  <2>. HIDE DEF equal, more, holds
  <2>4. flags' \in [zero : BOOLEAN, carry : BOOLEAN, greater : BOOLEAN]
    BY <2>2, <2>3
  <2>. QED  BY <2>1, <2>4
<1>6. CASE Push
  <2>1. CASE Len(ds) >= DataDepth
    BY <1>1, <1>6, <2>1 DEF Push, Fail
  <2>2. CASE ~ (Len(ds) >= DataDepth)
    <3>1. Within /\ ds' = Append(ds, regs[A]) /\ UNCHANGED <<regs, flags, memory, output, spawn>>
      BY <1>6, <2>2, FetchFacts DEF Push
    <3>2. regs[A] \in Word
      BY <1>2, <3>1
    <3>3. ds' \in Seq(Word) /\ Len(ds') <= DataDepth
      BY <2>2, <3>1, <3>2, Pushed, MachineAssumption
    <3>. QED  BY <3>1, <3>3
  <2>. QED  BY <2>1, <2>2
<1>7. CASE Pop
  <2>1. CASE ds = <<>>
    BY <1>1, <1>7, <2>1 DEF Pop, Fail
  <2>2. CASE ds # <<>>
    <3>1. /\ Within /\ regs' = [regs EXCEPT ![A] = ds[Len(ds)]]
          /\ ds' = SubSeq(ds, 1, Len(ds) - 1) /\ UNCHANGED <<flags, memory, output, spawn>>
      BY <1>7, <2>2, FetchFacts DEF Pop
    <3>2. ds[Len(ds)] \in Word /\ ds' \in Seq(Word) /\ Len(ds') <= Len(ds)
      BY <2>2, <3>1, TopGone
    <3>3. Len(ds') <= DataDepth
      <4>1. Len(ds) \in Nat /\ Len(ds') \in Nat
        BY <3>2, LenProperties
      <4>. QED  BY <3>2, <4>1, MachineAssumption
    <3>4. regs' \in [Regs -> Word]
      BY <3>1, <3>2
    <3>. QED  BY <3>1, <3>2, <3>3, <3>4
  <2>. QED  BY <2>1, <2>2
<1>8. CASE LoadCell
  <2>1. CASE regs[B] \notin Cells
    BY <1>1, <1>8, <2>1 DEF LoadCell, Fail
  <2>2. CASE regs[B] \in Cells
    <3>1. /\ Within /\ regs' = [regs EXCEPT ![A] = memory[regs[B]]]
          /\ UNCHANGED <<flags, ds, memory, output, spawn>>
      BY <1>8, <2>2, FetchFacts DEF LoadCell
    <3>2. memory[regs[B]] \in Word
      BY <1>2, <2>2, <3>1, CellTypes
    <3>. QED  BY <3>1, <3>2
  <2>. QED  BY <2>1, <2>2
<1>9. CASE StoreCell
  <2>1. CASE regs[B] \notin Cells
    BY <1>1, <1>9, <2>1 DEF StoreCell, Fail
  <2>2. CASE regs[B] \in Cells
    <3>1. /\ Within /\ memory' = [memory EXCEPT ![regs[B]] = regs[A] % 256]
          /\ UNCHANGED <<regs, flags, ds, output, spawn>>
      BY <1>9, <2>2, FetchFacts DEF StoreCell
    <3>2. regs[A] % 256 \in Byte
      BY <1>2, <2>2, <3>1, CellTypes
    <3>. DEFINE byte == regs[A] % 256
    <3>. HIDE DEF byte
    <3>3. memory' = [memory EXCEPT ![regs[B]] = byte] /\ byte \in Byte
      BY <3>1, <3>2 DEF byte
    <3>4. memory' \in [Cells -> Byte]
      BY <3>3
    <3>. QED  BY <3>1, <3>4
  <2>. QED  BY <2>1, <2>2
<1>10. CASE BitFlip
  <2>1. CASE regs[A] \notin Cells
    BY <1>1, <1>10, <2>1 DEF BitFlip, Fail
  <2>2. CASE regs[A] \in Cells
    <3>. DEFINE v == memory[regs[A]]  b == regs[B] % 8
                byte == IF Bit(v, b) = 1 THEN v - 2^b ELSE v + 2^b
    <3>1. Within /\ memory' = [memory EXCEPT ![regs[A]] = byte] /\ UNCHANGED <<regs, flags, ds, output, spawn>>
      BY <1>10, <2>2, FetchFacts, Zenon DEF BitFlip
    <3>2. v \in Byte /\ b \in 0 .. 7
      BY <1>2, <2>2, <3>1, CellTypes
    <3>. HIDE DEF v, b
    <3>3. byte \in Byte
      BY <3>2, FlippedType
    <3>. HIDE DEF byte
    <3>4. memory' \in [Cells -> Byte]
      BY <3>1, <3>3
    <3>. QED  BY <3>1, <3>4
  <2>. QED  BY <2>1, <2>2
<1>11. CASE BitRead
  <2>1. CASE regs[A] \notin Cells \/ Len(ds) >= DataDepth
    BY <1>1, <1>11, <2>1 DEF BitRead, Fail
  <2>2. CASE regs[A] \in Cells /\ ~ (Len(ds) >= DataDepth)
    <3>. DEFINE v == memory[regs[A]]  b == regs[B] % 8
    <3>1. Within /\ ds' = Append(ds, Bit(v, b)) /\ UNCHANGED <<regs, flags, memory, output, spawn>>
      BY <1>11, <2>2, FetchFacts DEF BitRead
    <3>2. v \in Nat /\ b \in 0 .. 15
      BY <1>2, <2>2, <3>1, CellTypes
    <3>. HIDE DEF v, b
    <3>3. Bit(v, b) \in Word
      <4>1. Bit(v, b) \in {0, 1}
        BY <3>2, BitType
      <4>. DEFINE d == Bit(v, b)
      <4>. HIDE DEF d
      <4>2. 0 \in Word /\ 1 \in Word
        BY BytesAreWords DEF Byte
      <4>. QED  BY <4>1, <4>2 DEF d
    <3>4. ds' \in Seq(Word) /\ Len(ds') <= DataDepth
      BY <2>2, <3>1, <3>3, Pushed, MachineAssumption
    <3>. QED  BY <3>1, <3>4
  <2>. QED  BY <2>1, <2>2
<1>12. CASE Emit
  <2>1. Within /\ UNCHANGED <<regs, flags, ds, memory, spawn>>
        /\ output' = IF Len(output) < OutSlots THEN Append(output, regs[A]) ELSE output
    BY <1>12, FetchFacts DEF Emit
  <2>2. regs[A] \in Word
    BY <1>2, <2>1
  <2>3. output' \in Seq(Word) /\ Len(output') <= OutSlots
    <3>1. CASE Len(output) < OutSlots
      <4>1. ~ (Len(output) >= OutSlots)
        BY <3>1, LenProperties, MachineAssumption
      <4>. QED  BY <2>1, <2>2, <3>1, <4>1, Pushed, MachineAssumption
    <3>2. CASE ~ (Len(output) < OutSlots)
      BY <2>1, <3>2
    <3>. QED  BY <3>1, <3>2
  <2>. QED  BY <2>1, <2>3
<1>13. CASE Self
  <2>1. CASE SelfBit \notin granted \/ Imm >= Len(code)
    BY <1>1, <1>13, <2>1 DEF Self, Fail
  <2>2. CASE SelfBit \in granted /\ ~ (Imm >= Len(code))
    <3>1. /\ Within /\ regs' = [regs EXCEPT ![A] = code[Imm + 1]]
          /\ UNCHANGED <<flags, ds, memory, output, spawn>>
      BY <1>13, <2>2, FetchFacts DEF Self
    <3>2. Imm + 1 \in 1 .. Len(code)
      <4>1. Imm \in Nat /\ Len(code) \in Nat
        BY <1>2, <3>1, WordNat, LenProperties
      <4>. QED  BY <2>2, <4>1
    <3>3. code[Imm + 1] \in Word
      BY <3>2, ElementOfSeq, BytesAreWords
    <3>. QED  BY <3>1, <3>3
  <2>. QED  BY <2>1, <2>2
<1>14. CASE Spawn
  <2>1. CASE SpawnBit \notin granted \/ (regs[A] + regs[B] > MemSize \/ regs[B] > SpawnMax)
    BY <1>1, <1>14, <2>1 DEF Spawn, Fail
  <2>2. CASE ~ (SpawnBit \notin granted \/ (regs[A] + regs[B] > MemSize \/ regs[B] > SpawnMax))
    <3>. DEFINE start == regs[A]  size == regs[B]
    <3>1. /\ Within /\ spawn' = [i \in 1 .. size |-> memory[start + i - 1]]
          /\ UNCHANGED <<regs, flags, ds, memory, output>>
      BY <1>14, <2>2, FetchFacts DEF Spawn
    <3>2. start \in Nat /\ size \in Nat
      BY <1>2, <3>1, WordNat
    <3>3. start + size <= MemSize /\ size <= SpawnMax
      BY <2>2, <3>2, MachineAssumption
    <3>. HIDE DEF start, size
    <3>4. \A i \in 1 .. size : memory[start + i - 1] \in Byte
      <4>1. \A i \in 1 .. size : start + i - 1 \in Cells
        BY <3>2, <3>3, MachineAssumption DEF Cells
      <4>. QED  BY <4>1
    <3>5. spawn' \in Seq(Byte) /\ Len(spawn') = size
      BY <3>1, <3>2, <3>4
    <3>. QED  BY <3>1, <3>3, <3>5
  <2>. QED  BY <2>1, <2>2
<1>. QED
  BY <1>3, <1>4, <1>5, <1>6, <1>7, <1>8, <1>9, <1>10, <1>11, <1>12, <1>13, <1>14 DEF MachineStep

\* What a step leaves in status, and the fuel it takes.
LEMMA StatusStep ==
  ASSUME MachineStep
  PROVE  /\ status' = status \/ status' \in {"halted"} \cup Errors
         /\ (fuel = 0 /\ fuel' = fuel) \/ (fuel > 0 /\ fuel' = fuel - 1)
<1>. USE DEF Fetch, Continue, Fail, Errors
<1>1. CASE OutOfFuel
  BY <1>1 DEF OutOfFuel
<1>2. CASE FetchOutside
  BY <1>2 DEF FetchOutside
<1>3. CASE Nop \/ Halt \/ Assign \/ Compare \/ CapCheck \/ Emit \/ Jump
  BY <1>3 DEF Nop, Halt, Assign, Compare, CapCheck, Emit, Jump
<1>4. CASE Push \/ Pop \/ LoadCell
  BY <1>4 DEF Push, Pop, LoadCell
<1>5. CASE StoreCell \/ BitFlip \/ BitRead
  BY <1>5 DEF StoreCell, BitFlip, BitRead
<1>6. CASE Call \/ Return
  BY <1>6 DEF Call, Return
<1>7. CASE Self \/ Spawn
  BY <1>7 DEF Self, Spawn
<1>. QED
  BY <1>1, <1>2, <1>3, <1>4, <1>5, <1>6, <1>7 DEF MachineStep

LEMMA MachineTypesStep ==
  ASSUME MachineTypeOK, Nested, MachineStep
  PROVE  MachineTypeOK' /\ fuel' <= fuel
<1>1. Nested'
  BY NestedStep
<1>2. StoreTypes'
  BY StoreStep DEF MachineTypeOK, StoreTypes, Nested
<1>3. granted' = granted
  BY ControlStep DEF program
<1>4. fuel' \in Word /\ fuel' <= fuel
  <2>1. (fuel = 0 /\ fuel' = fuel) \/ (fuel > 0 /\ fuel' = fuel - 1)
    BY StatusStep
  <2>2. fuel \in Int /\ 0 <= fuel /\ fuel <= 65535
    BY WordRange, SMT DEF MachineTypeOK
  <2>. QED  BY <2>1, <2>2, WordRange, SMT
<1>5. status' \in {"running", "halted"} \cup Errors
  BY StatusStep DEF MachineTypeOK
<1>. QED  BY <1>1, <1>2, <1>3, <1>4, <1>5 DEF MachineTypeOK, StoreTypes, Nested

LEMMA StoreAtStart ==
  /\ [r \in Regs |-> 0] \in [Regs -> Word]
  /\ [zero |-> FALSE, carry |-> FALSE, greater |-> FALSE] \in [zero : BOOLEAN, carry : BOOLEAN, greater : BOOLEAN]
  /\ <<>> \in Seq(Word) /\ <<>> \in Seq(Nat) /\ Len(<<>>) = 0 /\ 0 \in Word /\ 0 \in Byte
BY BytesAreWords, EmptySeq DEF Byte

LEMMA MachineTypesAtFirst ==
  ASSUME MachineInit
  PROVE  MachineTypeOK
<1>1. [c \in Cells |-> 0] \in [Cells -> Byte] /\ granted = {}
  BY StoreAtStart DEF MachineInit
<1>2. {} \subseteq 0 .. 63 /\ 0 \in Nat /\ 0 <= DataDepth /\ 0 <= RetDepth /\ 0 <= OutSlots
  BY MachineAssumption
<1>. QED  BY <1>1, <1>2, StoreAtStart, SMT DEF MachineInit, MachineTypeOK

\* What a unit's execution needs of its types.
Typed(u) ==
  u.code \in Seq(Byte) /\ u.state \in Seq(Byte) /\ u.fuel \in Word /\ u.rights \subseteq 0 .. 63

LEMMA BudgetType ==
  ASSUME NEW u, u.fuel \in Word  PROVE Budget(u) \in Word
BY EnvironmentAssumption, Zenon DEF Budget

LEMMA BytesOrZero ==
  ASSUME NEW s \in Seq(Byte), NEW c \in Cells  PROVE c < Len(s) => s[c + 1] \in Byte
<1>1. Len(s) \in Nat /\ c \in Nat
  BY LenProperties, MachineAssumption DEF Cells
<1>2. c < Len(s) => c + 1 \in 1 .. Len(s)
  BY <1>1
<1>. QED  BY <1>2, ElementOfSeq

LEMMA OverlaidType ==
  ASSUME NEW u, Typed(u)  PROVE Overlaid(u) \in [Cells -> Byte]
<1>1. \A c \in Cells : Image(u.code)[c] \in Byte
  BY BytesOrZero, StoreAtStart DEF Image, Typed
<1>. QED  BY <1>1, BytesOrZero, Zenon DEF Overlaid, Typed

LEMMA MachineTypesAtLoad ==
  ASSUME NEW u, Typed(u), LoadUnit(u)
  PROVE  MachineTypeOK' /\ fuel' <= Budget(u)
<1>1. memory' \in [Cells -> Byte] /\ fuel' = Budget(u) /\ granted' \subseteq 0 .. 63
  BY OverlaidType DEF LoadUnit, Load, Typed
<1>2. fuel' \in Word
  BY <1>1, BudgetType DEF Typed
<1>3. fuel' <= Budget(u)
  BY <1>1, <1>2, WordNat
<1>4. /\ regs' \in [Regs -> Word]
      /\ flags' \in [zero : BOOLEAN, carry : BOOLEAN, greater : BOOLEAN]
      /\ ds' = <<>> /\ rs' = <<>> /\ output' = <<>> /\ pc' = 0 /\ spawn' = NoSpawn
      /\ status' = "running"
  BY StoreAtStart DEF LoadUnit, Load
<1>. QED  BY <1>1, <1>2, <1>3, <1>4, StoreAtStart, MachineAssumption, SMT DEF MachineTypeOK

-----------------------------------------------------------------------------
Entries == [hash : [1 .. StateSize -> Byte], used : Word]

\* The trace never outgrows its array or the steps asked for, and no execution
\* has more fuel than it was given.
EvolutionTyped ==
  /\ TypeOK /\ UnitNested /\ steps \in Nat /\ trace \in Seq(Entries)
  /\ phase \in {"execute", "run"} => Len(trace) < steps
  /\ phase = "run" => fuel <= Budget(unit)

LEMMA EvolutionTypedInit ==
  ASSUME Init  PROVE EvolutionTyped
<1>1. /\ unit \in Units /\ steps \in StepCounts /\ trace = <<>> /\ MachineInit
      /\ fixed = None /\ cycle = [start |-> None, length |-> 0]
      /\ phase = IF steps = 0 THEN "detect" ELSE "execute"
  BY DEF Init
<1>2. MachineTypeOK /\ UnitNested
  BY <1>1, MachineTypesAtFirst, NestedInit
<1>3. steps \in Nat /\ Len(trace) = 0 /\ trace \in Seq(Entries) /\ Len(unit.state) <= StateSize
      /\ unit \in [code : Seq(Byte), rights : SUBSET (0 .. 63), fuel : Word,
                    state : Seq(Byte), current : BOOLEAN]
  BY <1>1, EvolutionAssumption, EmptySeq
<1>4. fixed \in Int /\ cycle \in [start : Int, length : Nat]
  BY <1>1 DEF None
<1>5. phase \in {"execute", "detect"} /\ (phase = "execute" => 0 < steps)
  BY <1>1, <1>3
<1>6. Len(trace) <= MaxTrace /\ Len(trace) <= steps /\ 1 .. Len(trace) = {}
  BY <1>3, EvolutionAssumption
<1>. QED  BY <1>2, <1>3, <1>4, <1>5, <1>6 DEF EvolutionTyped, TypeOK

\* The unit's fields, read off its type.
LEMMA UnitTyped ==
  ASSUME TypeOK  PROVE Typed(unit)
BY DEF TypeOK, Typed

LEMMA DetectTypes ==
  ASSUME Detect, Len(trace) \in Nat
  PROVE  fixed' \in Int /\ cycle' \in [start : Int, length : Nat]
<1>1. /\ fixed' = IF Repeats = {} THEN None ELSE Least(Repeats)
      /\ cycle' = IF Returns = {} THEN [start |-> None, length |-> 0]
                  ELSE LET i == Least(Returns) IN
                       [start |-> i, length |-> Least({j \in i + 1 .. Len(trace) - 1 : Same(i, j)}) - i]
  BY DEF Detect
<1>2. Repeats \subseteq Nat /\ Returns \subseteq Nat
  BY DEF Repeats, Returns
<1>3. fixed' \in Int
  <2>1. Repeats # {} => Least(Repeats) \in Nat
    BY <1>2, LeastIsLeast
  <2>. QED  BY <1>1, <2>1 DEF None
<1>4. CASE Returns = {}
  BY <1>1, <1>3, <1>4 DEF None
<1>5. CASE Returns # {}
  <2>. DEFINE i == Least(Returns)
              Later == {j \in i + 1 .. Len(trace) - 1 : Same(i, j)}
  <2>1. i \in Returns /\ i \in Nat
    BY <1>2, <1>5, LeastIsLeast
  <2>. HIDE DEF i
  <2>2. Later # {} /\ Later \subseteq Nat
    <3>1. PICK j \in i + 1 .. Len(trace) - 1 : Same(i, j)
      BY <2>1, Zenon DEF Returns
    <3>. QED  BY <2>1, <3>1
  <2>3. Least(Later) \in Later
    BY <2>2, LeastIsLeast
  <2>4. cycle' = [start |-> i, length |-> Least(Later) - i]
    BY <1>1, <1>5, Zenon DEF i
  <2>5. Least(Later) - i \in Nat
    BY <2>1, <2>3
  <2>. HIDE DEF Later
  <2>. QED  BY <1>3, <2>1, <2>4, <2>5
<1>. QED  BY <1>4, <1>5

LEMMA EvolutionTypedStep ==
  ASSUME EvolutionTyped, [Next]_vars
  PROVE  EvolutionTyped'
<1>. USE DEF EvolutionTyped
<1>1. UnitNested'
  BY NestedInductive
<1>2. Typed(unit)
  BY UnitTyped
<1>3. ASSUME UNCHANGED <<unit, steps, trace, fixed, cycle>>, MachineTypeOK',
             phase' \in {"execute", "run", "detect", "done"} \/ phase' = phase,
             phase' \in {"execute", "run"} => phase \in {"execute", "run"},
             phase' = "run" => fuel' <= Budget(unit)
      PROVE  EvolutionTyped'
  <2>1. Budget(unit)' = Budget(unit)
    BY <1>3 DEF Budget
  <2>2. TypeOK'
    BY <1>3 DEF TypeOK
  <2>. QED  BY <1>1, <1>3, <2>1, <2>2
<1>4. UNCHANGED machine => MachineTypeOK' /\ fuel' = fuel
  BY DEF machine, program, store, TypeOK, MachineTypeOK
<1>5. CASE Refuse \/ Abandon \/ UNCHANGED vars
  BY <1>3, <1>4, <1>5 DEF Refuse, Abandon, vars, evolution
<1>6. CASE Execute
  <2>1. MachineTypeOK' /\ fuel' <= Budget(unit)
    BY <1>2, <1>6, MachineTypesAtLoad DEF Execute
  <2>. QED  BY <1>3, <1>6, <2>1 DEF Execute, evolution
<1>7. CASE Run
  <2>1. phase = "run" /\ phase' = phase /\ UNCHANGED evolution /\ MachineStep
    BY <1>7 DEF Run
  <2>2. MachineTypeOK /\ Nested
    BY DEF TypeOK, UnitNested
  <2>3. MachineTypeOK' /\ fuel' <= fuel
    BY <2>1, <2>2, MachineTypesStep
  <2>4. fuel' <= Budget(unit)
    <3>1. fuel' \in Word /\ fuel \in Word /\ Budget(unit) \in Word
      BY <1>2, <2>2, <2>3, BudgetType DEF MachineTypeOK, Typed
    <3>2. fuel' \in Nat /\ fuel \in Nat /\ Budget(unit) \in Nat
      BY <3>1, WordNat
    <3>. QED  BY <2>1, <2>3, <3>2
  <2>. QED  BY <1>3, <2>1, <2>3, <2>4 DEF evolution
<1>8. CASE Detect
  <2>1. Len(trace) \in Nat
    BY LenProperties
  <2>2. fixed' \in Int /\ cycle' \in [start : Int, length : Nat]
    BY <1>8, <2>1, DetectTypes
  <2>3. UNCHANGED <<machine, unit, steps, trace>> /\ phase' = "done"
    BY <1>8 DEF Detect
  <2>4. TypeOK'
    BY <1>4, <2>2, <2>3 DEF TypeOK
  <2>. QED  BY <1>1, <2>3, <2>4
<1>9. CASE Advance
  <2>. DEFINE final == [i \in 1 .. StateSize |-> memory[i - 1]]
              entry == [hash |-> final, used |-> Budget(unit) - fuel]
  <2>1. /\ unit' = [unit EXCEPT !.state = final] /\ UNCHANGED <<machine, steps, fixed, cycle>>
        /\ phase = "run"
        /\ trace' = IF Len(trace) < MaxTrace THEN Append(trace, entry) ELSE trace
        /\ phase' = IF Len(trace) >= MaxTrace \/ Len(trace) + 1 = steps THEN "detect" ELSE "execute"
    BY <1>9, Zenon DEF Advance
  <2>2. final \in [1 .. StateSize -> Byte]
    <3>1. \A i \in 1 .. StateSize : i - 1 \in Cells
      BY EvolutionAssumption, MachineAssumption DEF Cells
    <3>. QED  BY <3>1 DEF TypeOK, MachineTypeOK
  <2>3. Budget(unit) - fuel \in Word
    <3>1. Budget(unit) \in Word /\ fuel \in Word /\ fuel <= Budget(unit)
      BY <1>2, <2>1, BudgetType DEF TypeOK, MachineTypeOK, Typed
    <3>. QED  BY <3>1, WordRange, SMT
  <2>4. entry \in Entries
    BY <2>2, <2>3 DEF Entries
  <2>. HIDE DEF entry
  <2>5. final \in Seq(Byte) /\ Len(final) = StateSize
    <3>1. StateSize \in Nat
      BY EvolutionAssumption
    <3>. HIDE DEF final
    <3>. QED  BY <2>2, <3>1
  <2>. HIDE DEF final
  <2>6. /\ unit' \in [code : Seq(Byte), rights : SUBSET (0 .. 63), fuel : Word,
                       state : Seq(Byte), current : BOOLEAN]
        /\ Len(unit'.state) <= StateSize
    <3>. DEFINE Bytes_ == Seq(Byte)  Rights == SUBSET (0 .. 63)
    <3>1. unit \in [code : Bytes_, rights : Rights, fuel : Word, state : Bytes_, current : BOOLEAN]
      BY DEF TypeOK
    <3>2. unit' = [unit EXCEPT !.state = final] /\ final \in Bytes_
      BY <2>1, <2>5
    <3>. HIDE DEF Bytes_, Rights
    <3>3. /\ unit' \in [code : Bytes_, rights : Rights, fuel : Word, state : Bytes_, current : BOOLEAN]
          /\ unit'.state = final
      BY <3>1, <3>2
    <3>. USE DEF Bytes_, Rights
    <3>4. Len(unit'.state) <= StateSize
      BY <2>5, <3>3, EvolutionAssumption
    <3>. QED  BY <3>3, <3>4, Zenon
  <2>7. Len(trace) \in Nat /\ Len(trace) < steps
    BY <2>1, LenProperties
  <2>8. /\ trace' \in Seq(Entries) /\ Len(trace') <= MaxTrace /\ Len(trace') <= steps
        /\ phase' = "execute" => Len(trace') < steps
        /\ phase' \in {"execute", "detect"}
    <3>1. CASE Len(trace) < MaxTrace
      <4>1. trace' \in Seq(Entries) /\ Len(trace') = Len(trace) + 1
        BY <2>1, <2>4, <3>1, AppendProperties
      <4>. QED  BY <2>1, <2>7, <3>1, <4>1, EvolutionAssumption
    <3>2. CASE ~ (Len(trace) < MaxTrace)
      <4>1. trace' = trace /\ phase' = "detect"
        BY <2>1, <2>7, <3>2, EvolutionAssumption
      <4>. QED  BY <4>1 DEF TypeOK
    <3>. QED  BY <3>1, <3>2
  <2>9. \A i \in 1 .. Len(trace') : trace'[i].hash \in [1 .. StateSize -> Byte] /\ trace'[i].used \in Word
    <3>1. \A i \in 1 .. Len(trace') : trace'[i] \in Entries
      BY <2>8, ElementOfSeq
    <3>. QED  BY <3>1 DEF Entries
  <2>10. TypeOK'
    BY <1>4, <2>1, <2>6, <2>8, <2>9 DEF TypeOK
  <2>. QED  BY <1>1, <2>1, <2>8, <2>10
<1>. QED  BY <1>5, <1>6, <1>7, <1>8, <1>9 DEF Next

\* Every register and every value on a stack or put out is a word, every cell
\* a byte, no stack or buffer outgrows its array (vm.c), and the trace of
\* state_evolve (state.c) never outgrows its own nor the steps asked for.
THEOREM EvolutionTypes == Spec => []TypeOK
<1>1. EvolutionTyped => TypeOK
  BY DEF EvolutionTyped
<1>. QED  BY <1>1, EvolutionTypedInit, EvolutionTypedStep, PTL DEF Spec

-----------------------------------------------------------------------------

(* The population. A round gives a unit the state that its old state       *)
(* determines, and units of one matrix differ in their states only: so the *)
(* units that were equal before a round are equal after it, and there are  *)
(* no more different ones than before.                                     *)

\* One element of a sequence is replaced.
LEMMA Replaced ==
  ASSUME NEW S, NEW s \in Seq(S), NEW k \in 1 .. Len(s), NEW x
  PROVE  /\ [s EXCEPT ![k] = x] \in Seq(S \cup {x})
         /\ Len([s EXCEPT ![k] = x]) = Len(s)
         /\ \A i \in 1 .. Len(s) : [s EXCEPT ![k] = x][i] = IF i = k THEN x ELSE s[i]
<1>. DEFINE t == [s EXCEPT ![k] = x]
<1>1. t = [i \in 1 .. Len(s) |-> IF i = k THEN x ELSE s[i]] /\ Len(s) \in Nat
  OBVIOUS
<1>2. \A i \in 1 .. Len(s) : s[i] \in S
  BY ElementOfSeq
<1>. HIDE DEF t
<1>3. \A i \in 1 .. Len(s) : t[i] \in S \cup {x}
  BY <1>1, <1>2
<1>4. t \in Seq(S \cup {x}) /\ Len(t) = Len(s)
  BY <1>1, <1>3
<1>. QED  BY <1>1, <1>4 DEF t

\* If b follows from a, there are no more values of b than of a.
Values(I, a) == {a[i] : i \in I}
Determines(I, a, b) == \A i, j \in I : a[i] = a[j] => b[i] = b[j]

LEMMA NoMoreValues ==
  ASSUME NEW I, NEW a, NEW b, NEW O, IsFiniteSet(O), Values(I, a) \subseteq O, Determines(I, a, b)
  PROVE  /\ IsFiniteSet(Values(I, b)) /\ Cardinality(Values(I, b)) \in Nat
         /\ Cardinality(Values(I, b)) <= Cardinality(O)
<1>. DEFINE A_ == Values(I, a)
            B_ == Values(I, b)
            f == [x \in A_ |-> b[CHOOSE i \in I : a[i] = x]]
<1>1. IsFiniteSet(A_) /\ Cardinality(A_) <= Cardinality(O) /\ Cardinality(A_) \in Nat /\ Cardinality(O) \in Nat
  <2>. HIDE DEF A_
  <2>1. A_ \in SUBSET O
    BY DEF A_
  <2>. QED  BY <2>1, FS_Subset, FS_CardinalityType
<1>2. ASSUME NEW i \in I  PROVE a[i] \in A_ /\ f[a[i]] = b[i]
  <2>1. (CHOOSE j \in I : a[j] = a[i]) \in I /\ a[CHOOSE j \in I : a[j] = a[i]] = a[i]
    BY <1>2, Zenon
  <2>2. a[i] \in A_
    BY DEF Values
  <2>3. f[a[i]] = b[CHOOSE j \in I : a[j] = a[i]]
    BY <2>2
  <2>. QED  BY <2>1, <2>2, <2>3 DEF Determines
<1>3. f \in Surjection(A_, B_)
  <2>1. ASSUME NEW x \in A_  PROVE f[x] \in B_
    <3>1. PICK i \in I : x = a[i]
      BY <2>1 DEF Values
    <3>2. b[i] \in B_
      BY DEF Values
    <3>. HIDE DEF f, A_, B_
    <3>. QED  BY <1>2, <3>1, <3>2
  <2>2. ASSUME NEW y \in B_  PROVE \E x \in A_ : f[x] = y
    <3>1. PICK i \in I : y = b[i]
      BY <2>2 DEF Values
    <3>. HIDE DEF f, A_
    <3>. QED  BY <1>2, <3>1
  <2>3. f \in [A_ -> B_]
    <3>. HIDE DEF A_, B_
    <3>. QED  BY <2>1
  <2>. HIDE DEF f, A_, B_
  <2>. QED  BY <2>2, <2>3 DEF Surjection
<1>. HIDE DEF f, A_, B_
<1>4. IsFiniteSet(B_) /\ Cardinality(B_) <= Cardinality(A_)
  BY <1>1, <1>3, FS_Surjection
<1>5. Cardinality(B_) \in Nat
  BY <1>4, FS_CardinalityType
<1>6. Cardinality(B_) <= Cardinality(O)
  BY <1>1, <1>4, <1>5
<1>. QED  BY <1>4, <1>5, <1>6 DEF B_

-----------------------------------------------------------------------------
\* What a unit of the matrix has of its template: all but its state, its fuel,
\* and the flag that says it has a state.
Kin(u) ==
  /\ u = [flags |-> u.flags, fuel |-> u.fuel, current |-> template.current, code |-> template.code,
          data |-> template.data, state |-> u.state, rights |-> template.rights]
  /\ u.flags \cup {"state"} = template.flags \cup {"state"}
  /\ u.fuel \in Word /\ u.state \in Seq(Byte) /\ Len(u.state) <= MaxState

\* A unit that has survived a round.
Grown(s) ==
  [flags |-> template.flags \cup {"state"}, fuel |-> FuelLimit, current |-> template.current,
   code |-> template.code, data |-> template.data, state |-> s, rights |-> template.rights]

IsGrown(u) == u = Grown(u.state) /\ Len(u.state) = MaxState

IsEntry(e, u) ==
  /\ e = [alive |-> e.alive, generation |-> e.generation, used |-> e.used, hash |-> e.hash]
  /\ e.alive \in BOOLEAN /\ e.used \in Word /\ e.hash = Hash(u)

Rounds == activity \in {"round", "run"}

\* Every unit is kin to the template, and its entry is about it.
AllKin == \A i \in 1 .. Len(units) : Kin(units[i]) /\ IsEntry(entries[i], units[i])

Listing ==
  /\ Len(units) \in Nat /\ Len(entries) = Len(units)
  /\ (\E S : units \in Seq(S)) /\ \E S : entries \in Seq(S)

Crew ==
  /\ count \in Nat /\ step \in Nat
  /\ activity \in {"populate", "round", "run"} => template \in Templates
  /\ activity = "populate" => units = <<>> /\ entries = <<>> /\ turn = 1 /\ step = 0
  /\ Rounds => Listing /\ AllKin /\ turn \in Nat \ {0}

\* What runs is the living unit whose turn it is.
AtTurn ==
  activity = "run" =>
    /\ turn \in 1 .. Len(units) /\ entries[turn].alive
    /\ Reached(Job(units[turn]), units[turn].state, Machine)
    /\ fuel <= Budget(units[turn])

\* The living have survived all rounds so far.
GrownSoFar ==
  Rounds => \A i \in Alive : step > 0 \/ i < turn => IsGrown(units[i])

\* The round follows from the states it began with, and these are no more than
\* matrix_unique_states counted.
Follows(old, O) ==
  /\ IsFiniteSet(O) /\ unique \in Nat /\ Cardinality(O) <= unique
  /\ \A i \in Alive :
       /\ old[i] \in O
       /\ IF i < turn
          THEN \E used : Leaves(Job(Grown(<<>>)), old[i], MaxState, units[i].state, used)
          ELSE units[i].state = old[i]

RoundFollows == Rounds /\ step > 0 => \E old, O : Follows(old, O)

MatrixInv ==
  /\ MachineTypeOK /\ Nested
  /\ Crew /\ AtTurn /\ GrownSoFar /\ RoundFollows

-----------------------------------------------------------------------------
LEMMA TemplateTyped ==
  ASSUME template \in Templates
  PROVE  /\ template = [flags |-> template.flags, fuel |-> template.fuel, current |-> template.current,
                        code |-> template.code, data |-> template.data, state |-> template.state,
                        rights |-> template.rights]
         /\ template.fuel \in Word /\ template.state \in Seq(Byte) /\ Len(template.state) <= MaxState
         /\ template.code \in Seq(Byte) /\ template.data \in Seq(Byte) /\ template.rights \subseteq 0 .. 63
<1>1. template \in [flags : SUBSET {"code", "data", "state", "rights"}, fuel : Word, current : BOOLEAN,
                    code : Seq(Byte), data : Seq(Byte), state : Seq(Byte), rights : SUBSET (0 .. 63)]
      /\ Len(template.state) <= MaxState
  BY PopulationAssumption
<1>. QED  BY <1>1

LEMMA KinTyped ==
  ASSUME template \in Templates, NEW u, Kin(u)  PROVE Typed(u)
<1>1. u.code = template.code /\ u.rights = template.rights
  BY DEF Kin
<1>. QED  BY <1>1, TemplateTyped DEF Kin, Typed

\* Grown units with equal hashes are equal.
LEMMA HashTells ==
  ASSUME template \in Templates, NEW s \in Seq(Byte), NEW t \in Seq(Byte),
         Hash(Grown(s)) = Hash(Grown(t))
  PROVE  s = t
<1>. DEFINE front == template.code \o template.data
<1>1. front \in Seq(Byte)
  BY TemplateTyped, ConcatProperties
<1>2. Hash(Grown(s))[4] = front \o s /\ Hash(Grown(t))[4] = front \o t
  BY DEF Hash, Grown
<1>. HIDE DEF front
<1>3. front \o s = front \o t
  BY <1>2
<1>. QED  BY <1>1, <1>3, ConcatSimplifications, Zenon

LEMMA GrownJob ==
  ASSUME NEW u, u = Grown(u.state)  PROVE Job(u) = Job(Grown(<<>>))
BY DEF Job, Grown, Budget

\* A unit with another state, and one that has survived.
LEMMA UnitFields ==
  ASSUME NEW u, NEW t,
         u = [flags |-> u.flags, fuel |-> u.fuel, current |-> u.current, code |-> u.code,
              data |-> u.data, state |-> u.state, rights |-> u.rights]
  PROVE  /\ [u EXCEPT !.state = t] =
              [flags |-> u.flags, fuel |-> u.fuel, current |-> u.current, code |-> u.code,
               data |-> u.data, state |-> t, rights |-> u.rights]
         /\ [u EXCEPT !.state = t, !.flags = @ \cup {"state"}, !.fuel = FuelLimit] =
              [flags |-> u.flags \cup {"state"}, fuel |-> FuelLimit, current |-> u.current, code |-> u.code,
               data |-> u.data, state |-> t, rights |-> u.rights]
<1>1. [u EXCEPT !.state = t] =
              [flags |-> u.flags, fuel |-> u.fuel, current |-> u.current, code |-> u.code,
               data |-> u.data, state |-> t, rights |-> u.rights]
  OBVIOUS
<1>. DEFINE g == u.flags \cup {"state"}
<1>. HIDE DEF g
<1>. DEFINE v == [u EXCEPT !.state = t, !.flags = g, !.fuel = FuelLimit]
<1>2. /\ v = [f \in DOMAIN u |-> IF f = "fuel" THEN FuelLimit ELSE IF f = "flags" THEN g
                               ELSE IF f = "state" THEN t ELSE u[f]]
  OBVIOUS
<1>. HIDE DEF v
<1>3. DOMAIN u = {"flags", "fuel", "current", "code", "data", "state", "rights"}
  OBVIOUS
<1>4. v = [flags |-> g, fuel |-> FuelLimit, current |-> u.current, code |-> u.code,
               data |-> u.data, state |-> t, rights |-> u.rights]
  BY <1>2, <1>3
<1>. QED  BY <1>1, <1>4 DEF g, v

\* A function on 1 .. n is a sequence.
LEMMA Listed ==
  ASSUME NEW n \in Nat, NEW s, s = [i \in 1 .. n |-> s[i]]
  PROVE  (\E S : s \in Seq(S)) /\ Len(s) = n
<1>. DEFINE S == {s[i] : i \in 1 .. n}
<1>1. \A i \in 1 .. n : s[i] \in S
  OBVIOUS
<1>. HIDE DEF S
<1>2. s \in Seq(S) /\ Len(s) = n
  BY <1>1
<1>. QED  BY <1>2

LEMMA MarkedKin ==
  ASSUME template \in Templates, NEW b \in Byte
  PROVE  Kin(Marked(template, b))
<1>. DEFINE state == [template.state EXCEPT ![1] = b]
<1>1. CASE template.state = <<>>
  BY <1>1, TemplateTyped DEF Marked, Kin
<1>2. CASE template.state # <<>>
  <2>1. Marked(template, b) = [template EXCEPT !.state = state]
    BY <1>2, Zenon DEF Marked
  <2>2. template.state \in Seq(Byte) /\ 1 \in 1 .. Len(template.state)
    <3>1. template.state \in Seq(Byte)
      BY TemplateTyped
    <3>2. Len(template.state) \in Nat /\ Len(template.state) # 0
      BY <1>2, <3>1, EmptySeq, LenProperties
    <3>. QED  BY <3>1, <3>2
  <2>3. state \in Seq(Byte) /\ Len(state) = Len(template.state)
    <3>1. state \in Seq(Byte \cup {b}) /\ Len(state) = Len(template.state)
      BY <2>2, Replaced
    <3>2. Byte \cup {b} = Byte
      OBVIOUS
    <3>. QED  BY <3>1, <3>2
  <2>. HIDE DEF state
  <2>4. Len(state) <= MaxState
    BY <2>3, TemplateTyped
  <2>5. [template EXCEPT !.state = state] =
          [flags |-> template.flags, fuel |-> template.fuel, current |-> template.current,
           code |-> template.code, data |-> template.data, state |-> state, rights |-> template.rights]
    BY TemplateTyped, UnitFields
  <2>. DEFINE u == Marked(template, b)
  <2>6. u.flags = template.flags /\ u.fuel = template.fuel /\ u.state = state
        /\ u = [flags |-> template.flags, fuel |-> template.fuel, current |-> template.current,
           code |-> template.code, data |-> template.data, state |-> state, rights |-> template.rights]
    BY <2>1, <2>5
  <2>. HIDE DEF u
  <2>7. Kin(u)
    BY <2>3, <2>4, <2>6, TemplateTyped DEF Kin
  <2>. QED  BY <2>7 DEF u
<1>. QED  BY <1>1, <1>2

LEMMA MatrixInit ==
  ASSUME PopulationInit  PROVE MatrixInv
<1>1. /\ MachineInit /\ count \in Counts
      /\ units = <<>> /\ entries = <<>> /\ turn = 1 /\ step = 0
      /\ activity = "read" \/ (activity = "populate" /\ template \in Templates)
  BY DEF PopulationInit
<1>2. MachineTypeOK /\ Nested
  BY <1>1, MachineTypesAtFirst, NestedAtFirst
<1>. QED
  BY <1>1, <1>2, PopulationAssumption DEF MatrixInv, Crew, Rounds, AtTurn, GrownSoFar, RoundFollows

\* Where no round goes on, the machine is all there is to say.
LEMMA OutsideRounds ==
  ASSUME MachineTypeOK', Nested', count' \in Nat, step' \in Nat, activity' \in {"read", "replicate", "done"}
  PROVE  MatrixInv'
BY DEF MatrixInv, Crew, Rounds, AtTurn, GrownSoFar, RoundFollows

LEMMA MachineRests ==
  ASSUME MachineTypeOK, Nested, UNCHANGED machine
  PROVE  MachineTypeOK' /\ Nested' /\ Machine' = Machine /\ fuel' = fuel
<1>1. Nested'
  BY NestedRests
<1>. QED  BY <1>1 DEF MachineTypeOK, machine, program, store, Machine

\* Nor do the units say more while the machine runs.
LEMMA MatrixRests ==
  ASSUME Crew, GrownSoFar, RoundFollows, Rounds, Rounds', activity' # "populate", UNCHANGED <<command, matrix>>
  PROVE  Crew' /\ GrownSoFar' /\ RoundFollows'
<1>1. /\ template' = template /\ count' = count /\ units' = units /\ entries' = entries
      /\ turn' = turn /\ step' = step /\ unique' = unique
  BY DEF command, matrix
<1>2. Crew'
  <2>1. Listing /\ AllKin /\ turn \in Nat \ {0} /\ step \in Nat /\ count \in Nat /\ template \in Templates
    BY DEF Crew, Rounds
  <2>2. Listing' /\ AllKin'
    BY <1>1, <2>1 DEF Listing, AllKin, Kin, IsEntry
  <2>. QED  BY <1>1, <2>1, <2>2, Zenon DEF Crew
<1>3. Alive' = Alive
  BY <1>1 DEF Alive
<1>4. GrownSoFar'
  BY <1>1, <1>3 DEF GrownSoFar, IsGrown, Grown
<1>5. ASSUME NEW old, NEW O, Follows(old, O)  PROVE Follows(old, O)'
  BY <1>1, <1>3, <1>5 DEF Follows, Grown, Job, Budget
<1>6. RoundFollows'
  BY <1>1, <1>5, Zenon DEF RoundFollows
<1>. QED  BY <1>2, <1>4, <1>6

LEMMA PopulateKeeps ==
  ASSUME MatrixInv, Populate
  PROVE  MatrixInv' /\ Listing' /\ AllKin' /\ Len(units') <= MaxPopulation
<1>. DEFINE size == IF count > MaxPopulation THEN MaxPopulation ELSE count
            Entry(u) == [alive |-> TRUE, generation |-> 0, used |-> 0, hash |-> Hash(u)]
<1>1. /\ activity = "populate" /\ UNCHANGED <<machine, command, turn, step, unique>>
      /\ units' = [i \in 1 .. size |-> Marked(template, (i - 1) % 256)]
      /\ entries' = [i \in 1 .. size |->
                       [alive |-> TRUE, generation |-> 0, used |-> 0, hash |-> Hash(units'[i])]]
      /\ activity' \in {"done", "round"}
  BY DEF Populate
<1>2. size \in Nat /\ count' \in Nat
  BY <1>1, PopulationAssumption DEF MatrixInv, Crew, command
<1>. HIDE DEF size
<1>3. template \in Templates /\ template' = template /\ turn' = 1 /\ step' = 0
  BY <1>1 DEF MatrixInv, Crew, command
<1>4. MachineTypeOK' /\ Nested'
  BY <1>1, MachineRests DEF MatrixInv
<1>5. ASSUME NEW i \in 1 .. size
      PROVE  Kin(units[i])' /\ IsEntry(entries[i], units[i])'
  <2>1. (i - 1) % 256 \in Byte
    BY ByteRange
  <2>2. units'[i] = Marked(template, (i - 1) % 256)
    BY <1>1
  <2>3. Kin(units'[i])
    BY <1>3, <2>1, <2>2, MarkedKin
  <2>4. entries'[i] = [alive |-> TRUE, generation |-> 0, used |-> 0, hash |-> Hash(units'[i])]
    BY <1>1
  <2>5. IsEntry(entries'[i], units'[i])
    BY <2>4, StoreAtStart DEF IsEntry
  <2>. QED  BY <1>3, <2>3, <2>5 DEF Kin, IsEntry
<1>6. (\E S : units' \in Seq(S)) /\ Len(units') = size /\ (\E S : entries' \in Seq(S)) /\ Len(entries') = size
  <2>1. units' = [i \in 1 .. size |-> units'[i]] /\ entries' = [i \in 1 .. size |-> entries'[i]]
    BY <1>1
  <2>. QED  BY <1>2, <2>1, Listed, Zenon
<1>7. Listing' /\ AllKin' /\ Crew' /\ Len(units') <= MaxPopulation
  <2>1. Listing'
    BY <1>2, <1>6, Zenon DEF Listing
  <2>2. AllKin'
    BY <1>5, <1>6, Zenon DEF AllKin
  <2>3. turn' \in Nat \ {0} /\ step' \in Nat /\ activity' # "populate"
    BY <1>1, <1>3
  <2>4. Len(units') <= MaxPopulation
    <3>1. count \in Nat /\ MaxPopulation \in Nat
      BY PopulationAssumption DEF MatrixInv, Crew
    <3>. QED  BY <1>6, <3>1 DEF size
  <2>. QED  BY <1>2, <1>3, <2>1, <2>2, <2>3, <2>4, Zenon DEF Crew
<1>8. GrownSoFar'
  <2>1. ~ (step' > 0) /\ \A i \in Alive' : ~ (i < turn')
    BY <1>3 DEF Alive
  <2>. QED  BY <2>1 DEF GrownSoFar
<1>9. MatrixInv'
  BY <1>1, <1>3, <1>4, <1>7, <1>8 DEF MatrixInv, AtTurn, RoundFollows
<1>. QED  BY <1>7, <1>9, Zenon

\* A round goes on from one unit to the next. If the unit is alive, it has
\* survived with what its execution left.
LEMMA TurnPasses ==
  ASSUME MatrixInv, Rounds, UNCHANGED <<command, step, unique>>, turn' = turn + 1, activity' = "round",
         Alive' \subseteq Alive, \A i \in Alive' : i # turn => units'[i] = units[i],
         turn \in Alive' =>
           IsGrown(units'[turn]) /\ \E used : Leaves(Job(units[turn]), units[turn].state, MaxState,
                                                     units'[turn].state, used)
  PROVE  AtTurn' /\ GrownSoFar' /\ RoundFollows'
<1>. DEFINE job == Job(Grown(<<>>))
<1>1. template' = template /\ turn \in Nat \ {0} /\ step \in Nat
  BY DEF MatrixInv, Crew, command
<1>2. Grown(<<>>)' = Grown(<<>>) /\ job' = job
  BY <1>1 DEF Grown, Job, Budget
<1>. HIDE DEF job
<1>3. \A i \in Alive' : i \in Nat /\ i \in Alive
  BY DEF Alive
<1>4. \A u : IsGrown(u)' <=> IsGrown(u)
  BY <1>1 DEF IsGrown, Grown
<1>5. GrownSoFar'
  <2>. SUFFICES ASSUME NEW i \in Alive', step > 0 \/ i < turn + 1  PROVE IsGrown(units[i])'
    BY DEF GrownSoFar
  <2>1. IsGrown(units'[i])
    <3>1. CASE i = turn
      BY <3>1
    <3>2. CASE i # turn
      <4>1. step > 0 \/ i < turn
        BY <1>1, <1>3, <3>2
      <4>2. IsGrown(units[i])
        BY <1>3, <4>1 DEF MatrixInv, GrownSoFar
      <4>. QED  BY <3>2, <4>2
    <3>. QED  BY <3>1, <3>2
  <2>. DEFINE v == units'[i]  t == units'[i].state
  <2>2. v = Grown(t) /\ Len(t) = MaxState
    BY <2>1 DEF IsGrown
  <2>3. v = [flags |-> template'.flags \cup {"state"}, fuel |-> FuelLimit, current |-> template'.current,
             code |-> template'.code, data |-> template'.data, state |-> t, rights |-> template'.rights]
    BY <1>1, <2>2 DEF Grown
  <2>. QED  BY <2>2, <2>3, Zenon DEF IsGrown, Grown
<1>6. ASSUME step > 0  PROVE \E old, O : Follows(old, O)'
  <2>1. PICK old, O : Follows(old, O)
    BY <1>6 DEF MatrixInv, RoundFollows
  <2>2. ASSUME NEW i \in Alive'
        PROVE  /\ old[i] \in O
               /\ IF i < turn'
                  THEN \E used : Leaves(job, old[i], MaxState, units'[i].state, used)
                  ELSE units'[i].state = old[i]
    <3>1. /\ old[i] \in O
          /\ IF i < turn
             THEN \E used : Leaves(job, old[i], MaxState, units[i].state, used)
             ELSE units[i].state = old[i]
      BY <1>3, <2>1, <2>2 DEF Follows, job
    <3>2. CASE i = turn
      <4>1. IsGrown(units[i])
        BY <1>3, <1>6, <2>2 DEF MatrixInv, GrownSoFar
      <4>2. Job(units[i]) = job
        BY <4>1, GrownJob DEF IsGrown, job
      <4>3. units[i].state = old[i] /\ i < turn'
        BY <1>1, <3>1, <3>2
      <4>4. \E used : Leaves(Job(units[i]), units[i].state, MaxState, units'[i].state, used)
        BY <2>2, <3>2
      <4>. QED  BY <3>1, <4>2, <4>3, <4>4
    <3>3. CASE i # turn
      <4>1. (i < turn') <=> (i < turn)
        BY <1>1, <1>3, <2>2, <3>3
      <4>2. units'[i] = units[i]
        BY <2>2, <3>3
      <4>. QED  BY <3>1, <4>1, <4>2
    <3>. QED  BY <3>2, <3>3
  <2>3. Follows(old, O)'
    BY <1>2, <2>1, <2>2 DEF Follows, job
  <2>. QED  BY <2>3
<1>. QED  BY <1>5, <1>6 DEF AtTurn, RoundFollows

LEMMA SkipKeeps ==
  ASSUME MatrixInv, Skip  PROVE MatrixInv'
<1>1. /\ Rounds /\ activity = "round" /\ ~ entries[turn].alive /\ turn' = turn + 1
      /\ UNCHANGED <<machine, command, activity, units, entries, step, unique>>
  BY DEF Skip, InRound, Rounds
<1>2. turn \notin Alive /\ Alive' = Alive
  BY <1>1 DEF Alive
<1>3. AtTurn' /\ GrownSoFar' /\ RoundFollows'
  BY <1>1, <1>2, TurnPasses
<1>4. Crew'
  <2>1. Listing /\ AllKin /\ turn \in Nat \ {0} /\ step \in Nat /\ count \in Nat /\ template \in Templates
    BY <1>1 DEF MatrixInv, Crew
  <2>2. Listing' /\ AllKin'
    BY <1>1, <2>1 DEF Listing, AllKin, Kin, IsEntry, command
  <2>3. turn' \in Nat \ {0} /\ step' \in Nat /\ count' \in Nat /\ template' \in Templates /\ activity' # "populate"
    BY <1>1, <2>1 DEF command
  <2>. QED  BY <2>2, <2>3, Zenon DEF Crew
<1>. QED  BY <1>1, <1>3, <1>4, MachineRests DEF MatrixInv

\* The entry of a unit that dies.
LEMMA DeadEntry ==
  ASSUME NEW d, NEW u, IsEntry(d, u)
  PROVE  LET e == [d EXCEPT !.alive = FALSE] IN e.alive = FALSE /\ IsEntry(e, u)
<1>. DEFINE e == [d EXCEPT !.alive = FALSE]
<1>1. d = [alive |-> d.alive, generation |-> d.generation, used |-> d.used, hash |-> d.hash]
  BY DEF IsEntry
<1>2. e = [f \in DOMAIN d |-> IF f = "alive" THEN FALSE ELSE d[f]]
  BY <1>1
<1>3. DOMAIN d = {"alive", "generation", "used", "hash"}
  BY <1>1
<1>. HIDE DEF e
<1>4. e.alive = FALSE /\ e.used = d.used /\ e.hash = d.hash /\ e.generation = d.generation
  BY <1>2, <1>3
<1>5. e = [alive |-> FALSE, generation |-> d.generation, used |-> d.used, hash |-> d.hash]
  BY <1>2, <1>3
<1>. QED  BY <1>4, <1>5 DEF IsEntry, e

\* The unit that is buried.
LEMMA BuryKeeps ==
  ASSUME MatrixInv, Rounds, turn \in 1 .. Len(units), Bury  PROVE MatrixInv'
<1>. DEFINE e == [entries[turn] EXCEPT !.alive = FALSE]
<1>1. /\ entries' = [entries EXCEPT ![turn] = e] /\ turn' = turn + 1 /\ activity' = "round"
      /\ UNCHANGED <<machine, command, units, step, unique>>
  BY DEF Bury
<1>2. Listing /\ AllKin /\ turn \in Nat \ {0} /\ step \in Nat
  BY DEF MatrixInv, Crew
<1>3. IsEntry(entries[turn], units[turn])
  BY <1>2 DEF AllKin
<1>4. e.alive = FALSE /\ IsEntry(e, units[turn])
  BY <1>3, DeadEntry
<1>. HIDE DEF e
<1>5. PICK S : entries \in Seq(S)
  BY <1>2 DEF Listing
<1>6. /\ entries' \in Seq(S \cup {e}) /\ Len(entries') = Len(entries)
      /\ \A i \in 1 .. Len(entries) : entries'[i] = IF i = turn THEN e ELSE entries[i]
  BY <1>1, <1>2, <1>5, Replaced DEF Listing
<1>7. Alive' \subseteq Alive /\ turn \notin Alive'
  BY <1>1, <1>2, <1>4, <1>6 DEF Alive, Listing
<1>8. AtTurn' /\ GrownSoFar' /\ RoundFollows'
  BY <1>1, <1>7, TurnPasses
<1>9. Listing'
  BY <1>1, <1>2, <1>6 DEF Listing
<1>10. AllKin'
  <2>1. ASSUME NEW i \in 1 .. Len(units)  PROVE Kin(units[i]) /\ IsEntry(entries'[i], units[i])
    <3>1. Kin(units[i]) /\ IsEntry(entries[i], units[i])
      BY <1>2 DEF AllKin
    <3>2. entries'[i] = IF i = turn THEN e ELSE entries[i]
      BY <1>2, <1>6 DEF Listing
    <3>. QED  BY <1>4, <3>1, <3>2
  <2>. QED  BY <1>1, <2>1 DEF AllKin, Kin, IsEntry, command
<1>11. Crew'
  <2>1. turn' \in Nat \ {0} /\ step' \in Nat /\ count' \in Nat /\ template' \in Templates /\ activity' # "populate"
    BY <1>1, <1>2 DEF MatrixInv, Crew, Rounds, command
  <2>. QED  BY <1>9, <1>10, <2>1, Zenon DEF Crew
<1>. QED  BY <1>1, <1>8, <1>11, MachineRests DEF MatrixInv

LEMMA UnitRuns ==
  ASSUME MatrixInv, RunUnit  PROVE MatrixInv'
<1>1. activity = "run" /\ MachineStep /\ UNCHANGED <<command, activity, matrix>>
  BY DEF RunUnit
<1>2. MachineTypeOK' /\ fuel' <= fuel /\ Nested'
  BY <1>1, MachineTypesStep, NestedStep DEF MatrixInv
<1>3. Reached(Job(units[turn]), units[turn].state, Machine) /\ fuel <= Budget(units[turn])
      /\ turn \in 1 .. Len(units) /\ entries[turn].alive
  BY <1>1 DEF MatrixInv, AtTurn
<1>4. fuel \in Nat /\ fuel' \in Nat
  BY <1>2, WordNat DEF MatrixInv, MachineTypeOK
<1>5. status = "running" /\ Machine' = After(Machine)
  BY <1>1, <1>4, StepIsAFunction DEF Countable, MatrixInv, Nested
<1>6. Reached(Job(units[turn]), units[turn].state, After(Machine))
  BY <1>3, <1>5, MachineFields, ReachedGoesOn
<1>7. AtTurn'
  <2>1. Kin(units[turn]) /\ template \in Templates
    BY <1>1, <1>3 DEF MatrixInv, Crew, Rounds, AllKin
  <2>2. Budget(units[turn]) \in Nat
    BY <2>1, KinTyped, BudgetNat DEF Typed
  <2>3. fuel' <= Budget(units[turn])
    BY <1>2, <1>3, <1>4, <2>2
  <2>. QED  BY <1>1, <1>3, <1>5, <1>6, <2>3 DEF AtTurn, matrix, Job, Budget
<1>8. Crew' /\ GrownSoFar' /\ RoundFollows'
  <2>1. Rounds /\ Rounds' /\ activity' # "populate" /\ UNCHANGED <<command, matrix>>
    BY <1>1 DEF Rounds
  <2>. QED  BY <2>1, MatrixRests DEF MatrixInv
<1>. QED  BY <1>2, <1>7, <1>8 DEF MatrixInv

LEMMA UnitIsLoaded ==
  ASSUME MatrixInv, ExecuteUnit  PROVE MatrixInv'
<1>1. /\ activity = "round" /\ turn <= Len(units) /\ entries[turn].alive /\ LoadUnit(units[turn])
      /\ activity' = "run" /\ UNCHANGED <<command, matrix>>
  BY DEF ExecuteUnit, InRound
<1>2. turn \in 1 .. Len(units) /\ Kin(units[turn]) /\ template \in Templates
  <2>1. Listing /\ AllKin /\ turn \in Nat \ {0} /\ template \in Templates
    BY <1>1 DEF MatrixInv, Crew, Rounds
  <2>. QED  BY <1>1, <2>1 DEF Listing, AllKin
<1>3. Typed(units[turn])
  BY <1>2, KinTyped
<1>4. MachineTypeOK' /\ fuel' <= Budget(units[turn]) /\ Nested'
  BY <1>1, <1>3, MachineTypesAtLoad, NestedAtLoad DEF LoadUnit, Typed
<1>5. Reached(Job(units[turn]), units[turn].state, Machine')
  BY <1>1, LoadedMachine, ReachedAtLoad
<1>6. AtTurn'
  BY <1>1, <1>2, <1>4, <1>5 DEF AtTurn, matrix, Job, Budget
<1>7. Crew' /\ GrownSoFar' /\ RoundFollows'
  <2>1. Rounds /\ Rounds' /\ activity' # "populate" /\ UNCHANGED <<command, matrix>>
    BY <1>1 DEF Rounds
  <2>. QED  BY <2>1, MatrixRests DEF MatrixInv
<1>. QED  BY <1>4, <1>6, <1>7 DEF MatrixInv

\* What the machine leaves for a unit that survives.
LEMMA Survivor ==
  ASSUME template \in Templates, MachineTypeOK, NEW u, Kin(u), fuel <= Budget(u),
         Reached(Job(u), u.state, Machine), status = "halted"
  PROVE  LET v == Renewed(u) IN
         /\ Kin(v) /\ IsGrown(v) /\ Budget(u) - fuel \in Word
         /\ Leaves(Job(u), u.state, MaxState, v.state, Budget(u) - fuel)
<1>. DEFINE final == [i \in 1 .. MaxState |-> memory[i - 1]]
            v == [u EXCEPT !.state = final, !.flags = @ \cup {"state"}, !.fuel = FuelLimit]
<1>1. final \in Seq(Byte) /\ Len(final) = MaxState
  <2>1. ASSUME NEW i \in 1 .. MaxState  PROVE memory[i - 1] \in Byte
    <3>1. i - 1 \in Cells
      BY PopulationAssumption, MachineAssumption DEF Cells
    <3>. QED  BY <3>1 DEF MachineTypeOK
  <2>2. MaxState \in Nat
    BY PopulationAssumption, MachineAssumption
  <2>. HIDE DEF Byte
  <2>. QED  BY <2>1, <2>2
<1>2. Leaves(Job(u), u.state, MaxState, final, Budget(u) - fuel)
  <2>1. /\ final = [i \in 1 .. MaxState |-> Machine.memory[i - 1]]
        /\ Budget(u) - fuel = Job(u).fuel - Machine.fuel
        /\ Machine.status # "running"
    BY MachineFields DEF Job
  <2>. QED  BY <2>1 DEF Leaves
<1>3. Budget(u) - fuel \in Word
  <2>1. Budget(u) \in Word /\ fuel \in Word
    BY BudgetType DEF Kin, MachineTypeOK
  <2>. HIDE DEF final
  <2>. QED  BY <2>1, WordRange, SMT
<1>. HIDE DEF final
<1>4. v = [flags |-> u.flags \cup {"state"}, fuel |-> FuelLimit, current |-> u.current, code |-> u.code,
           data |-> u.data, state |-> final, rights |-> u.rights]
  BY UnitFields, Zenon DEF Kin
<1>. HIDE DEF v
<1>5. u.current = template.current /\ u.code = template.code /\ u.data = template.data
      /\ u.rights = template.rights /\ u.flags \cup {"state"} = template.flags \cup {"state"}
  BY DEF Kin
<1>6. v = [flags |-> template.flags \cup {"state"}, fuel |-> FuelLimit, current |-> template.current,
           code |-> template.code, data |-> template.data, state |-> final, rights |-> template.rights]
  BY <1>4, <1>5
<1>7. v.state = final /\ v.fuel = FuelLimit /\ v.flags = template.flags \cup {"state"}
  BY <1>6
<1>8. IsGrown(v)
  BY <1>1, <1>6, <1>7 DEF IsGrown, Grown
<1>9. Kin(v)
  <2>1. FuelLimit \in Word
    BY EnvironmentAssumption
  <2>2. final \in Seq(Byte) /\ Len(final) <= MaxState /\ v.flags \cup {"state"} = template.flags \cup {"state"}
    BY <1>1, <1>7, PopulationAssumption
  <2>. QED  BY <1>6, <1>7, <2>1, <2>2 DEF Kin
<1>10. v = Renewed(u)
  BY DEF v, final, Renewed
<1>. QED  BY <1>2, <1>3, <1>7, <1>8, <1>9, <1>10

LEMMA SurviveKeeps ==
  ASSUME MatrixInv, Survive  PROVE MatrixInv' /\ Len(units') = Len(units)
<1>. DEFINE u == units[turn]
            v == Renewed(u)
            e == [alive |-> TRUE, generation |-> (entries[turn].generation + 1) % 256,
                  used |-> Budget(u) - fuel, hash |-> Hash(units'[turn])]
<1>1. /\ activity = "run" /\ status = "halted"
      /\ units' = [units EXCEPT ![turn] = v]
      /\ entries' = [entries EXCEPT ![turn] = e]
      /\ turn' = turn + 1 /\ activity' = "round"
      /\ UNCHANGED <<machine, command, step, unique>>
  BY DEF Survive
<1>2. Listing /\ AllKin /\ turn \in Nat \ {0} /\ step \in Nat /\ template \in Templates
      /\ turn \in 1 .. Len(units) /\ fuel <= Budget(u) /\ Reached(Job(u), u.state, Machine)
  BY <1>1 DEF MatrixInv, Crew, Rounds, AtTurn
<1>3. Kin(u) /\ IsEntry(entries[turn], u)
  BY <1>2 DEF AllKin
<1>4. /\ Kin(v) /\ IsGrown(v) /\ Budget(u) - fuel \in Word
      /\ Leaves(Job(u), u.state, MaxState, v.state, Budget(u) - fuel)
  BY <1>1, <1>2, <1>3, Survivor DEF MatrixInv
<1>. HIDE DEF v, e
<1>5. PICK S : units \in Seq(S)
  BY <1>2 DEF Listing
<1>6. PICK R : entries \in Seq(R)
  BY <1>2 DEF Listing
<1>7. /\ units' \in Seq(S \cup {v}) /\ Len(units') = Len(units)
      /\ \A i \in 1 .. Len(units) : units'[i] = IF i = turn THEN v ELSE units[i]
  BY <1>1, <1>2, <1>5, Replaced
<1>8. /\ entries' \in Seq(R \cup {e}) /\ Len(entries') = Len(entries)
      /\ \A i \in 1 .. Len(entries) : entries'[i] = IF i = turn THEN e ELSE entries[i]
  BY <1>1, <1>2, <1>6, Replaced DEF Listing
<1>9. units'[turn] = v /\ entries'[turn] = e
  BY <1>2, <1>7, <1>8 DEF Listing
<1>10. IsEntry(e, v)
  <2>1. e = [alive |-> e.alive, generation |-> e.generation, used |-> e.used, hash |-> e.hash]
        /\ e.alive = TRUE /\ e.used = Budget(u) - fuel /\ e.hash = Hash(v)
    BY <1>9 DEF e
  <2>. QED  BY <1>4, <2>1 DEF IsEntry
<1>11. Alive' \subseteq Alive
  <2>. SUFFICES ASSUME NEW i \in Alive'  PROVE i \in Alive
    OBVIOUS
  <2>1. i \in 1 .. Len(units) /\ entries'[i].alive
    BY <1>7 DEF Alive
  <2>2. entries'[i] = IF i = turn THEN e ELSE entries[i]
    BY <1>2, <1>8, <2>1 DEF Listing
  <2>3. entries[turn].alive
    BY <1>1 DEF MatrixInv, AtTurn
  <2>. QED  BY <2>1, <2>2, <2>3 DEF Alive
<1>12. AtTurn' /\ GrownSoFar' /\ RoundFollows'
  <2>1. \A i \in Alive' : i # turn => units'[i] = units[i]
    BY <1>7, <1>11 DEF Alive
  <2>2. IsGrown(units'[turn])
    BY <1>4, <1>9
  <2>3. \E used : Leaves(Job(units[turn]), units[turn].state, MaxState, units'[turn].state, used)
    BY <1>4, <1>9
  <2>4. Rounds
    BY <1>1 DEF Rounds
  <2>. QED  BY <1>1, <1>11, <2>1, <2>2, <2>3, <2>4, TurnPasses
<1>13. Listing'
  BY <1>2, <1>7, <1>8 DEF Listing
<1>14. AllKin'
  <2>1. ASSUME NEW i \in 1 .. Len(units)  PROVE Kin(units'[i]) /\ IsEntry(entries'[i], units'[i])
    <3>1. Kin(units[i]) /\ IsEntry(entries[i], units[i])
      BY <1>2 DEF AllKin
    <3>2. /\ entries'[i] = IF i = turn THEN e ELSE entries[i]
          /\ units'[i] = IF i = turn THEN v ELSE units[i]
      BY <1>2, <1>7, <1>8 DEF Listing
    <3>. QED  BY <1>4, <1>10, <3>1, <3>2
  <2>. QED  BY <1>1, <1>7, <2>1 DEF AllKin, Kin, IsEntry, command
<1>15. Crew'
  <2>1. turn' \in Nat \ {0} /\ step' \in Nat /\ count' \in Nat /\ template' \in Templates /\ activity' # "populate"
    BY <1>1, <1>2 DEF MatrixInv, Crew, Rounds, command
  <2>. QED  BY <1>13, <1>14, <2>1, Zenon DEF Crew
<1>. QED  BY <1>1, <1>7, <1>12, <1>15, MachineRests DEF MatrixInv

\* The size of the indexes of a sequence.
LEMMA IntervalSize ==
  ASSUME NEW n \in Nat  PROVE IsFiniteSet(1 .. n) /\ Cardinality(1 .. n) = n
<1>. DEFINE one == 1
<1>1. one \in Int /\ n \in Int /\ (IF one > n THEN 0 ELSE n - one + 1) = n
  OBVIOUS
<1>. HIDE DEF one
<1>2. IsFiniteSet(one .. n) /\ Cardinality(one .. n) = n
  BY <1>1, FS_Interval
<1>. QED  BY <1>2 DEF one

\* At the end of a round all that live have survived it, and the hashes tell
\* their states apart.
LEMMA RoundEnds ==
  ASSUME MatrixInv, EndRound
  PROVE  /\ IsFiniteSet(Alive)
         /\ \A i \in Alive : units[i].state \in Seq(Byte) /\ units[i] = Grown(units[i].state)
                               /\ entries[i].hash = Hash(Grown(units[i].state)) /\ i < turn /\ i \in 1 .. Len(units)
<1>1. activity = "round" /\ turn > Len(units)
  BY DEF EndRound
<1>2. Listing /\ AllKin /\ turn \in Nat \ {0}
  BY <1>1 DEF MatrixInv, Crew, Rounds
<1>3. IsFiniteSet(Alive)
  <2>1. Len(units) \in Nat
    BY <1>2 DEF Listing
  <2>2. IsFiniteSet(1 .. Len(units))
    BY <2>1, IntervalSize
  <2>. QED  BY <2>2, FS_Subset DEF Alive
<1>4. ASSUME NEW i \in Alive
      PROVE  units[i].state \in Seq(Byte) /\ units[i] = Grown(units[i].state)
             /\ entries[i].hash = Hash(Grown(units[i].state)) /\ i < turn /\ i \in 1 .. Len(units)
  <2>1. i \in 1 .. Len(units) /\ i < turn
    BY <1>1, <1>2 DEF Alive, Listing
  <2>2. IsGrown(units[i])
    BY <1>1, <2>1 DEF MatrixInv, GrownSoFar, Rounds
  <2>3. Kin(units[i]) /\ IsEntry(entries[i], units[i])
    BY <1>2, <2>1 DEF AllKin
  <2>4. units[i].state \in Seq(Byte) /\ entries[i].hash = Hash(units[i]) /\ units[i] = Grown(units[i].state)
    BY <2>2, <2>3, Zenon DEF Kin, IsEntry, IsGrown
  <2>. QED  BY <2>1, <2>4, Zenon
<1>. QED  BY <1>3, <1>4

\* What matrix_unique_states counts when a round ends.
LEMMA Counted ==
  ASSUME MatrixInv, EndRound
  PROVE  /\ IsFiniteSet({entries[i].hash : i \in Alive}) /\ UniqueStates \in Nat /\ UniqueStates <= Len(units)
         /\ step > 0 => UniqueStates <= unique
<1>. DEFINE hash == [i \in Alive |-> entries[i].hash]
            self == [i \in Alive |-> i]
            H == Values(Alive, hash)
<1>1. H = {entries[i].hash : i \in Alive}
  BY DEF Values
<1>2. IsFiniteSet(H) /\ Cardinality(H) \in Nat /\ Cardinality(H) <= Len(units)
  <2>1. IsFiniteSet(Alive) /\ Values(Alive, self) \subseteq Alive /\ Determines(Alive, self, hash)
    BY RoundEnds DEF Values, Determines
  <2>2. Len(units) \in Nat
    BY DEF MatrixInv, EndRound, Crew, Rounds, Listing
  <2>. HIDE DEF hash, self
  <2>3. IsFiniteSet(H) /\ Cardinality(H) \in Nat /\ Cardinality(H) <= Cardinality(Alive)
    BY <2>1, NoMoreValues
  <2>4. IsFiniteSet(1 .. Len(units)) /\ Cardinality(1 .. Len(units)) = Len(units)
    BY <2>2, IntervalSize
  <2>5. Alive \in SUBSET (1 .. Len(units))
    BY DEF Alive
  <2>6. Cardinality(Alive) <= Len(units) /\ Cardinality(Alive) \in Nat
    BY <2>1, <2>4, <2>5, FS_Subset, FS_CardinalityType
  <2>. HIDE DEF H
  <2>. QED  BY <2>2, <2>3, <2>6
<1>3. ASSUME step > 0  PROVE Cardinality(H) <= unique
  <2>1. PICK old, O : Follows(old, O)
    BY <1>3 DEF MatrixInv, RoundFollows, EndRound, Rounds
  <2>2. Values(Alive, old) \subseteq O
    BY <2>1 DEF Follows, Values
  <2>3. ASSUME NEW i \in Alive, NEW j \in Alive, old[i] = old[j]  PROVE hash[i] = hash[j]
    <3>1. i < turn /\ j < turn
      BY RoundEnds
    <3>2. PICK u1 : Leaves(Job(Grown(<<>>)), old[i], MaxState, units[i].state, u1)
      BY <2>1, <3>1 DEF Follows
    <3>3. PICK u2 : Leaves(Job(Grown(<<>>)), old[j], MaxState, units[j].state, u2)
      BY <2>1, <3>1 DEF Follows
    <3>4. units[i].state = units[j].state
      BY <2>3, <3>2, <3>3, OneOutcome
    <3>5. entries[i].hash = Hash(Grown(units[i].state)) /\ entries[j].hash = Hash(Grown(units[j].state))
      BY RoundEnds
    <3>. QED  BY <3>4, <3>5
  <2>4. IsFiniteSet(O) /\ Cardinality(O) <= unique /\ unique \in Nat
    BY <2>1 DEF Follows
  <2>5. Determines(Alive, old, hash)
    <3>. HIDE DEF hash
    <3>. QED  BY <2>3 DEF Determines
  <2>. HIDE DEF hash
  <2>6. Cardinality(H) <= Cardinality(O)
    BY <2>2, <2>4, <2>5, NoMoreValues
  <2>7. Cardinality(O) \in Nat
    BY <2>4, FS_CardinalityType
  <2>. QED  BY <1>2, <2>4, <2>6, <2>7
<1>. QED  BY <1>1, <1>2, <1>3 DEF UniqueStates

LEMMA EndKeeps ==
  ASSUME MatrixInv, EndRound  PROVE MatrixInv'
<1>. DEFINE state == [i \in Alive |-> units[i].state]
            hash == [i \in Alive |-> entries[i].hash]
            O == Values(Alive, state)
            H == Values(Alive, hash)
<1>1. /\ activity = "round" /\ unique' = UniqueStates /\ step' = step + 1 /\ turn' = 1
      /\ activity' \in {"done", "round"}
      /\ UNCHANGED <<machine, command, units, entries>>
  BY DEF EndRound
<1>2. Listing /\ AllKin /\ turn \in Nat \ {0} /\ step \in Nat /\ template \in Templates /\ count \in Nat
  BY <1>1 DEF MatrixInv, Crew, Rounds
<1>3. Alive' = Alive /\ Alive \subseteq 1 .. Len(units)
  BY <1>1 DEF Alive
<1>4. Crew'
  <2>1. Listing' /\ AllKin'
    BY <1>1, <1>2 DEF Listing, AllKin, Kin, IsEntry, command
  <2>2. turn' \in Nat \ {0} /\ step' \in Nat /\ count' \in Nat /\ template' \in Templates /\ activity' # "populate"
    BY <1>1, <1>2 DEF command
  <2>. QED  BY <2>1, <2>2, Zenon DEF Crew
<1>5. GrownSoFar'
  <2>1. \A i \in Alive : units[i] = Grown(units[i].state) /\ Len(units[i].state) = MaxState
    <3>1. \A i \in Alive : i < turn
      BY RoundEnds
    <3>. QED  BY <1>1, <3>1 DEF MatrixInv, GrownSoFar, Rounds, IsGrown
  <2>. QED  BY <1>1, <1>3, <2>1 DEF GrownSoFar, IsGrown, Grown, command
<1>6. IsFiniteSet(O) /\ Cardinality(O) <= unique' /\ unique' \in Nat
  <2>1. H = {entries[i].hash : i \in Alive}
    BY DEF Values
  <2>2. IsFiniteSet(H) /\ Cardinality(H) = unique' /\ unique' \in Nat
    BY <1>1, <2>1, Counted DEF UniqueStates
  <2>3. ASSUME NEW i \in Alive, NEW j \in Alive, hash[i] = hash[j]  PROVE state[i] = state[j]
    <3>1. /\ entries[i].hash = Hash(Grown(units[i].state)) /\ entries[j].hash = Hash(Grown(units[j].state))
          /\ units[i].state \in Seq(Byte) /\ units[j].state \in Seq(Byte)
      BY RoundEnds
    <3>. QED  BY <1>2, <2>3, <3>1, HashTells
  <2>4. Determines(Alive, hash, state)
    <3>. HIDE DEF hash, state
    <3>. QED  BY <2>3 DEF Determines
  <2>. HIDE DEF hash, state
  <2>. QED  BY <2>2, <2>4, NoMoreValues
<1>7. Follows(state, O)'
  <2>1. state' = state /\ O' = O
    BY <1>1, <1>3 DEF Values
  <2>2. \A i \in Alive : state[i] \in O /\ ~ (i < turn') /\ units'[i].state = state[i]
    BY <1>1, <1>3 DEF Values
  <2>. HIDE DEF state, O
  <2>. QED  BY <1>3, <1>6, <2>1, <2>2 DEF Follows
<1>. QED  BY <1>1, <1>4, <1>5, <1>7, MachineRests DEF MatrixInv, AtTurn, RoundFollows

LEMMA MatrixStep ==
  ASSUME MatrixInv, [PopulationNext]_population  PROVE MatrixInv'
<1>1. CASE UNCHANGED population
  <2>1. UNCHANGED <<machine, command, activity, units, entries, turn, step, unique>>
    BY <1>1 DEF population, matrix
  <2>2. MachineTypeOK' /\ Nested' /\ Machine' = Machine /\ fuel' = fuel
    BY <2>1, MachineRests DEF MatrixInv
  <2>3. Crew' /\ GrownSoFar' /\ RoundFollows'
    <3>1. CASE Rounds
      <4>1. Rounds' /\ activity' # "populate" /\ UNCHANGED <<command, matrix>>
        BY <1>1, <2>1, <3>1 DEF Rounds, population
      <4>. QED  BY <3>1, <4>1, MatrixRests DEF MatrixInv
    <3>2. CASE ~ Rounds
      <4>1. ~ Rounds'
        BY <2>1, <3>2 DEF Rounds
      <4>2. Crew'
        BY <2>1, <3>2, <4>1 DEF MatrixInv, Crew, command, Rounds
      <4>. QED  BY <4>1, <4>2 DEF GrownSoFar, RoundFollows
    <3>. QED  BY <3>1, <3>2
  <2>4. AtTurn'
    BY <2>1, <2>2 DEF MatrixInv, AtTurn, Job, Budget
  <2>. QED  BY <2>2, <2>3, <2>4 DEF MatrixInv
<1>2. ASSUME UNCHANGED <<machine, count, step>>, activity' \in {"read", "replicate", "done"}  PROVE MatrixInv'
  BY <1>2, MachineRests, OutsideRounds DEF MatrixInv, Crew
<1>3. CASE Finished
  BY <1>1, <1>3 DEF Finished
<1>4. CASE ReadFile \/ Replicate
  BY <1>2, <1>4 DEF ReadFile, Replicate, command, matrix
<1>5. CASE RefuseUnit \/ Die
  <2>1. Rounds /\ turn \in 1 .. Len(units) /\ Bury
    BY <1>5 DEF RefuseUnit, Die, InRound, MatrixInv, Crew, AtTurn, Rounds, Listing
  <2>. QED  BY <2>1, BuryKeeps
<1>. QED  BY <1>1, <1>3, <1>4, <1>5, PopulateKeeps, SkipKeeps, UnitIsLoaded, UnitRuns, SurviveKeeps, EndKeeps
          DEF PopulationNext

\* Whatever the template and the environment, the number of different units
\* never grows from one round of the matrix to the next (matrix_step and
\* matrix_unique_states, matrix.c).
THEOREM DiversityFalls == PopulationSpec => DiversityNeverGrows
<1>1. ASSUME MatrixInv, [PopulationNext]_population, step > 0, step' > step  PROVE unique' <= unique
  <2>1. step \in Nat => ~ (step > step)
    OBVIOUS
  <2>2. CASE EndRound
    BY <1>1, <2>2, Counted DEF EndRound
  <2>3. CASE ~ EndRound
    <3>1. step' = step
      BY <1>1, <2>3 DEF PopulationNext, population, matrix, Finished, ReadFile, Replicate, Populate, Skip,
                        RefuseUnit, ExecuteUnit, RunUnit, Die, Survive, Bury
    <3>2. step \in Nat
      BY <1>1 DEF MatrixInv, Crew
    <3>. QED  BY <1>1, <2>1, <3>1, <3>2
  <2>. QED  BY <2>2, <2>3
<1>. QED  BY <1>1, MatrixInit, MatrixStep, PTL DEF PopulationSpec, DiversityNeverGrows

-----------------------------------------------------------------------------

(* Files. eiu_serialize writes each section once, announced by its flag,   *)
(* so at most four; what eiu_deserialize does with them is unfolded, and   *)
(* the unit it makes has each section of the file in full, or not at all.  *)

\* What eiu_serialize writes: every section once, and the flags announce it.
Orderly(s, tags, n, u) ==
  /\ s \in Seq([tag : tags, body : {u[tag] : tag \in tags}]) /\ Len(s) <= n
  /\ \A i \in 1 .. Len(s) : s[i].tag \in tags \cap u.flags /\ s[i].body = u[s[i].tag]
  /\ \A i, j \in 1 .. Len(s) : s[i].tag = s[j].tag => i = j

LEMMA OneMore ==
  ASSUME NEW s, NEW tags, NEW n \in Nat, NEW u, NEW tag, tag \notin tags, Orderly(s, tags, n, u)
  PROVE  Orderly(s \o Announced(u, tag), tags \cup {tag}, n + 1, u)
<1>. DEFINE more == tags \cup {tag}
            S == [tag : more, body : {u[t] : t \in more}]
            one == [tag |-> tag, body |-> u[tag]]
<1>1. s \in Seq(S) /\ Len(s) \in Nat /\ Len(s) <= n
  <2>1. /\ s \in Seq([tag : tags, body : {u[t] : t \in tags}]) /\ Len(s) <= n
    BY DEF Orderly
  <2>2. \A x \in [tag : tags, body : {u[t] : t \in tags}] : x \in S
    BY Zenon
  <2>. DEFINE R == [tag : tags, body : {u[t] : t \in tags}]
  <2>. HIDE DEF R, S
  <2>3. s \in Seq(R) /\ \A x \in R : x \in S
    BY <2>1, <2>2 DEF R
  <2>. QED  BY <2>1, <2>3
<1>2. one \in S /\ one.tag = tag /\ one.body = u[tag]
  BY Zenon
<1>. HIDE DEF S, one
<1>3. CASE tag \in u.flags
  <2>1. Announced(u, tag) = <<one>> /\ <<one>> \in Seq(S)
    BY <1>2, <1>3 DEF Announced, one
  <2>. DEFINE t == s \o <<one>>
  <2>2. /\ t \in Seq(S) /\ Len(t) = Len(s) + 1
        /\ \A i \in 1 .. Len(s) : t[i] = s[i]
        /\ t[Len(s) + 1] = one
    BY <1>1, <1>2
  <2>. HIDE DEF t
  <2>3. \A i \in 1 .. Len(s) : s[i].tag \in tags /\ s[i].tag \in u.flags /\ s[i].body = u[s[i].tag]
    BY DEF Orderly
  <2>4. \A i, j \in 1 .. Len(s) : s[i].tag = s[j].tag => i = j
    BY DEF Orderly
  <2>5. \A i \in 1 .. Len(t) : i \in 1 .. Len(s) \/ i = Len(s) + 1
    BY <1>1, <2>2
  <2>6. \A i \in 1 .. Len(t) : t[i].tag \in more \cap u.flags /\ t[i].body = u[t[i].tag]
    BY <1>2, <1>3, <2>2, <2>3, <2>5
  <2>7. \A i, j \in 1 .. Len(t) : t[i].tag = t[j].tag => i = j
    BY <1>2, <2>2, <2>3, <2>4, <2>5
  <2>8. Orderly(t, more, n + 1, u)
    BY <1>1, <2>2, <2>6, <2>7 DEF Orderly, S
  <2>. QED  BY <2>1, <2>8 DEF t
<1>4. CASE tag \notin u.flags
  <2>1. s \o Announced(u, tag) = s
    BY <1>1, <1>4 DEF Announced
  <2>2. Orderly(s, more, n + 1, u)
    BY <1>1 DEF Orderly, S
  <2>. QED  BY <2>1, <2>2
<1>. QED  BY <1>3, <1>4

LEMMA Serialized ==
  ASSUME NEW u
  PROVE  Orderly(Serialize(u).sections, {"code", "data", "state", "rights"}, 4, u)
<1>. DEFINE s1 == <<>> \o Announced(u, "code")
            s2 == s1 \o Announced(u, "data")
            s3 == s2 \o Announced(u, "state")
            s4 == s3 \o Announced(u, "rights")
<1>1. Orderly(<<>>, {}, 0, u)
  BY EmptySeq DEF Orderly
<1>2. Orderly(s1, {} \cup {"code"}, 0 + 1, u)
  BY <1>1, OneMore
<1>. HIDE DEF s1
<1>3. Orderly(s2, {"code"} \cup {"data"}, 1 + 1, u)
  <2>1. {} \cup {"code"} = {"code"} /\ 0 + 1 = 1 /\ "data" \notin {"code"} /\ 1 \in Nat
    OBVIOUS
  <2>2. Orderly(s1, {"code"}, 1, u)
    BY <1>2, <2>1, Zenon
  <2>. QED  BY <2>1, <2>2, OneMore
<1>. HIDE DEF s2
<1>4. Orderly(s3, {"code", "data"} \cup {"state"}, 2 + 1, u)
  <2>1. {"code"} \cup {"data"} = {"code", "data"} /\ 1 + 1 = 2 /\ "state" \notin {"code", "data"} /\ 2 \in Nat
    OBVIOUS
  <2>2. Orderly(s2, {"code", "data"}, 2, u)
    BY <1>3, <2>1, Zenon
  <2>. QED  BY <2>1, <2>2, OneMore
<1>. HIDE DEF s3
<1>5. Orderly(s4, {"code", "data", "state"} \cup {"rights"}, 3 + 1, u)
  <2>1. {"code", "data"} \cup {"state"} = {"code", "data", "state"} /\ 2 + 1 = 3
        /\ "rights" \notin {"code", "data", "state"} /\ 3 \in Nat
    OBVIOUS
  <2>2. Orderly(s3, {"code", "data", "state"}, 3, u)
    BY <1>4, <2>1, Zenon
  <2>. QED  BY <2>1, <2>2, OneMore
<1>6. Orderly(s4, {"code", "data", "state", "rights"}, 4, u)
  <2>1. {"code", "data", "state"} \cup {"rights"} = {"code", "data", "state", "rights"} /\ 3 + 1 = 4
    OBVIOUS
  <2>. QED  BY <1>5, <2>1, Zenon
<1>7. s1 = Announced(u, "code")
  BY DEF s1, Announced
<1>8. Serialize(u).sections = s4
  <2>1. Serialize(u).sections
          = Announced(u, "code") \o Announced(u, "data") \o Announced(u, "state") \o Announced(u, "rights")
    BY DEF Serialize
  <2>. QED  BY <1>7, <2>1, Zenon DEF s2, s3, s4
<1>. QED  BY <1>6, <1>8, Zenon

-----------------------------------------------------------------------------
\* eiu_deserialize, section by section.
Set(u, section) == SetSection(u, section.tag, section.body)

SetAll(base, s) ==
  FoldLeft(LAMBDA u, section : SetSection(u, section.tag, section.body), base, s)

LEMMA FoldUnfolds ==
  ASSUME NEW base, NEW s
  PROVE  SetAll(base, s) =
           (CHOOSE it : it = [S \in SUBSET (DOMAIN s) |-> IF S = {} THEN base
                                ELSE Set(it[S \ {Max(S)}], s[Max(S)])])[DOMAIN s]
BY Zenon DEF SetAll, FoldLeft, MapThenFoldSet, Set

LEMMA Largest ==
  ASSUME NEW S, S \subseteq 1 .. 4, S # {}
  PROVE  Max(S) \in S /\ \A y \in S : y <= Max(S)
<1>1. \E x \in S : \A y \in S : x >= y
  <2>1. \A y \in S : y \in 1 .. 4
    OBVIOUS
  <2>2. CASE 4 \in S
    BY <2>1, <2>2
  <2>3. CASE 4 \notin S /\ 3 \in S
    BY <2>1, <2>3
  <2>4. CASE 4 \notin S /\ 3 \notin S /\ 2 \in S
    BY <2>1, <2>4
  <2>5. CASE 4 \notin S /\ 3 \notin S /\ 2 \notin S
    <3>1. \A y \in S : y = 1
      BY <2>1, <2>5
    <3>2. 1 \in S
      BY <3>1
    <3>. QED  BY <3>1, <3>2
  <2>. QED  BY <2>2, <2>3, <2>4, <2>5
<1>2. Max(S) \in S /\ \A y \in S : Max(S) >= y
  BY <1>1, Zenon DEF Max
<1>3. \A y \in S : y \in Int
  OBVIOUS
<1>. QED  BY <1>2, <1>3

IsChain(chain, base, s, w) == chain[0] = base /\ \A k \in 1 .. w : chain[k] = Set(chain[k - 1], s[k])

\* Of at most four sections, the fold is the last step of a chain of as many.
LEMMA Folded ==
  ASSUME NEW base, NEW s, NEW w \in 0 .. 4, DOMAIN s = 1 .. w
  PROVE  \E chain : IsChain(chain, base, s, w) /\ SetAll(base, s) = chain[w]
<1>. DEFINE If(k, S, u) == IF k \in S THEN Set(u, s[k]) ELSE u
            F(S) == If(4, S, If(3, S, If(2, S, If(1, S, base))))
            Step(it) == [S \in SUBSET (1 .. w) |-> IF S = {} THEN base ELSE Set(it[S \ {Max(S)}], s[Max(S)])]
            iter == CHOOSE it : it = Step(it)
            f == [S \in SUBSET (1 .. w) |-> F(S)]
<1>1. SetAll(base, s) = iter[1 .. w]
  BY FoldUnfolds, Zenon
<1>2. F({}) = base
  OBVIOUS
<1>3. ASSUME NEW S \in SUBSET (1 .. w), S # {}
      PROVE  /\ Max(S) \in S /\ S \ {Max(S)} \in SUBSET (1 .. w)
             /\ F(S) = Set(F(S \ {Max(S)}), s[Max(S)])
  <2>. DEFINE x == Max(S)
              T == S \ {x}
  <2>1. S \subseteq 1 .. 4
    <3>1. \A i \in S : i \in 1 .. 4
      OBVIOUS
    <3>. QED  BY <3>1
  <2>2. x \in S /\ (\A y \in S : y <= x) /\ x \in 1 .. 4
    BY <1>3, <2>1, Largest
  <2>3. \A i \in 1 .. 4 : (i \in T <=> i \in S /\ i # x) /\ (i > x => i \notin S)
    BY <2>2
  <2>. HIDE DEF x, T
  <2>4. CASE x = 4
    <3>1. 4 \in S /\ 4 \notin T /\ (3 \in T <=> 3 \in S) /\ (2 \in T <=> 2 \in S) /\ (1 \in T <=> 1 \in S)
      BY <2>2, <2>3, <2>4
    <3>. QED  BY <2>2, <2>4, <3>1, Zenon DEF T, x
  <2>5. CASE x = 3
    <3>1. 4 \notin S /\ 4 \notin T /\ 3 \in S /\ 3 \notin T /\ (2 \in T <=> 2 \in S) /\ (1 \in T <=> 1 \in S)
      BY <2>2, <2>3, <2>5
    <3>2. F(S) = Set(F(T), s[x])
      BY <2>5, <3>1, Zenon
    <3>. QED  BY <2>2, <3>2 DEF T, x
  <2>6. CASE x = 2
    <3>1. 4 \notin S /\ 4 \notin T /\ 3 \notin S /\ 3 \notin T /\ 2 \in S /\ 2 \notin T /\ (1 \in T <=> 1 \in S)
      BY <2>2, <2>3, <2>6
    <3>2. F(S) = Set(F(T), s[x])
      BY <2>6, <3>1, Zenon
    <3>. QED  BY <2>2, <3>2 DEF T, x
  <2>7. CASE x = 1
    <3>1. 4 \notin S /\ 4 \notin T /\ 3 \notin S /\ 3 \notin T /\ 2 \notin S /\ 2 \notin T /\ 1 \in S /\ 1 \notin T
      BY <2>2, <2>3, <2>7
    <3>2. F(S) = Set(F(T), s[x])
      BY <2>7, <3>1, Zenon
    <3>. QED  BY <2>2, <3>2 DEF T, x
  <2>. QED  BY <2>2, <2>4, <2>5, <2>6, <2>7
<1>. HIDE DEF F
<1>4. f = Step(f)
  BY <1>2, <1>3, Zenon
<1>5. iter = Step(iter)
  BY <1>4, Zenon
<1>6. \A S \in SUBSET (1 .. w) : iter[S] = IF S = {} THEN base ELSE Set(iter[S \ {Max(S)}], s[Max(S)])
  BY <1>5, Zenon
<1>. HIDE DEF iter
<1>. DEFINE chain == [k \in 0 .. w |-> iter[1 .. k]]
<1>7. chain[0] = base /\ chain[w] = iter[1 .. w]
  <2>1. 1 .. 0 = {} /\ 1 .. 0 \in SUBSET (1 .. w)
    OBVIOUS
  <2>2. iter[1 .. 0] = base
    BY <1>6, <2>1, Zenon
  <2>. QED  BY <2>2
<1>8. ASSUME NEW k \in 1 .. w  PROVE chain[k] = Set(chain[k - 1], s[k])
  <2>1. 1 .. k \in SUBSET (1 .. w) /\ 1 .. k # {} /\ 1 .. k \subseteq 1 .. 4
    <3>1. \A i \in 1 .. k : i \in 1 .. w /\ i \in 1 .. 4
      OBVIOUS
    <3>2. 1 \in 1 .. k
      OBVIOUS
    <3>. QED  BY <3>1, <3>2
  <2>2. Max(1 .. k) \in 1 .. k /\ \A y \in 1 .. k : y <= Max(1 .. k)
    BY <2>1, Largest
  <2>3. Max(1 .. k) = k
    <3>. DEFINE x == Max(1 .. k)
    <3>1. x \in 1 .. k /\ k <= x
      BY <2>2
    <3>. HIDE DEF x
    <3>2. x = k
      BY <3>1
    <3>. QED  BY <3>2 DEF x
  <2>4. (1 .. k) \ {k} = 1 .. (k - 1)
    OBVIOUS
  <2>5. iter[1 .. k] = Set(iter[1 .. (k - 1)], s[k])
    BY <1>6, <2>1, <2>3, <2>4, Zenon
  <2>. QED  BY <2>5
<1>. HIDE DEF chain
<1>9. IsChain(chain, base, s, w)
  BY <1>7, <1>8, Zenon DEF IsChain
<1>. QED  BY <1>1, <1>7, <1>9, Zenon

-----------------------------------------------------------------------------
Tags == {"code", "data", "state", "rights"}

\* What a unit read from a file still has of the one that was written.
Reads(r, file) ==
  /\ DOMAIN r = {"flags", "fuel", "current", "code", "data", "state", "rights"}
  /\ file.flags \subseteq r.flags /\ r.fuel = file.fuel
  /\ r.state \in Seq(Byte) /\ Len(r.state) <= MaxState
  /\ \A n \in 1 .. Len(file.sections) :
        LET section == file.sections[n] IN
        r[section.tag] = section.body \/ r[section.tag] = EmptyUnit[section.tag]

\* A file eiu_serialize wrote.
IsFile(file) ==
  /\ file.fuel \in Word /\ Len(file.sections) \in 0 .. 4 /\ \E S : file.sections \in Seq(S)
  /\ \A n \in 1 .. Len(file.sections) :
        /\ file.sections[n].tag \in Tags \cap file.flags
        /\ file.sections[n].tag = "state" => file.sections[n].body \in Seq(Byte)
  /\ \A m, n \in 1 .. Len(file.sections) : file.sections[m].tag = file.sections[n].tag => m = n

LEMMA WrittenIsFile ==
  ASSUME NEW u \in Written  PROVE IsFile(Serialize(u))
<1>. DEFINE s == Serialize(u).sections
<1>1. Orderly(s, Tags, 4, u)
  BY Serialized DEF Tags
<1>2. Serialize(u).fuel = u.fuel /\ Serialize(u).flags = u.flags
  BY DEF Serialize
<1>3. u.fuel \in Word /\ u.state \in Seq(Byte)
  BY PopulationAssumption
<1>. HIDE DEF s
<1>4. PICK S : s \in Seq(S)
  BY <1>1 DEF Orderly
<1>5. \A n \in 1 .. Len(s) :
        /\ s[n].tag \in Tags \cap u.flags
        /\ s[n].tag = "state" => s[n].body \in Seq(Byte)
  BY <1>1, <1>3 DEF Orderly
<1>6. \A m, n \in 1 .. Len(s) : s[m].tag = s[n].tag => m = n
  BY <1>1 DEF Orderly
<1>7. Len(s) \in 0 .. 4
  <2>1. Len(s) \in Nat
    BY <1>4
  <2>2. Len(s) <= 4
    BY <1>1 DEF Orderly
  <2>. DEFINE l == Len(s)
  <2>3. l \in Nat /\ l <= 4
    BY <2>1, <2>2
  <2>. HIDE DEF l
  <2>4. l \in 0 .. 4
    BY <2>3
  <2>. QED  BY <2>4 DEF l
<1>. DEFINE file == Serialize(u)
<1>8. file.sections = s /\ file.fuel = u.fuel /\ file.flags = u.flags
  BY <1>2 DEF s
<1>. HIDE DEF file
<1>9. IsFile(file)
  <2>1. file.fuel \in Word /\ Len(file.sections) \in 0 .. 4 /\ \E R : file.sections \in Seq(R)
    BY <1>3, <1>4, <1>7, <1>8
  <2>2. \A n \in 1 .. Len(file.sections) :
        /\ file.sections[n].tag \in Tags \cap file.flags
        /\ file.sections[n].tag = "state" => file.sections[n].body \in Seq(Byte)
    <3>1. ASSUME NEW n \in 1 .. Len(s)
          PROVE  /\ s[n].tag \in Tags \cap file.flags
                 /\ s[n].tag = "state" => s[n].body \in Seq(Byte)
      <4>1. file.flags = u.flags
        BY <1>8
      <4>. QED  BY <1>5, <3>1, <4>1, Zenon
    <3>. QED  BY <1>8, <3>1, Zenon
  <2>3. \A m, n \in 1 .. Len(file.sections) : file.sections[m].tag = file.sections[n].tag => m = n
    BY <1>6, <1>8
  <2>. QED  BY <2>1, <2>2, <2>3, Zenon DEF IsFile
<1>. QED  BY <1>9 DEF file

LEMMA SetReads ==
  ASSUME NEW file, IsFile(file), NEW r, Reads(r, file), NEW n \in 1 .. Len(file.sections)
  PROVE  Reads(Set(r, file.sections[n]), file)
<1>. DEFINE section == file.sections[n]
            tag == section.tag
            body == section.body
            q == [r EXCEPT ![tag] = body, !.flags = @ \cup {tag}]
<1>1. /\ tag \in Tags /\ (tag = "state" => body \in Seq(Byte))
      /\ \A m \in 1 .. Len(file.sections) : file.sections[m].tag = tag => m = n
      /\ \A m \in 1 .. Len(file.sections) : file.sections[m].tag \in Tags
  BY DEF IsFile
<1>1a. \A t \in Tags : t \in {"code", "data", "state", "rights"}
  BY DEF Tags
<1>2. CASE tag # "rights" /\ Len(body) \notin 1 .. Limit[tag]
  BY <1>2 DEF Set, SetSection
<1>3. CASE ~ (tag # "rights" /\ Len(body) \notin 1 .. Limit[tag])
  <2>1. Set(r, section) = q
    BY <1>3, Zenon DEF Set, SetSection
  <2>. HIDE DEF tag, body
  <2>2. /\ DOMAIN q = DOMAIN r /\ q[tag] = body /\ q["flags"] = r["flags"] \cup {tag}
        /\ \A f \in DOMAIN r : f # tag /\ f # "flags" => q[f] = r[f]
    BY <1>1, <1>1a DEF Reads
  <2>. HIDE DEF q
  <2>3. tag = "state" => Len(body) <= MaxState
    <3>1. tag = "state" => Len(body) \in 1 .. MaxState
      BY <1>3 DEF Limit, tag, body
    <3>. QED  BY <3>1, UnitsAssumption
  <2>4. q.state \in Seq(Byte) /\ Len(q.state) <= MaxState
    BY <1>1, <1>1a, <2>2, <2>3 DEF Reads
  <2>5. file.flags \subseteq q.flags /\ q.fuel = file.fuel
    BY <1>1, <1>1a, <2>2 DEF Reads
  <2>6. ASSUME NEW m \in 1 .. Len(file.sections)
        PROVE  LET s == file.sections[m] IN q[s.tag] = s.body \/ q[s.tag] = EmptyUnit[s.tag]
    <3>1. CASE m = n
      BY <2>2, <3>1 DEF tag, body
    <3>2. CASE m # n
      <4>1. q[file.sections[m].tag] = r[file.sections[m].tag]
        BY <1>1, <1>1a, <2>2, <3>2 DEF Reads
      <4>. QED  BY <4>1 DEF Reads
    <3>. QED  BY <3>1, <3>2
  <2>7. Reads(q, file)
    BY <2>2, <2>4, <2>5, <2>6 DEF Reads
  <2>. QED  BY <2>1, <2>7
<1>. QED  BY <1>2, <1>3

LEMMA SetAllReads ==
  ASSUME NEW file, IsFile(file), NEW base, Reads(base, file), NEW w \in 0 .. 4, w <= Len(file.sections),
         NEW s, DOMAIN s = 1 .. w, \A k \in 1 .. w : s[k] = file.sections[k]
  PROVE  Reads(SetAll(base, s), file)
<1>1. PICK chain : IsChain(chain, base, s, w) /\ SetAll(base, s) = chain[w]
  BY Folded
<1>2. ASSUME NEW k \in 1 .. w, Reads(chain[k - 1], file)  PROVE Reads(chain[k], file)
  <2>1. k \in 1 .. Len(file.sections)
    BY DEF IsFile
  <2>2. chain[k] = Set(chain[k - 1], file.sections[k])
    BY <1>1 DEF IsChain
  <2>. QED  BY <1>2, <2>1, <2>2, SetReads
<1>. DEFINE P(k) == Reads(chain[k], file)
<1>3. P(0)
  BY <1>1 DEF IsChain
<1>4. \A k \in 1 .. w : P(k - 1) => P(k)
  BY <1>2
<1>. HIDE DEF P
<1>5. P(w)
  BY <1>3, <1>4
<1>. QED  BY <1>1, <1>5 DEF P

LEMMA Recovered ==
  ASSUME NEW file, IsFile(file), NEW bytes  PROVE Reads(Deserialize(file, bytes), file)
<1>. DEFINE w == Whole(file, bytes)
            base == [EmptyUnit EXCEPT !.flags = file.flags, !.fuel = file.fuel, !.current = file.current]
            s == SubSeq(file.sections, 1, w)
            top == Len(file.sections)
<1>1. w \in 0 .. top /\ top \in 0 .. 4
  <2>1. top \in Nat /\ top \in 0 .. 4
    BY DEF IsFile
  <2>. DEFINE S == {n \in 1 .. Len(file.sections) : End(file, n) <= bytes}
  <2>2. S \subseteq 1 .. top
    OBVIOUS
  <2>3. IsFiniteSet(1 .. top) /\ Cardinality(1 .. top) = top
    BY <2>1, IntervalSize
  <2>. HIDE DEF S
  <2>4. Cardinality(S) <= top /\ Cardinality(S) \in Nat
    BY <2>2, <2>3, FS_Subset, FS_CardinalityType
  <2>5. w = Cardinality(S)
    BY DEF Whole, S
  <2>. HIDE DEF top, w
  <2>. QED  BY <2>1, <2>4, <2>5
<1>. HIDE DEF w, top
<1>2. DOMAIN s = 1 .. w /\ \A k \in 1 .. w : s[k] = file.sections[k]
  <2>1. PICK S : file.sections \in Seq(S)
    BY DEF IsFile
  <2>. QED  BY <1>1, <2>1 DEF top
<1>3. Reads(base, file)
  <2>1. /\ DOMAIN base = {"flags", "fuel", "current", "code", "data", "state", "rights"}
        /\ base.flags = file.flags /\ base.fuel = file.fuel /\ base.state = <<>>
        /\ \A tag \in Tags : base[tag] = EmptyUnit[tag]
    BY DEF EmptyUnit, Tags
  <2>. HIDE DEF base
  <2>2. base.state \in Seq(Byte) /\ Len(base.state) <= MaxState
    BY <2>1, EmptySeq, UnitsAssumption
  <2>3. \A n \in 1 .. Len(file.sections) : file.sections[n].tag \in Tags
    BY DEF IsFile
  <2>. QED  BY <2>1, <2>2, <2>3 DEF Reads
<1>4. w \in 0 .. 4
  BY <1>1
<1>. HIDE DEF base, s
<1>5. Deserialize(file, bytes) = SetAll(base, s)
  BY Zenon DEF Deserialize, SetAll, FoldLeft, MapThenFoldSet, base, s, w
<1>6. w <= Len(file.sections)
  BY <1>1 DEF top
<1>7. Reads(SetAll(base, s), file)
  BY <1>2, <1>3, <1>4, <1>6, SetAllReads
<1>. QED  BY <1>5, <1>7

-----------------------------------------------------------------------------
\* The units and the entries of PopulationTypes.
UnitsTyped ==
  /\ \A i \in 1 .. Len(units) : Len(units[i].state) <= MaxState /\ units[i].fuel \in Word
  /\ Len(units) <= MaxPopulation \/ Len(units) <= MaxReplicas
  /\ entries # <<>> => Len(entries) = Len(units)
  /\ \A i \in 1 .. Len(entries) : entries[i].hash = Hash(units[i]) /\ entries[i].used \in Word

\* No round begins before there are units, and none after the last.
PopulationTyped ==
  /\ PopulationTypes /\ MatrixInv /\ rounds \in Nat
  /\ activity \in {"read", "replicate", "populate"} =>
       units = <<>> /\ entries = <<>> /\ turn = 1 /\ step = 0 /\ unique = 0
  /\ Rounds => step < rounds /\ Len(units) <= MaxPopulation
  /\ activity \in {"read", "replicate"} => \E u \in Written : source.file = Serialize(u)
  /\ activity = "replicate" => Reads(template, source.file)

LEMMA TypesOf ==
  PopulationTypes <=>
    /\ MachineTypeOK /\ UnitsTyped
    /\ activity \in {"read", "replicate", "populate", "round", "run", "done"}
    /\ turn \in Nat /\ step \in 0 .. rounds /\ unique \in 0 .. Len(units)
BY DEF PopulationTypes, UnitsTyped

LEMMA PopulationTypedInit ==
  ASSUME PopulationInit  PROVE PopulationTyped
<1>1. MatrixInv
  BY MatrixInit
<1>2. /\ units = <<>> /\ entries = <<>> /\ turn = 1 /\ step = 0 /\ unique = 0
      /\ \/ activity = "read" /\ rounds = 0 /\ \E u \in Written : source.file = Serialize(u)
         \/ activity = "populate" /\ rounds \in Nat
  <2>1. units = <<>> /\ entries = <<>> /\ turn = 1 /\ step = 0 /\ unique = 0
    BY DEF PopulationInit
  <2>2. CASE activity = "read" /\ rounds = 0
             /\ \E u \in Written :
                  \E bytes \in 0 .. Size(Serialize(u)) : source = [file |-> Serialize(u), bytes |-> bytes]
    <3>1. PICK u \in Written : \E bytes \in 0 .. Size(Serialize(u)) : source = [file |-> Serialize(u), bytes |-> bytes]
      BY <2>2
    <3>2. source.file = Serialize(u)
      BY <3>1
    <3>. QED  BY <2>1, <2>2, <3>2
  <2>3. CASE activity = "populate" /\ rounds \in RoundCounts
    BY <2>1, <2>3, PopulationAssumption
  <2>. QED  BY <2>2, <2>3, Zenon DEF PopulationInit
<1>3. Len(units) = 0 /\ Len(entries) = 0
  BY <1>2
<1>4. UnitsTyped
  <2>1. 0 <= MaxPopulation
    BY PopulationAssumption
  <2>. QED  BY <1>2, <1>3, <2>1 DEF UnitsTyped
<1>5. PopulationTypes
  BY <1>1, <1>2, <1>3, <1>4, TypesOf DEF MatrixInv
<1>. QED  BY <1>1, <1>2, <1>5 DEF PopulationTyped, Rounds

LEMMA UnitsRest ==
  ASSUME UnitsTyped, UNCHANGED <<units, entries>>  PROVE UnitsTyped'
BY DEF UnitsTyped

LEMMA KinAreTyped ==
  ASSUME Listing', AllKin', Len(units') <= MaxPopulation  PROVE UnitsTyped'
<1>1. Len(entries') = Len(units')
  BY DEF Listing
<1>2. \A i \in 1 .. Len(units') : Len(units'[i].state) <= MaxState /\ units'[i].fuel \in Word
  BY DEF AllKin, Kin
<1>3. \A i \in 1 .. Len(units') : entries'[i].hash = Hash(units'[i]) /\ entries'[i].used \in Word
  BY DEF AllKin, IsEntry
<1>. QED  BY <1>1, <1>2, <1>3 DEF UnitsTyped

LEMMA MarkedTyped ==
  ASSUME NEW u, "state" \in DOMAIN u, "fuel" \in DOMAIN u, u.state \in Seq(Byte), u.state # <<>>, NEW b
  PROVE  Len(Marked(u, b).state) = Len(u.state) /\ Marked(u, b).fuel = u.fuel
<1>. DEFINE state == [u.state EXCEPT ![1] = b]
<1>1. Marked(u, b) = [u EXCEPT !.state = state]
  BY Zenon DEF Marked
<1>2. 1 \in 1 .. Len(u.state)
  <2>1. Len(u.state) \in Nat /\ Len(u.state) # 0
    BY EmptySeq, LenProperties
  <2>. QED  BY <2>1
<1>3. Len(state) = Len(u.state)
  BY <1>2, Replaced
<1>. HIDE DEF state
<1>. QED  BY <1>1, <1>3

LEMMA ReplicasTyped ==
  ASSUME NEW u, NEW file, Reads(u, file), IsFile(file), NEW n \in Nat
  PROVE  LET r == Replicas(u, n) IN
         /\ Len(r) \in Nat /\ Len(r) <= MaxReplicas
         /\ \A i \in 1 .. Len(r) : Len(r[i].state) <= MaxState /\ r[i].fuel \in Word
<1>. DEFINE r == Replicas(u, n)
            m == IF n > MaxReplicas THEN MaxReplicas ELSE n
            One(i) == IF u.state = <<>> THEN u ELSE Marked(u, (u.state[1] + i) % 256)
<1>1. m \in Nat /\ m <= MaxReplicas
  BY UnitsAssumption
<1>2. r = [i \in 1 .. m |-> One(i)]
  BY DEF Replicas
<1>3. u.state \in Seq(Byte) /\ Len(u.state) <= MaxState /\ u.fuel \in Word /\ "state" \in DOMAIN u /\ "fuel" \in DOMAIN u
  BY DEF Reads, IsFile
<1>4. ASSUME NEW i \in 1 .. m  PROVE Len(One(i).state) <= MaxState /\ One(i).fuel \in Word
  <2>1. CASE u.state = <<>>
    BY <1>3, <2>1
  <2>2. CASE u.state # <<>>
    <3>1. One(i) = Marked(u, (u.state[1] + i) % 256)
      BY <2>2, Zenon
    <3>. HIDE DEF One
    <3>2. Len(One(i).state) = Len(u.state) /\ One(i).fuel = u.fuel
      BY <1>3, <2>2, <3>1, MarkedTyped
    <3>. QED  BY <1>3, <3>2
  <2>. QED  BY <2>1, <2>2
<1>. HIDE DEF m, r, One
<1>5. r = [i \in 1 .. m |-> r[i]] /\ \A i \in 1 .. m : r[i] = One(i)
  BY <1>2
<1>6. Len(r) = m
  BY <1>1, <1>5, Listed
<1>. QED  BY <1>1, <1>4, <1>5, <1>6 DEF r

LEMMA PopulationTypedStep ==
  ASSUME PopulationTyped, [PopulationNext]_population  PROVE PopulationTyped'
<1>1. MatrixInv' /\ MachineTypeOK'
  BY MatrixStep DEF PopulationTyped, MatrixInv
<1>2. /\ MachineTypeOK /\ UnitsTyped /\ MatrixInv /\ rounds \in Nat /\ step \in Nat
      /\ activity \in {"read", "replicate", "populate", "round", "run", "done"}
      /\ turn \in Nat /\ step \in 0 .. rounds /\ unique \in 0 .. Len(units)
  BY TypesOf DEF PopulationTyped, MatrixInv, Crew
<1>3. ASSUME UNCHANGED <<template, source, rounds, units, entries, step, unique>>, Rounds, Rounds', turn' \in Nat
      PROVE  PopulationTyped'
  <2>1. UnitsTyped'
    BY <1>2, <1>3, UnitsRest
  <2>2. PopulationTypes'
    BY <1>1, <1>2, <1>3, <2>1 DEF PopulationTypes, UnitsTyped, Rounds
  <2>. QED  BY <1>1, <1>2, <1>3, <2>2 DEF PopulationTyped, Rounds
<1>4. CASE UNCHANGED population \/ Finished
  <2>1. UNCHANGED <<activity, template, source, count, rounds, units, entries, turn, step, unique>>
    BY <1>4 DEF Finished, population, command, matrix
  <2>2. PopulationTypes'
    BY <1>1, <1>2, <2>1, UnitsRest DEF PopulationTypes, UnitsTyped
  <2>. QED  BY <1>1, <1>2, <2>1, <2>2 DEF PopulationTyped, Rounds, Reads
<1>5. CASE ReadFile
  <2>1. /\ activity = "read" /\ UNCHANGED <<source, count, rounds, units, entries, turn, step, unique>>
        /\ activity' = "done" \/ (activity' = "replicate" /\ template' = Deserialize(source.file, source.bytes))
    BY <1>5 DEF ReadFile, matrix
  <2>2. PICK u \in Written : source.file = Serialize(u)
    BY <2>1 DEF PopulationTyped
  <2>3. activity' = "replicate" => Reads(template', source.file)
    BY <2>1, <2>2, WrittenIsFile, Recovered
  <2>4. PopulationTypes'
    BY <1>1, <1>2, <2>1, UnitsRest DEF PopulationTypes, UnitsTyped
  <2>. QED  BY <1>1, <1>2, <2>1, <2>2, <2>3, <2>4 DEF PopulationTyped, Rounds, Reads
<1>6. CASE Replicate
  <2>1. /\ activity = "replicate" /\ activity' = "done" /\ UNCHANGED <<source, count, rounds, entries, turn, step, unique>>
        /\ units' = Replicas(template, count) \/ units' = <<>>
    BY <1>6 DEF Replicate, command
  <2>2. PICK u \in Written : source.file = Serialize(u)
    BY <2>1 DEF PopulationTyped
  <2>3. Reads(template, source.file) /\ IsFile(source.file) /\ count \in Nat
    BY <2>1, <2>2, WrittenIsFile DEF PopulationTyped, MatrixInv, Crew
  <2>4. /\ Len(units') \in Nat /\ Len(units') <= MaxReplicas
        /\ \A i \in 1 .. Len(units') : Len(units'[i].state) <= MaxState /\ units'[i].fuel \in Word
    <3>1. CASE units' = Replicas(template, count)
      BY <2>3, <3>1, ReplicasTyped
    <3>2. CASE units' = <<>>
      <4>1. Len(units') = 0
        BY <3>2
      <4>. QED  BY <4>1, UnitsAssumption
    <3>. QED  BY <2>1, <3>1, <3>2
  <2>5. entries' = <<>> /\ Len(entries') = 0 /\ unique' = 0
    BY <2>1 DEF PopulationTyped
  <2>6. PopulationTypes'
    BY <1>1, <1>2, <2>1, <2>4, <2>5 DEF PopulationTypes
  <2>. QED  BY <1>1, <1>2, <2>1, <2>6 DEF PopulationTyped, Rounds
<1>7. CASE Populate
  <2>1. /\ activity = "populate" /\ UNCHANGED <<rounds, turn, step, unique>>
        /\ activity' = IF rounds = 0 THEN "done" ELSE "round"
    BY <1>7 DEF Populate, command
  <2>2. Listing' /\ AllKin' /\ Len(units') <= MaxPopulation
    BY <1>2, <1>7, PopulateKeeps
  <2>3. UnitsTyped' /\ Len(units') \in Nat
    BY <2>2, KinAreTyped DEF Listing
  <2>4. step' = 0 /\ unique' = 0 /\ turn' = 1
    BY <2>1 DEF PopulationTyped
  <2>5. PopulationTypes'
    BY <1>1, <1>2, <2>1, <2>3, <2>4 DEF PopulationTypes, UnitsTyped
  <2>. QED  BY <1>1, <1>2, <2>1, <2>2, <2>4, <2>5 DEF PopulationTyped, Rounds
<1>8. CASE Skip \/ ExecuteUnit \/ RunUnit
  <2>1. /\ UNCHANGED <<template, source, rounds, units, entries, step, unique>> /\ Rounds /\ Rounds'
        /\ turn' = turn \/ turn' = turn + 1
    BY <1>8 DEF Skip, ExecuteUnit, RunUnit, InRound, command, matrix, Rounds
  <2>. QED  BY <1>2, <1>3, <2>1
<1>9. CASE RefuseUnit \/ Die \/ Survive
  <2>1. /\ UNCHANGED <<source, rounds, step, unique>> /\ Rounds /\ activity' = "round" /\ turn' = turn + 1
        /\ Survive \/ units' = units
    BY <1>9 DEF RefuseUnit, Die, Survive, Bury, InRound, command, Rounds
  <2>2. Len(units') = Len(units)
    BY <1>2, <2>1, SurviveKeeps
  <2>3. Listing' /\ AllKin' /\ Len(units') <= MaxPopulation
    BY <1>1, <2>1, <2>2 DEF PopulationTyped, MatrixInv, Crew, Rounds
  <2>4. UnitsTyped'
    BY <2>3, KinAreTyped
  <2>5. PopulationTypes'
    BY <1>1, <1>2, <2>1, <2>2, <2>4 DEF PopulationTypes, UnitsTyped
  <2>. QED  BY <1>1, <1>2, <2>1, <2>3, <2>5 DEF PopulationTyped, Rounds
<1>10. CASE EndRound
  <2>1. /\ UNCHANGED <<source, rounds, units, entries>> /\ activity = "round"
        /\ unique' = UniqueStates /\ step' = step + 1 /\ turn' = 1
        /\ activity' = "done" \/ (activity' = "round" /\ step + 1 # rounds)
    BY <1>10 DEF EndRound, command
  <2>2. UniqueStates \in Nat /\ UniqueStates <= Len(units)
    BY <1>2, <1>10, Counted
  <2>3. step < rounds /\ Len(units) <= MaxPopulation
    BY <2>1 DEF PopulationTyped, Rounds
  <2>4. UnitsTyped'
    BY <1>2, <2>1, UnitsRest
  <2>5. step' \in 0 .. rounds /\ (activity' = "round" => step' < rounds)
    BY <1>2, <2>1, <2>3
  <2>6. unique' \in 0 .. Len(units)
    <3>1. Len(units) \in Nat
      BY <1>2, <2>1 DEF MatrixInv, Crew, Rounds, Listing
    <3>. QED  BY <2>1, <2>2, <3>1
  <2>7. PopulationTypes'
    BY <1>1, <1>2, <2>1, <2>4, <2>5, <2>6 DEF PopulationTypes, UnitsTyped
  <2>. QED  BY <1>1, <1>2, <2>1, <2>3, <2>5, <2>7 DEF PopulationTyped, Rounds
<1>. QED  BY <1>4, <1>5, <1>6, <1>7, <1>8, <1>9, <1>10 DEF PopulationNext

\* Every unit and entry of the matrix and every replica has its types, no
\* array outgrows its bound, and an entry's hash is always that of its unit
\* (matrix.c, replicator.c).
THEOREM PopulationTypesHold == PopulationSpec => []PopulationTypes
<1>1. PopulationTyped => PopulationTypes
  BY DEF PopulationTyped
<1>. QED  BY <1>1, PopulationTypedInit, PopulationTypedStep, PTL DEF PopulationSpec

\* A section of a file that is not read as it was written is empty in the unit
\* and announced by its flags (eiu_deserialize, eiu.c).
THEOREM LossesShow == PopulationSpec => []LostSectionsAreFlagged
<1>1. PopulationTyped => LostSectionsAreFlagged
  <2>. SUFFICES ASSUME PopulationTyped, activity = "replicate", NEW n \in 1 .. Len(source.file.sections)
                PROVE  LET section == source.file.sections[n] IN
                       \/ template[section.tag] = section.body
                       \/ template[section.tag] = EmptyUnit[section.tag] /\ section.tag \in template.flags
    BY DEF LostSectionsAreFlagged
  <2>1. PICK u \in Written : source.file = Serialize(u)
    BY DEF PopulationTyped
  <2>2. Reads(template, source.file) /\ IsFile(source.file)
    BY <2>1, WrittenIsFile DEF PopulationTyped
  <2>. QED  BY <2>2 DEF Reads, IsFile
<1>. QED  BY <1>1, PopulationTypedInit, PopulationTypedStep, PTL DEF PopulationSpec
-----------------------------------------------------------------------------

(* The experiments. Their programs are straight: at pc the machine has     *)
(* done exactly the instructions before it, and its registers, memory and  *)
(* output are told by pc alone. What H1 has counted and what H2 has traced *)
(* follow by arithmetic.                                                   *)

\* A program of n instructions that read as words.
ReadsAs(program_, n, words) ==
  /\ program_ \in Seq(Byte) /\ Len(program_) = 2 * n
  /\ \A p \in Nat : p < n => InstrAt(program_, p) = words[p + 1]

\* The instructions of experiment_h1's unit, when its immediates are a and b,
\* and those of experiment_h2's.
SumProgram(a, b) == <<12288 + a, 12544 + b, 14852, 45568, 2048>>
CountProgram == <<8416, 63489, 10464, 45056, 2048>>

LEMMA OpCodes ==
  /\ OpCode("LDI") = 6 /\ OpCode("ADD") = 7 /\ OpCode("EMIT") = 22 /\ OpCode("HALT") = 1
  /\ OpCode("LOAD") = 4 /\ OpCode("ADDI") = 31 /\ OpCode("STORE") = 5
<1>1. Len(Opcodes) = 32 /\ 1 .. Len(Opcodes) = 1 .. 32
  BY DEF Opcodes
<1>2. (CHOOSE n \in 1 .. 32 : Opcodes[n] = "LDI") = 7
  BY DEF Opcodes
<1>3. (CHOOSE n \in 1 .. 32 : Opcodes[n] = "ADD") = 8
  BY DEF Opcodes
<1>4. (CHOOSE n \in 1 .. 32 : Opcodes[n] = "EMIT") = 23
  BY DEF Opcodes
<1>5. (CHOOSE n \in 1 .. 32 : Opcodes[n] = "HALT") = 2
  BY DEF Opcodes
<1>6. (CHOOSE n \in 1 .. 32 : Opcodes[n] = "LOAD") = 5
  BY DEF Opcodes
<1>7. (CHOOSE n \in 1 .. 32 : Opcodes[n] = "ADDI") = 32
  BY DEF Opcodes
<1>8. (CHOOSE n \in 1 .. 32 : Opcodes[n] = "STORE") = 6
  BY DEF Opcodes
<1>. QED  BY <1>1, <1>2, <1>3, <1>4, <1>5, <1>6, <1>7, <1>8 DEF OpCode

\* The two bytes of a word make the word again.
LEMMA WordBytes ==
  ASSUME NEW w \in Word
  PROVE  /\ Bytes(w) \in Seq(Byte) /\ Len(Bytes(w)) = 2
         /\ (Bytes(w)[1] * 256) + Bytes(w)[2] = w
<1>1. w \in Int /\ 0 <= w /\ w <= 65535
  BY WordRange
<1>. DEFINE high == w \div 256  low == w % 256
<1>2. /\ high \in Int /\ 0 <= high /\ high <= 255 /\ low \in Int /\ 0 <= low /\ low <= 255
      /\ (high * 256) + low = w
  BY <1>1
<1>3. high \in Byte /\ low \in Byte
  BY <1>2, ByteRange
<1>4. Bytes(w) = <<high, low>>
  BY DEF Bytes
<1>. HIDE DEF high, low
<1>. QED  BY <1>2, <1>3, <1>4

\* A word more at the end of a program.
LEMMA WordMore ==
  ASSUME NEW words, NEW s, NEW n \in Nat, NEW m, m = n + 1, ReadsAs(s, n, words),
         NEW w \in Word, words[m] = w
  PROVE  ReadsAs(s \o Bytes(w), m, words)
<1>. DEFINE t == Bytes(w)
<1>1. t \in Seq(Byte) /\ Len(t) = 2 /\ (t[1] * 256) + t[2] = w
  BY WordBytes
<1>2. s \in Seq(Byte) /\ Len(s) = 2 * n /\ \A p \in Nat : p < n => InstrAt(s, p) = words[p + 1]
  BY DEF ReadsAs
<1>. HIDE DEF t
<1>3. /\ s \o t \in Seq(Byte) /\ Len(s \o t) = Len(s) + Len(t)
      /\ \A i \in 1 .. Len(s) + Len(t) : (s \o t)[i] = IF i <= Len(s) THEN s[i] ELSE t[i - Len(s)]
  BY <1>1, <1>2, ConcatProperties, Zenon
<1>. DEFINE r == s \o t
<1>. HIDE DEF r
<1>4. r[2 * n + 1] = t[1] /\ r[2 * n + 2] = t[2]
  <2>1. 2 * n + 1 \in 1 .. Len(s) + Len(t) /\ 2 * n + 2 \in 1 .. Len(s) + Len(t)
    BY <1>1, <1>2
  <2>2. ~ (2 * n + 1 <= Len(s)) /\ ~ (2 * n + 2 <= Len(s))
        /\ 2 * n + 1 - Len(s) = 1 /\ 2 * n + 2 - Len(s) = 2
    BY <1>2
  <2>. QED  BY <1>3, <2>1, <2>2 DEF r
<1>5. ASSUME NEW p \in Nat, p < n  PROVE r[2 * p + 1] = s[2 * p + 1] /\ r[2 * p + 2] = s[2 * p + 2]
  <2>1. 2 * p + 1 \in 1 .. Len(s) + Len(t) /\ 2 * p + 2 \in 1 .. Len(s) + Len(t)
    BY <1>1, <1>2, <1>5
  <2>2. 2 * p + 1 <= Len(s) /\ 2 * p + 2 <= Len(s)
    BY <1>2, <1>5
  <2>. QED  BY <1>3, <2>1, <2>2 DEF r
<1>6. InstrAt(r, n) = words[n + 1]
  BY <1>1, <1>4 DEF InstrAt
<1>7. ASSUME NEW p \in Nat, p < m  PROVE InstrAt(r, p) = words[p + 1]
  <2>1. CASE p < n
    BY <1>2, <1>5, <2>1 DEF InstrAt
  <2>2. CASE ~ (p < n)
    <3>1. p = n
      BY <1>7, <2>2
    <3>. QED  BY <1>6, <3>1
  <2>. QED  BY <2>1, <2>2
<1>8. r \in Seq(Byte) /\ Len(r) = 2 * m
  BY <1>1, <1>2, <1>3 DEF r
<1>9. ReadsAs(r, m, words)
  BY <1>7, <1>8 DEF ReadsAs
<1>. QED  BY <1>9 DEF r, t

\* Five words, one after the other.
LEMMA InARow ==
  ASSUME NEW words, NEW a \in Word, NEW b \in Word, NEW c \in Word, NEW d \in Word, NEW e \in Word,
         words[1] = a, words[2] = b, words[3] = c, words[4] = d, words[5] = e
  PROVE  ReadsAs(Bytes(a) \o Bytes(b) \o Bytes(c) \o Bytes(d) \o Bytes(e), 5, words)
<1>. DEFINE s1 == Bytes(a)  s2 == s1 \o Bytes(b)  s3 == s2 \o Bytes(c)  s4 == s3 \o Bytes(d)
            s5 == s4 \o Bytes(e)
<1>0. 1 \in Nat /\ 2 \in Nat /\ 3 \in Nat /\ 4 \in Nat /\ 2 = 1 + 1 /\ 3 = 2 + 1 /\ 4 = 3 + 1 /\ 5 = 4 + 1
  OBVIOUS
<1>1. ReadsAs(s1, 1, words)
  <2>1. \A p \in Nat : p < 1 => p = 0
    OBVIOUS
  <2>. QED  BY <2>1, WordBytes DEF ReadsAs, InstrAt
<1>. HIDE DEF s1
<1>2. ReadsAs(s2, 2, words)
  BY <1>0, <1>1, WordMore, Zenon
<1>. HIDE DEF s2
<1>3. ReadsAs(s3, 3, words)
  BY <1>0, <1>2, WordMore, Zenon
<1>. HIDE DEF s3
<1>4. ReadsAs(s4, 4, words)
  BY <1>0, <1>3, WordMore, Zenon
<1>. HIDE DEF s4
<1>5. ReadsAs(s5, 5, words)
  BY <1>0, <1>4, WordMore, Zenon
<1>. QED  BY <1>5 DEF s1, s2, s3, s4, s5

LEMMA SumCode ==
  ASSUME NEW i \in 0 .. 255
  PROVE  ReadsAs(Generated(i).code, 5, SumProgram(i, (3 * i + 7) % 256))
<1>1. i % 256 = i /\ ((3 * i + 7) % 256) \in 0 .. 255
  OBVIOUS
<1>. DEFINE m == (3 * i + 7) % 256
<1>2. EncodeImmediate("LDI", 0, i) = Bytes(12288 + i)
  BY <1>1, OpCodes DEF EncodeImmediate
<1>3. EncodeImmediate("LDI", 1, 3 * i + 7) = Bytes(12544 + m)
  BY <1>1, OpCodes DEF EncodeImmediate
<1>. HIDE DEF m
<1>4. Encode("ADD", 2, 0, 1) = Bytes(14852) /\ Encode("EMIT", 2, 0, 0) = Bytes(45568)
  BY OpCodes DEF Encode
<1>5. EncodeJump("HALT", 0) = Bytes(2048)
  BY OpCodes DEF EncodeJump
<1>6. Generated(i).code = Bytes(12288 + i) \o Bytes(12544 + m) \o Bytes(14852) \o Bytes(45568) \o Bytes(2048)
  BY <1>2, <1>3, <1>4, <1>5 DEF Generated
<1>. DEFINE words == SumProgram(i, m)  a == 12288 + i  b == 12544 + m  c == 14852  d == 45568  e == 2048
<1>7. words[1] = a /\ words[2] = b /\ words[3] = c /\ words[4] = d /\ words[5] = e
  BY DEF SumProgram
<1>8. Generated(i).code = Bytes(a) \o Bytes(b) \o Bytes(c) \o Bytes(d) \o Bytes(e)
  BY <1>6
<1>9. a \in Word /\ b \in Word /\ c \in Word /\ d \in Word /\ e \in Word
  BY <1>1, WordRange DEF m
<1>. HIDE DEF words, a, b, c, d, e
<1>10. ReadsAs(Generated(i).code, 5, words)
  BY <1>7, <1>8, <1>9, InARow
<1>. QED  BY <1>10 DEF words, m

LEMMA CountCode == ReadsAs(CountingUnit.code, 5, CountProgram)
<1>1. Encode("LOAD", 0, 7, 0) = Bytes(8416) /\ Encode("STORE", 0, 7, 0) = Bytes(10464)
      /\ Encode("EMIT", 0, 0, 0) = Bytes(45056)
  BY OpCodes DEF Encode
<1>2. EncodeImmediate("ADDI", 0, 1) = Bytes(63489)
  BY OpCodes DEF EncodeImmediate
<1>3. EncodeJump("HALT", 0) = Bytes(2048)
  BY OpCodes DEF EncodeJump
<1>4. CountingUnit.code = Bytes(8416) \o Bytes(63489) \o Bytes(10464) \o Bytes(45056) \o Bytes(2048)
  BY <1>1, <1>2, <1>3 DEF CountingUnit
<1>. DEFINE words == CountProgram  a == 8416  b == 63489  c == 10464  d == 45056  e == 2048
<1>5. words[1] = a /\ words[2] = b /\ words[3] = c /\ words[4] = d /\ words[5] = e
  BY DEF CountProgram
<1>6. CountingUnit.code = Bytes(a) \o Bytes(b) \o Bytes(c) \o Bytes(d) \o Bytes(e)
  BY <1>4
<1>7. a \in Word /\ b \in Word /\ c \in Word /\ d \in Word /\ e \in Word
  BY WordRange
<1>. HIDE DEF words, a, b, c, d, e
<1>8. ReadsAs(CountingUnit.code, 5, words)
  <2>1. ReadsAs(Bytes(a) \o Bytes(b) \o Bytes(c) \o Bytes(d) \o Bytes(e), 5, words)
    BY <1>5, <1>7, InARow, Zenon
  <2>. QED  BY <1>6, <2>1, Zenon
<1>. QED  BY <1>8 DEF words

-----------------------------------------------------------------------------
\* An instruction of a straight program: within its fuel and its code, the
\* machine does what After says and moves on.
LEMMA StraightStep ==
  ASSUME NEW words, NEW budget \in Nat, MachineStep, status = "running",
         ReadsAs(code, 5, words), pc \in 0 .. 4, budget >= 5, fuel = budget - pc
  PROVE  /\ InstrAt(code, pc) = words[pc + 1]
         /\ Fetches(Machine)
         /\ code' = code
         /\ regs' = RegsAfter(Machine) /\ memory' = MemoryAfter(Machine)
         /\ output' = OutputAfter(Machine) /\ pc' = PcAfter(Machine)
         /\ status' = StatusAfter(Machine)
         /\ fuel' = budget - (pc + 1)
<1>1. code \in Seq(Byte) /\ Len(code) = 10 /\ \A p \in Nat : p < 5 => InstrAt(code, p) = words[p + 1]
  BY DEF ReadsAs
<1>2. pc \in Nat /\ fuel \in Nat /\ fuel # 0 /\ fuel - 1 = budget - (pc + 1) /\ pc < 5 /\ ~ (pc * 2 + 1 >= 10)
  OBVIOUS
<1>3. Acts
  BY <1>1, <1>2, NothingFetched, SmallStep, DataStep, FlowStep DEF MachineStep, Countable
<1>4. Fetches(Machine)
  BY <1>1, <1>2, MachineFields DEF Fetches
<1>. QED  BY <1>1, <1>2, <1>3, <1>4 DEF Acts, program

\* What instructions do that do not jump, call or fail.
LEMMA StraightEffect ==
  ASSUME Fetches(Machine), ErrorOf(Machine) = "none",
         Op \notin {"JMP", "JZ", "JNZ", "JGT", "CALL", "RET"}
  PROVE  /\ PcAfter(Machine) = pc + 1
         /\ StatusAfter(Machine) = IF Op = "HALT" THEN "halted" ELSE "running"
         /\ Op \in {"LDI", "ADD", "ADDI"} => RegsAfter(Machine) = [regs EXCEPT ![A] = Result]
         /\ Op = "LOAD" => RegsAfter(Machine) = [regs EXCEPT ![A] = memory[regs[B]]]
         /\ Op \notin Assigning \cup {"POP", "LOAD", "SELF"} => RegsAfter(Machine) = regs
         /\ Op = "STORE" => MemoryAfter(Machine) = [memory EXCEPT ![regs[B]] = regs[A] % 256]
         /\ Op \notin {"STORE", "BFLIP"} => MemoryAfter(Machine) = memory
         /\ Op = "EMIT" /\ Len(output) < OutSlots => OutputAfter(Machine) = Append(output, regs[A])
         /\ Op # "EMIT" => OutputAfter(Machine) = output
<1>1. \A ops : Does(Machine, ops) <=> Op \in ops
  BY DecodedAlike, Zenon DEF Does
<1>. USE <1>1, MachineFields, DecodedAlike, ComputedAlike
<1>2. PcAfter(Machine) = pc + 1
  BY Zenon DEF PcAfter
<1>3. Machine.fuel # 0
  BY DEF Fetches
<1>4. StatusAfter(Machine) = IF Op = "HALT" THEN "halted" ELSE "running"
  BY <1>3, Zenon DEF StatusAfter
<1>5. Op \in {"LDI", "ADD", "ADDI"} => RegsAfter(Machine) = [regs EXCEPT ![A] = Result]
  BY DEF RegsAfter, Assigning
<1>6. Op = "LOAD" => RegsAfter(Machine) = [regs EXCEPT ![A] = memory[regs[B]]]
  BY DEF RegsAfter, Assigning
<1>7. Op \notin Assigning \cup {"POP", "LOAD", "SELF"} => RegsAfter(Machine) = regs
  BY DEF RegsAfter
<1>8. Op = "STORE" => MemoryAfter(Machine) = [memory EXCEPT ![regs[B]] = regs[A] % 256]
  BY DEF MemoryAfter
<1>9. Op \notin {"STORE", "BFLIP"} => MemoryAfter(Machine) = memory
  BY DEF MemoryAfter
<1>10. Op = "EMIT" /\ Len(output) < OutSlots => OutputAfter(Machine) = Append(output, regs[A])
  BY DEF OutputAfter
<1>11. Op # "EMIT" => OutputAfter(Machine) = output
  BY DEF OutputAfter
<1>. QED  BY <1>2, <1>4, <1>5, <1>6, <1>7, <1>8, <1>9, <1>10, <1>11

\* The instructions of the two programs, decoded.
LEMMA SumFields ==
  ASSUME NEW a \in Byte, NEW b \in Byte, pc \in 0 .. 4,
         InstrAt(code, pc) = SumProgram(a, b)[pc + 1]
  PROVE  /\ pc = 0 => Op = "LDI" /\ A = 0 /\ Imm = a
         /\ pc = 1 => Op = "LDI" /\ A = 1 /\ Imm = b
         /\ pc = 2 => Op = "ADD" /\ A = 2 /\ B = 0 /\ C = 1
         /\ pc = 3 => Op = "EMIT" /\ A = 2
         /\ pc = 4 => Op = "HALT"
<1>1. a \in Int /\ 0 <= a /\ a <= 255 /\ b \in Int /\ 0 <= b /\ b <= 255
  BY ByteRange
<1>. DEFINE w == InstrAt(code, pc)
<1>2. Op = Opcodes[((w \div 2048) % 32) + 1] /\ A = (w \div 256) % 8 /\ B = (w \div 32) % 8
      /\ C = (w \div 4) % 8 /\ Imm = w % 256
  BY DEF Op, OpAt, A, B, C, Imm
<1>3. w = SumProgram(a, b)[pc + 1]
  OBVIOUS
<1>. HIDE DEF w
<1>4. ASSUME pc = 0  PROVE Op = "LDI" /\ A = 0 /\ Imm = a
  <2>1. w = 12288 + a
    BY <1>3, <1>4 DEF SumProgram
  <2>2. ((w \div 2048) % 32) + 1 = 7 /\ (w \div 256) % 8 = 0 /\ w % 256 = a
    BY <1>1, <2>1
  <2>. QED  BY <1>2, <2>2 DEF Opcodes
<1>5. ASSUME pc = 1  PROVE Op = "LDI" /\ A = 1 /\ Imm = b
  <2>1. w = 12544 + b
    BY <1>3, <1>5 DEF SumProgram
  <2>2. ((w \div 2048) % 32) + 1 = 7 /\ (w \div 256) % 8 = 1 /\ w % 256 = b
    BY <1>1, <2>1
  <2>. QED  BY <1>2, <2>2 DEF Opcodes
<1>6. ASSUME pc = 2  PROVE Op = "ADD" /\ A = 2 /\ B = 0 /\ C = 1
  <2>1. w = 14852
    BY <1>3, <1>6 DEF SumProgram
  <2>2. ((w \div 2048) % 32) + 1 = 8 /\ (w \div 256) % 8 = 2 /\ (w \div 32) % 8 = 0 /\ (w \div 4) % 8 = 1
    BY <2>1
  <2>. QED  BY <1>2, <2>2 DEF Opcodes
<1>7. ASSUME pc = 3  PROVE Op = "EMIT" /\ A = 2
  <2>1. w = 45568
    BY <1>3, <1>7 DEF SumProgram
  <2>2. ((w \div 2048) % 32) + 1 = 23 /\ (w \div 256) % 8 = 2
    BY <2>1
  <2>. QED  BY <1>2, <2>2 DEF Opcodes
<1>8. ASSUME pc = 4  PROVE Op = "HALT"
  <2>1. w = 2048
    BY <1>3, <1>8 DEF SumProgram
  <2>2. ((w \div 2048) % 32) + 1 = 2
    BY <2>1
  <2>. QED  BY <1>2, <2>2 DEF Opcodes
<1>. QED  BY <1>4, <1>5, <1>6, <1>7, <1>8

LEMMA CountFields ==
  ASSUME pc \in 0 .. 4, InstrAt(code, pc) = CountProgram[pc + 1]
  PROVE  /\ pc = 0 => Op = "LOAD" /\ A = 0 /\ B = 7
         /\ pc = 1 => Op = "ADDI" /\ A = 0 /\ Imm = 1
         /\ pc = 2 => Op = "STORE" /\ A = 0 /\ B = 7
         /\ pc = 3 => Op = "EMIT"
         /\ pc = 4 => Op = "HALT"
<1>. DEFINE w == InstrAt(code, pc)
<1>1. Op = Opcodes[((w \div 2048) % 32) + 1] /\ A = (w \div 256) % 8 /\ B = (w \div 32) % 8
      /\ Imm = w % 256
  BY DEF Op, OpAt, A, B, Imm
<1>2. w = CountProgram[pc + 1]
  OBVIOUS
<1>. HIDE DEF w
<1>3. ASSUME pc = 0  PROVE Op = "LOAD" /\ A = 0 /\ B = 7
  <2>1. w = 8416
    BY <1>2, <1>3 DEF CountProgram
  <2>2. ((w \div 2048) % 32) + 1 = 5 /\ (w \div 256) % 8 = 0 /\ (w \div 32) % 8 = 7
    BY <2>1
  <2>. QED  BY <1>1, <2>2 DEF Opcodes
<1>4. ASSUME pc = 1  PROVE Op = "ADDI" /\ A = 0 /\ Imm = 1
  <2>1. w = 63489
    BY <1>2, <1>4 DEF CountProgram
  <2>2. ((w \div 2048) % 32) + 1 = 32 /\ (w \div 256) % 8 = 0 /\ w % 256 = 1
    BY <2>1
  <2>. QED  BY <1>1, <2>2 DEF Opcodes
<1>5. ASSUME pc = 2  PROVE Op = "STORE" /\ A = 0 /\ B = 7
  <2>1. w = 10464
    BY <1>2, <1>5 DEF CountProgram
  <2>2. ((w \div 2048) % 32) + 1 = 6 /\ (w \div 256) % 8 = 0 /\ (w \div 32) % 8 = 7
    BY <2>1
  <2>. QED  BY <1>1, <2>2 DEF Opcodes
<1>6. ASSUME pc = 3  PROVE Op = "EMIT"
  <2>1. w = 45056
    BY <1>2, <1>6 DEF CountProgram
  <2>2. ((w \div 2048) % 32) + 1 = 23
    BY <2>1
  <2>. QED  BY <1>1, <2>2 DEF Opcodes
<1>7. ASSUME pc = 4  PROVE Op = "HALT"
  <2>1. w = 2048
    BY <1>2, <1>7 DEF CountProgram
  <2>2. ((w \div 2048) % 32) + 1 = 2
    BY <2>1
  <2>. QED  BY <1>1, <2>2 DEF Opcodes
<1>. QED  BY <1>3, <1>4, <1>5, <1>6, <1>7

-----------------------------------------------------------------------------
\* What unit i of H1 puts out, and its registers after the first n instructions.
Mixed(i) == (3 * i + 7) % 256
SumOf(i) == i + Mixed(i)
SumRegs(i, n) ==
  [r \in Regs |-> IF r = 0 /\ n >= 1 THEN i ELSE IF r = 1 /\ n >= 2 THEN Mixed(i)
                  ELSE IF r = 2 /\ n >= 3 THEN SumOf(i) ELSE 0]

\* The machine is executing unit i of H1, or has just done so.
Summing(i) ==
  /\ code = Generated(i).code /\ pc \in 0 .. 5
  /\ fuel = Budget(Generated(i)) - pc
  /\ regs = SumRegs(i, pc)
  /\ output = IF pc >= 4 THEN <<SumOf(i)>> ELSE <<>>
  /\ status = IF pc = 5 THEN "halted" ELSE "running"

\* What the constants are assumed to have room for.
LEMMA Room ==
  /\ FuelLimit \in Nat /\ FuelLimit >= 5 /\ OutSlots \in Nat /\ OutSlots >= 1
  /\ MaxCode \in Nat /\ MaxCode >= 2 /\ MaxState \in Nat /\ MaxState >= 4
  /\ MaxReplicas \in Nat /\ MaxReplicas >= 2
  /\ MaxTrace \in Nat /\ MaxTrace <= 256 /\ StateSize \in Nat /\ StateSize >= 1 /\ StateSize <= MemSize
  /\ MemSize \in Nat
<1>1. FuelLimit \in Nat
  BY EnvironmentAssumption, WordRange
<1>2. OutSlots \in Nat /\ MemSize \in Nat
  BY MachineAssumption
<1>3. FuelLimit >= 5 /\ OutSlots >= 1 /\ MaxCode >= 2 /\ MaxState >= 4 /\ MaxReplicas >= 2 /\ MaxTrace <= 256
  BY ExperimentsAssumption
<1>4. MaxCode \in Nat /\ MaxState \in Nat /\ MaxReplicas \in Nat
  BY UnitsAssumption
<1>5. MaxTrace \in Nat /\ StateSize \in 1 .. MemSize
  BY EvolutionAssumption, Zenon
<1>. QED  BY <1>1, <1>2, <1>3, <1>4, <1>5

LEMMA Budgets ==
  /\ \A i : Budget(Generated(i)) \in Nat /\ Budget(Generated(i)) >= 5
  /\ Budget(CountingUnit) \in Nat /\ Budget(CountingUnit) >= 5
<1>1. FuelLimit \in Nat /\ FuelLimit >= 5
  BY Room
<1>2. (\A i : Generated(i).fuel = 200) /\ CountingUnit.fuel = 100
  BY DEF Generated, CountingUnit
<1>. QED  BY <1>1, <1>2 DEF Budget

LEMMA MixedType == \A i \in Nat : Mixed(i) \in Byte /\ Mixed(i) \in 0 .. 255
<1>1. \A i \in Nat : Mixed(i) \in Int /\ 0 <= Mixed(i) /\ Mixed(i) <= 255
  BY DEF Mixed
<1>2. \A i \in Nat : Mixed(i) \in Byte
  BY <1>1, ByteRange, Zenon
<1>3. ASSUME NEW i \in Nat  PROVE Mixed(i) \in 0 .. 255
  <2>. DEFINE m == Mixed(i)
  <2>1. m \in Int /\ 0 <= m /\ m <= 255
    BY <1>1, Zenon
  <2>. HIDE DEF m
  <2>2. m \in 0 .. 255
    BY <2>1
  <2>. QED  BY <2>2 DEF m
<1>. QED  BY <1>2, <1>3, Zenon

LEMMA SummingLoads ==
  ASSUME NEW i \in 0 .. 255, LoadUnit(Generated(i))
  PROVE  Summing(i)'
<1>1. code' = Generated(i).code /\ fuel' = Budget(Generated(i)) /\ regs' = [r \in Regs |-> 0]
      /\ output' = <<>> /\ pc' = 0 /\ status' = "running"
  BY DEF LoadUnit, Load
<1>2. SumRegs(i, 0) = [r \in Regs |-> 0]
  BY DEF SumRegs
<1>3. Budget(Generated(i)) - 0 = Budget(Generated(i))
  BY Budgets
<1>. QED  BY <1>1, <1>2, <1>3 DEF Summing

\* What is assigned next.
LEMMA SumAssigns ==
  ASSUME NEW i \in 0 .. 255
  PROVE  /\ [SumRegs(i, 0) EXCEPT ![0] = i] = SumRegs(i, 1)
         /\ [SumRegs(i, 1) EXCEPT ![1] = Mixed(i)] = SumRegs(i, 2)
         /\ [SumRegs(i, 2) EXCEPT ![2] = SumOf(i)] = SumRegs(i, 3)
         /\ SumRegs(i, 3) = SumRegs(i, 4) /\ SumRegs(i, 4) = SumRegs(i, 5)
         /\ SumRegs(i, 2)[0] = i /\ SumRegs(i, 2)[1] = Mixed(i) /\ SumRegs(i, 3)[2] = SumOf(i)
<1>. DEFINE m == Mixed(i)  s == SumOf(i)
            R0 == [r \in Regs |-> 0]
            R1 == [r \in Regs |-> IF r = 0 THEN i ELSE 0]
            R2 == [r \in Regs |-> IF r = 0 THEN i ELSE IF r = 1 THEN m ELSE 0]
            R3 == [r \in Regs |-> IF r = 0 THEN i ELSE IF r = 1 THEN m ELSE IF r = 2 THEN s ELSE 0]
<1>1. SumRegs(i, 0) = R0 /\ SumRegs(i, 1) = R1 /\ SumRegs(i, 2) = R2
      /\ SumRegs(i, 3) = R3 /\ SumRegs(i, 4) = R3 /\ SumRegs(i, 5) = R3
  BY DEF SumRegs
<1>. HIDE DEF m, s
<1>2. 0 \in Regs /\ 1 \in Regs /\ 2 \in Regs /\ 0 # 1 /\ 0 # 2 /\ 1 # 2
  BY DEF Regs
<1>3. [R0 EXCEPT ![0] = i] = R1
  BY <1>2, Zenon
<1>4. [R1 EXCEPT ![1] = m] = R2
  BY <1>2, Zenon
<1>5. [R2 EXCEPT ![2] = s] = R3
  BY <1>2, Zenon
<1>6. R2[0] = i /\ R2[1] = m /\ R3[2] = s
  BY <1>2, Zenon
<1>. HIDE DEF R0, R1, R2, R3
<1>. QED  BY <1>1, <1>3, <1>4, <1>5, <1>6, Zenon DEF m, s

LEMMA SumError ==
  ASSUME Op \in {"LDI", "ADD", "ADDI", "EMIT", "HALT"}
  PROVE  ErrorOf(Machine) = "none"
BY DecodedAlike DEF ErrorOf

LEMMA SummingStep ==
  ASSUME NEW i \in 0 .. 255, Summing(i), MachineStep
  PROVE  Summing(i)' /\ pc' = pc + 1
<1>. DEFINE budget == Budget(Generated(i))
<1>1. budget \in Nat /\ budget >= 5 /\ i \in Nat /\ i \in Byte /\ Mixed(i) \in Byte /\ Mixed(i) \in 0 .. 255
  BY Budgets, MixedType, ByteRange
<1>. HIDE DEF budget
<1>2. /\ code = Generated(i).code /\ pc \in 0 .. 5 /\ fuel = budget - pc /\ regs = SumRegs(i, pc)
      /\ output = IF pc >= 4 THEN <<SumOf(i)>> ELSE <<>>
      /\ status = IF pc = 5 THEN "halted" ELSE "running"
  BY DEF Summing, budget
<1>3. ReadsAs(code, 5, SumProgram(i, Mixed(i)))
  BY <1>2, SumCode DEF Mixed
<1>4. status = "running"
  <2>1. Countable
    BY <1>1, <1>2, <1>3 DEF Countable, ReadsAs
  <2>. QED  BY <2>1, StepIsAFunction
<1>5. pc \in 0 .. 4
  BY <1>2, <1>4
<1>6. /\ InstrAt(code, pc) = SumProgram(i, Mixed(i))[pc + 1]
      /\ Fetches(Machine) /\ code' = code
      /\ regs' = RegsAfter(Machine) /\ output' = OutputAfter(Machine) /\ pc' = PcAfter(Machine)
      /\ status' = StatusAfter(Machine) /\ fuel' = budget - (pc + 1)
  BY <1>1, <1>2, <1>3, <1>4, <1>5, StraightStep
<1>7. /\ pc = 0 => Op = "LDI" /\ A = 0 /\ Imm = i
      /\ pc = 1 => Op = "LDI" /\ A = 1 /\ Imm = Mixed(i)
      /\ pc = 2 => Op = "ADD" /\ A = 2 /\ B = 0 /\ C = 1
      /\ pc = 3 => Op = "EMIT" /\ A = 2
      /\ pc = 4 => Op = "HALT"
  BY <1>1, <1>5, <1>6, SumFields
<1>8. pc = 0 \/ pc = 1 \/ pc = 2 \/ pc = 3 \/ pc = 4
  BY <1>5
<1>9. Op \in {"LDI", "ADD", "EMIT", "HALT"}
  BY <1>7, <1>8
<1>10. /\ pc' = pc + 1
       /\ status' = IF Op = "HALT" THEN "halted" ELSE "running"
       /\ Op \in {"LDI", "ADD"} => regs' = [regs EXCEPT ![A] = Result]
       /\ Op \in {"EMIT", "HALT"} => regs' = regs
       /\ Op = "EMIT" /\ Len(output) < OutSlots => output' = Append(output, regs[A])
       /\ Op # "EMIT" => output' = output
  BY <1>6, <1>9, SumError, StraightEffect, Zenon DEF Assigning
<1>11. Op = "LDI" => Result = Imm
  BY DEF Result
<1>12. Op = "ADD" => Result = (regs[B] + regs[C]) % 65536
  BY Powers DEF Result
<1>13. code' = Generated(i).code /\ fuel' = budget - pc' /\ pc' \in 0 .. 5
       /\ status' = IF pc' = 5 THEN "halted" ELSE "running"
  BY <1>2, <1>6, <1>7, <1>8, <1>10
<1>14. regs' = SumRegs(i, pc')
  <2>1. CASE pc = 0
    <3>1. pc' = 1
      BY <1>10, <2>1
    <3>2. Op = "LDI" /\ A = 0 /\ Result = i
      BY <1>7, <1>11, <2>1
    <3>3. regs' = [regs EXCEPT ![0] = i]
      BY <1>10, <3>2
    <3>. QED  BY <1>2, <2>1, <3>1, <3>3, SumAssigns, Zenon
  <2>2. CASE pc = 1
    <3>1. pc' = 2
      BY <1>10, <2>2
    <3>2. Op = "LDI" /\ A = 1 /\ Result = Mixed(i)
      BY <1>7, <1>11, <2>2
    <3>3. regs' = [regs EXCEPT ![1] = Mixed(i)]
      BY <1>10, <3>2
    <3>. QED  BY <1>2, <2>2, <3>1, <3>3, SumAssigns, Zenon
  <2>3. CASE pc = 2
    <3>1. pc' = 3
      BY <1>10, <2>3
    <3>2. regs[0] = i /\ regs[1] = Mixed(i)
      BY <1>2, <2>3, SumAssigns
    <3>3. (i + Mixed(i)) % 65536 = SumOf(i)
      <4>. DEFINE m == Mixed(i)
      <4>1. m \in Int /\ 0 <= m /\ m <= 255 /\ SumOf(i) = i + m
        BY <1>1 DEF SumOf
      <4>. HIDE DEF m
      <4>2. (i + m) % 65536 = i + m
        BY <4>1
      <4>. QED  BY <4>1, <4>2 DEF m
    <3>4. Result = SumOf(i)
      <4>1. Op = "ADD" /\ B = 0 /\ C = 1
        BY <1>7, <2>3
      <4>2. Result = (regs[B] + regs[C]) % 65536
        BY <1>12, <4>1
      <4>3. regs[B] = i /\ regs[C] = Mixed(i)
        BY <3>2, <4>1, Zenon
      <4>. QED  BY <3>3, <4>2, <4>3
    <3>. QED  BY <1>2, <1>7, <1>10, <2>3, <3>1, <3>4, SumAssigns, Zenon
  <2>4. CASE pc = 3
    <3>1. pc' = 4
      BY <1>10, <2>4
    <3>. QED  BY <1>2, <1>7, <1>10, <2>4, <3>1, SumAssigns, Zenon
  <2>5. CASE pc = 4
    <3>1. pc' = 5
      BY <1>10, <2>5
    <3>. QED  BY <1>2, <1>7, <1>10, <2>5, <3>1, SumAssigns, Zenon
  <2>. QED  BY <1>8, <2>1, <2>2, <2>3, <2>4, <2>5
<1>15. output' = IF pc' >= 4 THEN <<SumOf(i)>> ELSE <<>>
  <2>1. CASE pc = 3
    <3>1. output = <<>> /\ pc' = 4
      BY <1>2, <1>10, <2>1
    <3>2. regs[A] = SumOf(i)
      BY <1>2, <1>7, <2>1, SumAssigns, Zenon
    <3>3. Len(output) < OutSlots
      BY <3>1, Room
    <3>4. output' = <<SumOf(i)>>
      BY <1>7, <1>10, <2>1, <3>1, <3>2, <3>3
    <3>. QED  BY <3>1, <3>4
  <2>2. CASE pc # 3
    BY <1>2, <1>7, <1>8, <1>10, <2>2
  <2>. QED  BY <2>1, <2>2
<1>16. Summing(i)'
  BY <1>13, <1>14, <1>15 DEF Summing, budget
<1>. QED  BY <1>10, <1>16

-----------------------------------------------------------------------------
\* Memory as the counter of H2 finds it after k executions, and its registers
\* after the first n instructions of the next.
TapeAt(k) == [c \in Cells |-> IF c = 0 THEN k % 256 ELSE Image(CountingUnit.code)[c]]
CountRegs(k, n) ==
  [r \in Regs |-> IF r = 0 /\ n >= 2 THEN (k % 256) + 1 ELSE IF r = 0 /\ n = 1 THEN k % 256 ELSE 0]

\* The unit of H2 after k executions.
IsCounter(u, k) ==
  /\ u.code = CountingUnit.code /\ u.fuel = CountingUnit.fuel /\ u.current
  /\ Overlaid(u) = TapeAt(k)

\* The machine is executing it, or has just done so.
Counting(k) ==
  /\ code = CountingUnit.code /\ pc \in 0 .. 5
  /\ fuel = Budget(CountingUnit) - pc
  /\ regs = CountRegs(k, pc)
  /\ memory = TapeAt(IF pc >= 3 THEN k + 1 ELSE k)
  /\ status = IF pc = 5 THEN "halted" ELSE "running"

LEMMA CountingLoads ==
  ASSUME NEW k \in Nat, NEW u, IsCounter(u, k), LoadUnit(u)
  PROVE  Counting(k)'
<1>1. /\ code' = u.code /\ fuel' = Budget(u) /\ regs' = [r \in Regs |-> 0]
      /\ memory' = Overlaid(u) /\ pc' = 0 /\ status' = "running"
  BY DEF LoadUnit, Load
<1>2. Budget(u) = Budget(CountingUnit)
  BY DEF IsCounter, Budget
<1>3. CountRegs(k, 0) = [r \in Regs |-> 0]
  BY DEF CountRegs
<1>4. Budget(CountingUnit) - 0 = Budget(CountingUnit)
  BY Budgets
<1>5. fuel' = Budget(CountingUnit) - pc'
  BY <1>1, <1>2, <1>4
<1>6. memory' = TapeAt(IF pc' >= 3 THEN k + 1 ELSE k)
  BY <1>1 DEF IsCounter
<1>. QED  BY <1>1, <1>3, <1>5, <1>6 DEF Counting, IsCounter

LEMMA CountAssigns ==
  ASSUME NEW k \in Nat
  PROVE  /\ [CountRegs(k, 0) EXCEPT ![0] = k % 256] = CountRegs(k, 1)
         /\ [CountRegs(k, 1) EXCEPT ![0] = (k % 256) + 1] = CountRegs(k, 2)
         /\ CountRegs(k, 2) = CountRegs(k, 3) /\ CountRegs(k, 3) = CountRegs(k, 4)
         /\ CountRegs(k, 4) = CountRegs(k, 5)
         /\ CountRegs(k, 0)[7] = 0 /\ CountRegs(k, 2)[7] = 0
         /\ CountRegs(k, 1)[0] = k % 256 /\ CountRegs(k, 2)[0] = (k % 256) + 1
<1>. DEFINE m == k % 256  s == (k % 256) + 1
            R0 == [r \in Regs |-> 0]
            R1 == [r \in Regs |-> IF r = 0 THEN m ELSE 0]
            R2 == [r \in Regs |-> IF r = 0 THEN s ELSE 0]
<1>1. CountRegs(k, 0) = R0 /\ CountRegs(k, 1) = R1 /\ CountRegs(k, 2) = R2
      /\ CountRegs(k, 3) = R2 /\ CountRegs(k, 4) = R2 /\ CountRegs(k, 5) = R2
  BY DEF CountRegs
<1>. HIDE DEF m, s
<1>2. 0 \in Regs /\ 7 \in Regs /\ 7 # 0
  BY DEF Regs
<1>3. [R0 EXCEPT ![0] = m] = R1
  BY <1>2, Zenon
<1>4. [R1 EXCEPT ![0] = s] = R2
  BY <1>2, Zenon
<1>5. R0[7] = 0 /\ R2[7] = 0 /\ R1[0] = m /\ R2[0] = s
  BY <1>2, Zenon
<1>. HIDE DEF R0, R1, R2
<1>. QED  BY <1>1, <1>3, <1>4, <1>5, Zenon DEF m, s

LEMMA TapeMoves ==
  ASSUME NEW k \in Nat
  PROVE  /\ 0 \in Cells /\ TapeAt(k)[0] = k % 256
         /\ [TapeAt(k) EXCEPT ![0] = ((k % 256) + 1) % 256] = TapeAt(k + 1)
<1>1. 0 \in Cells
  BY MachineAssumption DEF Cells
<1>2. ((k % 256) + 1) % 256 = (k + 1) % 256
  OBVIOUS
<1>. DEFINE m == k % 256  n == (k + 1) % 256
<1>3. TapeAt(k) = [c \in Cells |-> IF c = 0 THEN m ELSE Image(CountingUnit.code)[c]]
      /\ TapeAt(k + 1) = [c \in Cells |-> IF c = 0 THEN n ELSE Image(CountingUnit.code)[c]]
  BY Zenon DEF TapeAt
<1>. HIDE DEF m, n
<1>4. TapeAt(k)[0] = m /\ [TapeAt(k) EXCEPT ![0] = n] = TapeAt(k + 1)
  BY <1>1, <1>3, Zenon
<1>. QED  BY <1>1, <1>2, <1>4, Zenon DEF m, n

LEMMA CountError ==
  ASSUME Op \in {"LOAD", "ADDI", "STORE", "EMIT", "HALT"}, Op \in {"LOAD", "STORE"} => regs[B] = 0
  PROVE  ErrorOf(Machine) = "none"
<1>1. 0 \in Cells
  BY MachineAssumption DEF Cells
<1>2. Op \in {"LOAD", "STORE"} => regs[B] \in Cells
  BY <1>1
<1>. QED  BY <1>2, DecodedAlike, MachineFields DEF ErrorOf

LEMMA CountingStep ==
  ASSUME NEW k \in Nat, Counting(k), MachineStep
  PROVE  Counting(k)' /\ pc' = pc + 1
<1>. DEFINE budget == Budget(CountingUnit)
<1>1. budget \in Nat /\ budget >= 5
  BY Budgets
<1>. HIDE DEF budget
<1>2. /\ code = CountingUnit.code /\ pc \in 0 .. 5 /\ fuel = budget - pc /\ regs = CountRegs(k, pc)
      /\ memory = TapeAt(IF pc >= 3 THEN k + 1 ELSE k)
      /\ status = IF pc = 5 THEN "halted" ELSE "running"
  BY DEF Counting, budget
<1>3. ReadsAs(code, 5, CountProgram)
  BY <1>2, CountCode
<1>4. status = "running"
  <2>1. Countable
    BY <1>1, <1>2, <1>3 DEF Countable, ReadsAs
  <2>. QED  BY <2>1, StepIsAFunction
<1>5. pc \in 0 .. 4
  BY <1>2, <1>4
<1>6. /\ InstrAt(code, pc) = CountProgram[pc + 1]
      /\ Fetches(Machine) /\ code' = code
      /\ regs' = RegsAfter(Machine) /\ memory' = MemoryAfter(Machine) /\ pc' = PcAfter(Machine)
      /\ status' = StatusAfter(Machine) /\ fuel' = budget - (pc + 1)
  BY <1>1, <1>2, <1>3, <1>4, <1>5, StraightStep
<1>7. /\ pc = 0 => Op = "LOAD" /\ A = 0 /\ B = 7
      /\ pc = 1 => Op = "ADDI" /\ A = 0 /\ Imm = 1
      /\ pc = 2 => Op = "STORE" /\ A = 0 /\ B = 7
      /\ pc = 3 => Op = "EMIT"
      /\ pc = 4 => Op = "HALT"
  BY <1>5, <1>6, CountFields
<1>8. pc = 0 \/ pc = 1 \/ pc = 2 \/ pc = 3 \/ pc = 4
  BY <1>5
<1>9. Op \in {"LOAD", "ADDI", "STORE", "EMIT", "HALT"}
  BY <1>7, <1>8
<1>10. pc = 0 \/ pc = 2 => regs[B] = 0
  <2>1. CASE pc = 0
    BY <1>2, <1>7, <2>1, CountAssigns, Zenon
  <2>2. CASE pc = 2
    BY <1>2, <1>7, <2>2, CountAssigns, Zenon
  <2>. QED  BY <2>1, <2>2
<1>11. ErrorOf(Machine) = "none"
  BY <1>7, <1>8, <1>9, <1>10, CountError
<1>12. /\ pc' = pc + 1
       /\ status' = IF Op = "HALT" THEN "halted" ELSE "running"
       /\ Op = "ADDI" => regs' = [regs EXCEPT ![A] = Result]
       /\ Op = "LOAD" => regs' = [regs EXCEPT ![A] = memory[regs[B]]]
       /\ Op \in {"STORE", "EMIT", "HALT"} => regs' = regs
       /\ Op = "STORE" => memory' = [memory EXCEPT ![regs[B]] = regs[A] % 256]
       /\ Op # "STORE" => memory' = memory
  <2>1. Op \notin {"JMP", "JZ", "JNZ", "JGT", "CALL", "RET"} /\ Op # "BFLIP"
    BY <1>9
  <2>2. Op \in {"STORE", "EMIT", "HALT"} => Op \notin Assigning \cup {"POP", "LOAD", "SELF"}
    BY DEF Assigning
  <2>3. Op = "ADDI" => Op \in {"LDI", "ADD", "ADDI"}
    OBVIOUS
  <2>4. Op # "STORE" => Op \notin {"STORE", "BFLIP"}
    BY <2>1
  <2>. QED  BY <1>6, <1>11, <2>1, <2>2, <2>3, <2>4, StraightEffect
<1>13. Op = "ADDI" => Result = (regs[A] + Imm) % 65536
  BY Powers DEF Result
<1>14. code' = CountingUnit.code /\ fuel' = budget - pc' /\ pc' \in 0 .. 5
       /\ status' = IF pc' = 5 THEN "halted" ELSE "running"
  BY <1>2, <1>6, <1>7, <1>8, <1>12
<1>15. regs' = CountRegs(k, pc')
  <2>1. CASE pc = 0
    <3>1. pc' = 1 /\ memory = TapeAt(k)
      BY <1>2, <1>12, <2>1
    <3>2. Op = "LOAD" /\ A = 0 /\ regs[B] = 0
      BY <1>7, <1>10, <2>1
    <3>3. memory[regs[B]] = k % 256
      BY <3>1, <3>2, TapeMoves, Zenon
    <3>4. regs' = [regs EXCEPT ![0] = k % 256]
      BY <1>12, <3>2, <3>3, Zenon
    <3>. QED  BY <1>2, <2>1, <3>1, <3>4, CountAssigns, Zenon
  <2>2. CASE pc = 1
    <3>1. pc' = 2
      BY <1>12, <2>2
    <3>2. Op = "ADDI" /\ A = 0 /\ Imm = 1
      BY <1>7, <2>2
    <3>3. regs[A] = k % 256
      BY <1>2, <2>2, <3>2, CountAssigns, Zenon
    <3>4. ((k % 256) + 1) % 65536 = (k % 256) + 1
      OBVIOUS
    <3>5. Result = (k % 256) + 1
      BY <1>13, <3>2, <3>3, <3>4
    <3>6. regs' = [regs EXCEPT ![0] = (k % 256) + 1]
      BY <1>12, <3>2, <3>5, Zenon
    <3>. QED  BY <1>2, <2>2, <3>1, <3>6, CountAssigns, Zenon
  <2>3. CASE pc = 2
    <3>1. pc' = 3 /\ regs' = regs
      BY <1>7, <1>12, <2>3
    <3>. QED  BY <1>2, <2>3, <3>1, CountAssigns, Zenon
  <2>4. CASE pc = 3
    <3>1. pc' = 4 /\ regs' = regs
      BY <1>7, <1>12, <2>4
    <3>. QED  BY <1>2, <2>4, <3>1, CountAssigns, Zenon
  <2>5. CASE pc = 4
    <3>1. pc' = 5 /\ regs' = regs
      BY <1>7, <1>12, <2>5
    <3>. QED  BY <1>2, <2>5, <3>1, CountAssigns, Zenon
  <2>. QED  BY <1>8, <2>1, <2>2, <2>3, <2>4, <2>5
<1>16. memory' = TapeAt(IF pc' >= 3 THEN k + 1 ELSE k)
  <2>1. CASE pc = 2
    <3>1. memory = TapeAt(k) /\ pc' = 3
      BY <1>2, <1>12, <2>1
    <3>2. Op = "STORE" /\ A = 0 /\ regs[B] = 0
      BY <1>7, <1>10, <2>1
    <3>3. regs[A] = (k % 256) + 1
      BY <1>2, <2>1, <3>2, CountAssigns, Zenon
    <3>4. memory' = [TapeAt(k) EXCEPT ![0] = ((k % 256) + 1) % 256]
      BY <1>12, <3>1, <3>2, <3>3, Zenon
    <3>5. memory' = TapeAt(k + 1)
      BY <3>4, TapeMoves, Zenon
    <3>. QED  BY <3>1, <3>5
  <2>2. CASE pc # 2
    <3>1. memory' = memory
      BY <1>7, <1>8, <1>12, <2>2
    <3>2. pc' >= 3 <=> pc >= 3
      BY <1>8, <1>12, <2>2
    <3>. QED  BY <1>2, <3>1, <3>2
  <2>. QED  BY <2>1, <2>2
<1>17. Counting(k)'
  BY <1>14, <1>15, <1>16 DEF Counting, budget
<1>. QED  BY <1>12, <1>17

\* The state the next execution starts from, the first cells of memory.
FinalAt(k) == [i \in 1 .. StateSize |-> TapeAt(k)[i - 1]]

\* state_evolve takes the state over, and the unit has counted on.
LEMMA CounterAdvances ==
  ASSUME NEW k \in Nat, NEW v, v.code = CountingUnit.code, v.fuel = CountingUnit.fuel, v.current,
         v.state = FinalAt(k)
  PROVE  IsCounter(v, k) /\ FinalAt(k)[1] = k % 256
<1>0. PICK final : final = [i \in 1 .. StateSize |-> TapeAt(k)[i - 1]]
  OBVIOUS
<1>1. StateSize \in Nat /\ StateSize >= 1 /\ StateSize <= MemSize /\ MemSize \in Nat
  BY Room
<1>2. final[1] = k % 256
  <2>1. 1 \in 1 .. StateSize /\ 1 - 1 = 0
    BY <1>1
  <2>2. final[1] = TapeAt(k)[1 - 1]
    BY <1>0, <2>1, Zenon
  <2>. QED  BY <2>1, <2>2, TapeMoves
<1>3. Len(final) = StateSize
  <2>. DEFINE f == [i \in 1 .. StateSize |-> TapeAt(k)[i - 1]]
              S == {TapeAt(k)[i - 1] : i \in 1 .. StateSize}
  <2>1. f \in [1 .. StateSize -> S]
    OBVIOUS
  <2>. HIDE DEF f, S
  <2>2. Len(f) = StateSize
    BY <1>1, <2>1
  <2>. QED  BY <1>0, <2>2 DEF f
<1>4. FinalAt(k) = final
  BY <1>0, Zenon DEF FinalAt
<1>5. ASSUME NEW c \in Cells
      PROVE  (IF c < Len(v.state) THEN v.state[c + 1] ELSE Image(v.code)[c])
             = IF c = 0 THEN k % 256 ELSE Image(CountingUnit.code)[c]
  <2>1. c \in Nat
    BY DEF Cells
  <2>2. CASE c < StateSize
    <3>1. c + 1 \in 1 .. StateSize /\ (c + 1) - 1 = c
      BY <1>1, <2>1, <2>2
    <3>2. final[c + 1] = TapeAt(k)[(c + 1) - 1]
      BY <1>0, <3>1, Zenon
    <3>3. final[c + 1] = TapeAt(k)[c]
      BY <3>1, <3>2
    <3>4. TapeAt(k)[c] = IF c = 0 THEN k % 256 ELSE Image(CountingUnit.code)[c]
      BY Zenon DEF TapeAt
    <3>. QED  BY <1>3, <1>4, <2>2, <3>3, <3>4
  <2>3. CASE ~ (c < StateSize)
    <3>1. c # 0
      BY <1>1, <2>3
    <3>. QED  BY <1>3, <1>4, <2>3, <3>1
  <2>. QED  BY <2>2, <2>3
<1>6. Overlaid(v) = TapeAt(k)
  BY <1>5, Zenon DEF Overlaid, TapeAt
<1>. QED  BY <1>2, <1>4, <1>6, Zenon DEF IsCounter

\* It starts at zero.
LEMMA CounterStarts == IsCounter(CountingUnit, 0)
<1>1. CountingUnit.state = <<0>> /\ CountingUnit.current
  BY DEF CountingUnit
<1>2. ASSUME NEW c \in Cells
      PROVE  (IF c < Len(CountingUnit.state) THEN CountingUnit.state[c + 1] ELSE Image(CountingUnit.code)[c])
             = IF c = 0 THEN 0 % 256 ELSE Image(CountingUnit.code)[c]
  <2>1. c \in Nat
    BY MachineAssumption DEF Cells
  <2>2. c < Len(CountingUnit.state) <=> c = 0
    BY <1>1, <2>1
  <2>3. CountingUnit.state[0 + 1] = 0 % 256
    BY <1>1
  <2>. QED  BY <2>2, <2>3
<1>3. Overlaid(CountingUnit) = TapeAt(0)
  BY <1>2, Zenon DEF Overlaid, TapeAt
<1>. QED  BY <1>1, <1>3 DEF IsCounter

-----------------------------------------------------------------------------
\* A unit of experiment_h3.
IsStopper(u, s, r) ==
  /\ DOMAIN u = {"flags", "fuel", "current", "code", "data", "state", "rights"}
  /\ u.current /\ u.code = Bytes(2048) /\ u.data = <<>> /\ u.state = s /\ u.rights = r

LEMMA HaltCode ==
  /\ EncodeJump("HALT", 0) = Bytes(2048) /\ Bytes(2048) \in Seq(Byte) /\ Len(Bytes(2048)) = 2
<1>1. EncodeJump("HALT", 0) = Bytes(2048)
  BY OpCodes DEF EncodeJump
<1>2. 2048 \in Word
  BY WordRange
<1>. DEFINE w == 2048
<1>3. w \in Word
  BY <1>2
<1>. HIDE DEF w
<1>4. Bytes(w) \in Seq(Byte) /\ Len(Bytes(w)) = 2
  BY <1>3, WordBytes
<1>. QED  BY <1>1, <1>4 DEF w

LEMMA HaltFits ==
  ASSUME NEW n, n = 2, NEW limit, limit = MaxCode
  PROVE  n \in 1 .. limit /\ n <= limit
<1>1. 2 \in 1 .. MaxCode /\ 2 <= MaxCode
  BY Room
<1>. QED  BY <1>1, Zenon

LEMMA AtMostFour ==
  ASSUME NEW s \in Seq(Byte), Len(s) \in 1 .. 4
  PROVE  Len(s) \in Nat /\ Len(s) <= 4 /\ Len(s) <= MaxState /\ s # <<>> /\ 1 \in 1 .. Len(s)
<1>1. s # <<>>
  OBVIOUS
<1>. DEFINE n == Len(s)
<1>2. n \in 1 .. 4
  OBVIOUS
<1>. HIDE DEF n
<1>3. n \in Nat /\ n <= 4 /\ 1 <= n
  BY <1>2
<1>4. n <= MaxState /\ 1 \in 1 .. n
  BY <1>3, Room
<1>. QED  BY <1>1, <1>3, <1>4 DEF n

\* What a setter does with a body that fits.
LEMMA SectionSet ==
  ASSUME NEW u, DOMAIN u = {"flags", "fuel", "current", "code", "data", "state", "rights"},
         NEW tag \in {"code", "data", "state", "rights"}, NEW body,
         tag = "rights" \/ Len(body) \in 1 .. Limit[tag]
  PROVE  LET v == SetSection(u, tag, body) IN
         /\ DOMAIN v = DOMAIN u /\ v[tag] = body
         /\ \A field \in DOMAIN u : field # tag /\ field # "flags" => v[field] = u[field]
<1>. DEFINE q == [u EXCEPT ![tag] = body, !.flags = @ \cup {tag}]
<1>1. SetSection(u, tag, body) = q
  BY Zenon DEF SetSection
<1>2. DOMAIN q = DOMAIN u /\ q[tag] = body
      /\ \A field \in DOMAIN u : field # tag /\ field # "flags" => q[field] = u[field]
  OBVIOUS
<1>. HIDE DEF q
<1>. QED  BY <1>1, <1>2, Zenon

LEMMA StopperIs ==
  ASSUME NEW s \in Seq(Byte), NEW r, Len(s) <= 4
  PROVE  IsStopper(Stopper(s, r), s, r)
<1>. DEFINE Fields == {"flags", "fuel", "current", "code", "data", "state", "rights"}
            halt == EncodeJump("HALT", 0)
            u0 == [EmptyUnit EXCEPT !.fuel = 500]
            u1 == SetSection(u0, "code", halt)
            u2 == SetSection(u1, "state", s)
            u3 == SetSection(u2, "rights", r)
<1>1. DOMAIN u0 = Fields /\ u0.current = TRUE /\ u0.data = <<>> /\ u0.state = <<>>
  BY DEF EmptyUnit
<1>2. halt = Bytes(2048) /\ Len(halt) = 2
  BY HaltCode
<1>3. Limit["code"] = MaxCode /\ Limit["state"] = MaxState
  BY DEF Limit
<1>. HIDE DEF u0, halt
<1>4. /\ DOMAIN u1 = Fields /\ u1.code = halt /\ u1.current = TRUE /\ u1.data = <<>> /\ u1.state = <<>>
  <2>1. Len(halt) \in 1 .. Limit["code"]
    <3>. DEFINE n == Len(halt)  limit == Limit["code"]
    <3>1. n = 2 /\ limit = MaxCode
      BY <1>2, <1>3, Zenon
    <3>. HIDE DEF n, limit
    <3>2. n \in 1 .. limit
      BY <3>1, HaltFits
    <3>. QED  BY <3>2, Zenon DEF n, limit
  <2>. QED  BY <1>1, <2>1, SectionSet
<1>. HIDE DEF u1
<1>5. /\ DOMAIN u2 = Fields /\ u2.code = halt /\ u2.current = TRUE /\ u2.data = <<>> /\ u2.state = s
  <2>1. CASE Len(s) = 0
    <3>1. s = <<>>
      BY <2>1
    <3>2. Len(s) \notin 1 .. Limit["state"]
      BY <2>1
    <3>3. u2 = u1
      BY <3>2 DEF SetSection
    <3>. QED  BY <1>4, <3>1, <3>3
  <2>2. CASE Len(s) # 0
    <3>1. Len(s) \in Nat
      BY LenProperties
    <3>2. Len(s) \in 1 .. Limit["state"]
      BY <1>3, <2>2, <3>1, Room
    <3>. QED  BY <1>4, <3>2, SectionSet
  <2>. QED  BY <2>1, <2>2
<1>. HIDE DEF u2
<1>6. /\ DOMAIN u3 = Fields /\ u3.code = halt /\ u3.current = TRUE /\ u3.data = <<>> /\ u3.state = s
      /\ u3.rights = r
  BY <1>5, SectionSet
<1>. HIDE DEF u3
<1>7. IsStopper(u3, s, r)
  BY <1>2, <1>6 DEF IsStopper
<1>8. Stopper(s, r) = u3
  BY Zenon DEF Stopper, u3, u2, u1, u0, halt
<1>. QED  BY <1>7, <1>8

\* The byte after the code is the state's first.
LEMMA Tells ==
  ASSUME NEW c \in Seq(Byte), Len(c) = 2, NEW t \in Seq(Byte), Len(t) >= 1
  PROVE  ((c \o <<>>) \o t)[3] = t[1]
<1>1. c \o <<>> = c
  BY ConcatEmptySeq, Zenon
<1>2. \A i \in 1 .. Len(c) + Len(t) : (c \o t)[i] = IF i <= Len(c) THEN c[i] ELSE t[i - Len(c)]
  BY ConcatProperties, Zenon
<1>3. Len(t) \in Nat
  BY LenProperties
<1>4. 3 \in 1 .. Len(c) + Len(t) /\ ~ (3 <= Len(c)) /\ 3 - Len(c) = 1
  BY <1>3
<1>5. (c \o t)[3] = t[1]
  BY <1>2, <1>4
<1>. QED  BY <1>1, <1>5

\* A copy of such a unit.
IsCopy(v, s, i) ==
  Valid(v) /\ Hash(v)[4][3] = (s[1] + i) % 256

LEMMA CopyIs ==
  ASSUME NEW s \in Seq(Byte), Len(s) \in 1 .. 4, NEW u, NEW r, IsStopper(u, s, r), NEW i \in Nat
  PROVE  IsCopy(Marked(u, (u.state[1] + i) % 256), s, i)
<1>. DEFINE b == (s[1] + i) % 256
            t == [s EXCEPT ![1] = b]
            v == [u EXCEPT !.state[1] = b]
<1>1. /\ DOMAIN u = {"flags", "fuel", "current", "code", "data", "state", "rights"}
      /\ u.current /\ u.code = Bytes(2048) /\ u.data = <<>> /\ u.state = s
  BY DEF IsStopper
<1>2. s # <<>> /\ 1 \in 1 .. Len(s) /\ Len(s) \in Nat
  OBVIOUS
<1>3. b \in Byte
  <2>1. s[1] \in Byte
    BY <1>2, ElementOfSeq
  <2>2. s[1] \in Int /\ 0 <= s[1]
    BY <2>1, ByteRange
  <2>. DEFINE x == s[1] + i
  <2>3. x \in Int
    BY <2>2
  <2>. HIDE DEF x
  <2>4. x % 256 \in Int /\ 0 <= x % 256 /\ x % 256 <= 255
    BY <2>3
  <2>. QED  BY <2>4, ByteRange DEF x
<1>4. Marked(u, (u.state[1] + i) % 256) = v
  BY <1>1, <1>2 DEF Marked
<1>. HIDE DEF b
<1>5. t \in Seq(Byte) /\ Len(t) = Len(s) /\ t[1] = b
  BY <1>2, <1>3, ExceptSeq
<1>6. /\ v.current /\ v.code = Bytes(2048) /\ v.data = <<>> /\ v.state = t
  BY <1>1
<1>. HIDE DEF v, t
<1>7. Valid(v)
  <2>1. Len(v.code) = 2 /\ Len(v.data) = 0 /\ Len(v.state) <= MaxState
    <3>. DEFINE c == Bytes(2048)
    <3>1. Len(c) = 2
      BY HaltCode
    <3>2. v.code = c
      BY <1>6
    <3>. HIDE DEF c
    <3>3. Len(v.code) = 2
      BY <3>1, <3>2, Zenon
    <3>4. Len(v.data) = 0
      BY <1>6
    <3>5. Len(s) <= MaxState
      BY AtMostFour, Zenon
    <3>6. Len(v.state) <= MaxState
      <4>1. v.state = t
        BY <1>6
      <4>2. Len(t) = Len(s)
        BY <1>5
      <4>. QED  BY <3>5, <4>1, <4>2, Zenon
    <3>. QED  BY <3>3, <3>4, <3>6
  <2>2. DOMAIN Limit = {"code", "data", "state"} /\ Limit["code"] = MaxCode /\ Limit["data"] = MaxData
        /\ Limit["state"] = MaxState
    BY DEF Limit
  <2>3. MaxData \in Nat
    BY UnitsAssumption
  <2>4. Len(v["code"]) <= Limit["code"] /\ Len(v["data"]) <= Limit["data"] /\ Len(v["state"]) <= Limit["state"]
    <3>1. Len(v.code) <= MaxCode
      BY <2>1, HaltFits, Zenon
    <3>2. Len(v.data) <= MaxData
      BY <2>1, <2>3
    <3>. QED  BY <2>1, <2>2, <3>1, <3>2, Zenon
  <2>. QED  BY <1>6, <2>2, <2>4 DEF Valid
<1>8. Hash(v)[4] = (v.code \o v.data) \o v.state
  BY DEF Hash
<1>9. Hash(v)[4][3] = b
  <2>1. Len(t) >= 1
    BY <1>5
  <2>. DEFINE c == Bytes(2048)
  <2>2. c \in Seq(Byte) /\ Len(c) = 2
    BY HaltCode
  <2>3. Hash(v)[4] = (c \o <<>>) \o t
    BY <1>6, <1>8
  <2>. HIDE DEF c
  <2>. QED  BY <1>5, <2>1, <2>2, <2>3, Tells
<1>. QED  BY <1>4, <1>7, <1>9 DEF IsCopy, b

\* What is made of one that may replicate.
Fewer(n) == IF n > MaxReplicas THEN MaxReplicas ELSE n

LEMMA MadeIs ==
  ASSUME NEW s \in Seq(Byte), Len(s) \in 1 .. 4, NEW r, ReplicateBit \in r, NEW n \in Nat
  PROVE  LET made == Made(Stopper(s, r), 0 .. 63, n) IN
         /\ Fewer(n) \in Nat /\ Len(made) = Fewer(n) /\ \E S : made \in Seq(S)
         /\ \A i \in 1 .. Fewer(n) : IsCopy(made[i], s, i)
<1>. DEFINE u == Stopper(s, r)
            m == Fewer(n)
            f == [i \in 1 .. m |-> Marked(u, (u.state[1] + i) % 256)]
            S == {Marked(u, (u.state[1] + i) % 256) : i \in 1 .. m}
<1>1. IsStopper(u, s, r)
  <2>1. Len(s) <= 4
    BY AtMostFour, Zenon
  <2>. QED  BY <2>1, StopperIs, Zenon
<1>. HIDE DEF u
<1>2. m \in Nat
  BY Room DEF Fewer
<1>3. Authorized(u, 0 .. 63)
  <2>1. ReplicateBit \in 0 .. 63
    BY DEF ReplicateBit
  <2>2. u.rights = r
    BY <1>1 DEF IsStopper
  <2>. QED  BY <2>1, <2>2, Zenon DEF Authorized
<1>4. u.state # <<>>
  <2>1. s # <<>>
    BY AtMostFour, Zenon
  <2>2. u.state = s
    BY <1>1 DEF IsStopper
  <2>. QED  BY <2>1, <2>2, Zenon
<1>5. Made(u, 0 .. 63, n) = f
  <2>1. Made(u, 0 .. 63, n) = Replicas(u, n)
    BY <1>3, Zenon DEF Made
  <2>. QED  BY <1>4, <2>1, Zenon DEF Replicas, Fewer
<1>6. \A i \in 1 .. m : f[i] = Marked(u, (u.state[1] + i) % 256)
  BY Zenon
<1>7. f \in [1 .. m -> S]
  BY Zenon
<1>. HIDE DEF m, f, S
<1>8. Len(f) = m /\ f \in Seq(S)
  BY <1>2, <1>7
<1>9. \A i \in 1 .. m : IsCopy(f[i], s, i)
  <2>1. ASSUME NEW i \in 1 .. m  PROVE IsCopy(f[i], s, i)
    <3>1. i \in Nat
      BY <1>2
    <3>2. IsCopy(Marked(u, (u.state[1] + i) % 256), s, i)
      BY <1>1, <3>1, CopyIs
    <3>. QED  BY <1>6, <3>2, Zenon
  <2>. QED  BY <2>1
<1>. QED  BY <1>2, <1>5, <1>8, <1>9, Zenon DEF m, u

LEMMA TestStates ==
  /\ <<0, 1, 2, 3>> \in Seq(Byte) /\ Len(<<0, 1, 2, 3>>) \in 1 .. 4
  /\ <<0, 0>> \in Seq(Byte) /\ Len(<<0, 0>>) \in 1 .. 4 /\ <<0, 0>>[1] = 0
  /\ <<>> \in Seq(Byte) /\ Len(<<>>) <= 4
<1>1. 0 \in Byte /\ 1 \in Byte /\ 2 \in Byte /\ 3 \in Byte
  BY ByteRange
<1>. QED  BY <1>1

\* The four tests: but the first they cannot fail.
LEMMA TestsAre ==
  ASSUME plan.replicas \in Nat
  PROVE  /\ AuthorizedCopies <=> plan.replicas # 0
         /\ UnauthorizedMakesNone /\ CopiesAreValid /\ NeighboursDiffer
<1>0. ReplicateBit \in Replicator /\ ReplicateBit \notin Replicator \ {ReplicateBit}
  BY DEF Replicator
<1>1. AuthorizedCopies <=> plan.replicas # 0
  <2>. DEFINE s == <<0, 1, 2, 3>>
              n == plan.replicas
              made == Made(Stopper(s, Replicator), 0 .. 63, n)
  <2>1. s \in Seq(Byte) /\ Len(s) \in 1 .. 4 /\ n \in Nat
    BY TestStates
  <2>2. AuthorizedCopies <=> made # <<>> /\ \A i \in 1 .. Len(made) : Valid(made[i])
    BY Zenon DEF AuthorizedCopies
  <2>. HIDE DEF s, n
  <2>3. /\ Fewer(n) \in Nat /\ Len(made) = Fewer(n) /\ \A i \in 1 .. Fewer(n) : IsCopy(made[i], s, i)
        /\ \E S : made \in Seq(S)
    BY <1>0, <2>1, MadeIs
  <2>. HIDE DEF made
  <2>4. \A i \in 1 .. Len(made) : Valid(made[i])
    BY <2>3 DEF IsCopy
  <2>5. Fewer(n) = 0 <=> n = 0
    BY <2>1, Room DEF Fewer
  <2>6. made = <<>> => n = 0
    BY <2>3, <2>5
  <2>7. n = 0 => made = <<>>
    <3>1. PICK S : made \in Seq(S)
      BY <2>3
    <3>2. n = 0 => Len(made) = 0
      BY <2>3, <2>5
    <3>. QED  BY <3>1, <3>2, EmptySeq
  <2>. QED  BY <2>2, <2>4, <2>6, <2>7 DEF n
<1>2. UnauthorizedMakesNone
  <2>. DEFINE r == Replicator \ {ReplicateBit}
              s == <<>>
              u == Stopper(s, r)
  <2>1. s \in Seq(Byte) /\ Len(s) <= 4
    BY TestStates
  <2>. HIDE DEF s, r
  <2>2. IsStopper(u, s, r)
    BY <2>1, StopperIs
  <2>. HIDE DEF u
  <2>3. ~ Authorized(u, Allowed)
    BY <1>0, <2>2 DEF Authorized, IsStopper, r
  <2>4. Made(u, Allowed, 5) = <<>>
    BY <2>3, Zenon DEF Made
  <2>. QED  BY <2>3, <2>4, Zenon DEF UnauthorizedMakesNone, u, s, r
<1>3. CopiesAreValid
  <2>. DEFINE s == <<0, 0>>
              n == 5
              made == Made(Stopper(s, Replicator), 0 .. 63, n)
  <2>1. s \in Seq(Byte) /\ Len(s) \in 1 .. 4 /\ n \in Nat
    BY TestStates
  <2>2. CopiesAreValid <=> \A i \in 1 .. Len(made) : Valid(made[i])
    BY Zenon DEF CopiesAreValid
  <2>. HIDE DEF s, n
  <2>3. Fewer(n) \in Nat /\ Len(made) = Fewer(n) /\ \A i \in 1 .. Fewer(n) : IsCopy(made[i], s, i)
    BY <1>0, <2>1, MadeIs
  <2>. HIDE DEF made
  <2>. QED  BY <2>2, <2>3 DEF IsCopy
<1>4. NeighboursDiffer
  <2>. DEFINE s == <<0, 0>>
              n == 3
              made == Made(Stopper(s, Replicator), 0 .. 63, n)
  <2>1. s \in Seq(Byte) /\ Len(s) \in 1 .. 4 /\ n \in Nat /\ s[1] = 0 /\ n = 3
    BY TestStates
  <2>2. NeighboursDiffer <=>
          Len(made) >= 2 /\ \A i \in 1 .. Len(made) - 1 : Hash(made[i]) # Hash(made[i + 1])
    BY Zenon DEF NeighboursDiffer
  <2>. HIDE DEF s, n
  <2>3. Fewer(n) \in Nat /\ Len(made) = Fewer(n) /\ \A i \in 1 .. Fewer(n) : IsCopy(made[i], s, i)
    BY <1>0, <2>1, MadeIs
  <2>. HIDE DEF made
  <2>4. Len(made) \in Nat /\ Len(made) >= 2 /\ Len(made) <= 3
    BY <2>1, <2>3, Room DEF Fewer
  <2>5. ASSUME NEW i \in 1 .. Len(made) - 1  PROVE Hash(made[i]) # Hash(made[i + 1])
    <3>1. i \in 1 .. Fewer(n) /\ i + 1 \in 1 .. Fewer(n) /\ (i = 1 \/ i = 2)
      BY <2>3, <2>4
    <3>2. Hash(made[i])[4][3] = (0 + i) % 256 /\ Hash(made[i + 1])[4][3] = (0 + (i + 1)) % 256
      BY <2>1, <2>3, <3>1 DEF IsCopy
    <3>3. (0 + i) % 256 # (0 + (i + 1)) % 256
      BY <3>1
    <3>. QED  BY <3>2, <3>3
  <2>. QED  BY <2>2, <2>4, <2>5
<1>. QED  BY <1>1, <1>2, <1>3, <1>4

\* The score of experiment_h3.
LEMMA H3Score ==
  ASSUME plan.replicas \in Nat
  PROVE  Cardinality({t \in 1 .. 4 :
           <<AuthorizedCopies, UnauthorizedMakesNone, CopiesAreValid, NeighboursDiffer>>[t]})
         = IF plan.replicas = 0 THEN 3 ELSE 4
<1>. DEFINE tests == <<AuthorizedCopies, UnauthorizedMakesNone, CopiesAreValid, NeighboursDiffer>>
            T == {t \in 1 .. 4 : tests[t]}
<1>1. tests[1] = AuthorizedCopies /\ tests[2] = UnauthorizedMakesNone /\ tests[3] = CopiesAreValid
      /\ tests[4] = NeighboursDiffer
  OBVIOUS
<1>. HIDE DEF tests
<1>2. (tests[1] <=> plan.replicas # 0) /\ tests[2] /\ tests[3] /\ tests[4]
  BY <1>1, TestsAre, Zenon
<1>3. \A t \in 1 .. 4 : t = 1 \/ t = 2 \/ t = 3 \/ t = 4
  OBVIOUS
<1>4. T = IF plan.replicas = 0 THEN 2 .. 4 ELSE 1 .. 4
  <2>1. \A t \in 1 .. 4 : tests[t] <=> t # 1 \/ plan.replicas # 0
    BY <1>2, <1>3
  <2>2. \A t : t \in 2 .. 4 <=> t \in 1 .. 4 /\ t # 1
    OBVIOUS
  <2>3. \A t : t \in T <=> t \in 1 .. 4 /\ tests[t]
    BY Zenon
  <2>. HIDE DEF T
  <2>4. CASE plan.replicas = 0
    BY <2>1, <2>2, <2>3, <2>4
  <2>5. CASE plan.replicas # 0
    BY <2>1, <2>3, <2>5
  <2>. QED  BY <2>4, <2>5
<1>5. Cardinality(2 .. 4) = 3 /\ Cardinality(1 .. 4) = 4
  <2>. DEFINE a == 1  b == 2  c == 4
  <2>1. a \in Int /\ b \in Int /\ c \in Int /\ ~ (a > c) /\ ~ (b > c) /\ c - a + 1 = 4 /\ c - b + 1 = 3
    OBVIOUS
  <2>. HIDE DEF a, b, c
  <2>2. Cardinality(b .. c) = 3 /\ Cardinality(a .. c) = 4
    BY <2>1, FS_Interval
  <2>. QED  BY <2>2 DEF a, b, c
<1>. QED  BY <1>4, <1>5, Zenon DEF tests

-----------------------------------------------------------------------------
\* What H1 and H2 have seen after n executions.
PrintOf(i) == [outputs |-> <<SumOf(i)>>, consumed |-> 5, halted |-> TRUE, error |-> FALSE]
PrintsOf(n) == {PrintOf(i) : i \in 0 .. n - 1}
SumsOf(n) == {SumOf(i) : i \in 0 .. n - 1}

LEMMA PrintsDiffer ==
  ASSUME NEW i, NEW j
  PROVE  SameBehavior(PrintOf(i), PrintOf(j)) <=> SumOf(i) = SumOf(j)
<1>. DEFINE a == SumOf(i)  b == SumOf(j)
<1>1. PrintOf(i).outputs = <<a>> /\ PrintOf(j).outputs = <<b>>
  BY DEF PrintOf
<1>2. /\ PrintOf(i).halted = PrintOf(j).halted /\ PrintOf(i).error = PrintOf(j).error
  BY DEF PrintOf
<1>. HIDE DEF a, b
<1>3. <<a>> = <<b>> <=> a = b
  OBVIOUS
<1>. QED  BY <1>1, <1>2, <1>3, Zenon DEF SameBehavior, a, b

\* One more unit: counted when its sum is new.
LEMMA OneMorePrint ==
  ASSUME NEW n \in 0 .. 255
  PROVE  /\ PrintsOf(n + 1) = PrintsOf(n) \cup {PrintOf(n)}
         /\ Cardinality(SumsOf(n + 1))
            = IF \E f \in PrintsOf(n) : SameBehavior(f, PrintOf(n)) THEN Cardinality(SumsOf(n))
              ELSE Cardinality(SumsOf(n)) + 1
<1>1. \A i : i \in 0 .. (n + 1) - 1 <=> i \in 0 .. n - 1 \/ i = n
  OBVIOUS
<1>2. PrintsOf(n + 1) = PrintsOf(n) \cup {PrintOf(n)}
  BY <1>1, Zenon DEF PrintsOf
<1>3. SumsOf(n + 1) = SumsOf(n) \cup {SumOf(n)}
  BY <1>1, Zenon DEF SumsOf
<1>4. (\E f \in PrintsOf(n) : SameBehavior(f, PrintOf(n))) <=> SumOf(n) \in SumsOf(n)
  <2>. DEFINE I == 0 .. n - 1
  <2>1. /\ \A f : f \in PrintsOf(n) <=> \E i \in I : f = PrintOf(i)
        /\ \A s : s \in SumsOf(n) <=> \E i \in I : s = SumOf(i)
    BY Zenon DEF PrintsOf, SumsOf
  <2>. HIDE DEF I
  <2>2. (\E f \in PrintsOf(n) : SameBehavior(f, PrintOf(n))) => SumOf(n) \in SumsOf(n)
    <3>1. ASSUME NEW f \in PrintsOf(n), SameBehavior(f, PrintOf(n))  PROVE SumOf(n) \in SumsOf(n)
      <4>1. PICK i \in I : f = PrintOf(i)
        BY <2>1, Zenon
      <4>2. SameBehavior(PrintOf(i), PrintOf(n))
        BY <3>1, <4>1, Zenon
      <4>. QED  BY <2>1, <4>2, PrintsDiffer, Zenon
    <3>. QED  BY <3>1, Zenon
  <2>3. SumOf(n) \in SumsOf(n) => \E f \in PrintsOf(n) : SameBehavior(f, PrintOf(n))
    <3>1. ASSUME NEW i \in I, SumOf(n) = SumOf(i)
          PROVE  PrintOf(i) \in PrintsOf(n) /\ SameBehavior(PrintOf(i), PrintOf(n))
      BY <2>1, <3>1, PrintsDiffer, Zenon
    <3>. QED  BY <2>1, <3>1, Zenon
  <2>. QED  BY <2>2, <2>3, Zenon
<1>5. IsFiniteSet(SumsOf(n))
  <2>1. \A i \in 0 .. n - 1 : SumOf(i) \in Nat /\ SumOf(i) <= 510
    <3>1. \A i \in 0 .. n - 1 : i \in Nat /\ i <= 255
      OBVIOUS
    <3>2. \A i \in Nat : Mixed(i) \in Int /\ 0 <= Mixed(i) /\ Mixed(i) <= 255
      BY MixedType
    <3>. QED  BY <3>1, <3>2 DEF SumOf
  <2>2. SumsOf(n) \in SUBSET Nat /\ \A s \in SumsOf(n) : s <= 510
    BY <2>1, Zenon DEF SumsOf
  <2>. DEFINE most == 510
  <2>3. most \in Nat /\ \A s \in SumsOf(n) : s <= most
    BY <2>2
  <2>. HIDE DEF most
  <2>. QED  BY <2>2, <2>3, FS_BoundedSetOfNaturals
<1>6. Cardinality(SumsOf(n) \cup {SumOf(n)})
      = IF SumOf(n) \in SumsOf(n) THEN Cardinality(SumsOf(n)) ELSE Cardinality(SumsOf(n)) + 1
  BY <1>5, FS_AddElement
<1>. QED  BY <1>2, <1>3, <1>4, <1>6, Zenon

LEMMA NoPrints == PrintsOf(0) = {} /\ SumsOf(0) = {} /\ Cardinality(SumsOf(0)) = 0
<1>1. \A i : i \notin 0 .. 0 - 1
  OBVIOUS
<1>2. PrintsOf(0) = {} /\ SumsOf(0) = {}
  BY <1>1, Zenon DEF PrintsOf, SumsOf
<1>. QED  BY <1>2, FS_EmptySet, Zenon

\* The fingerprint of unit i.
LEMMA SummingEnds ==
  ASSUME NEW i \in 0 .. 255, unit = Generated(i), Summing(i), status # "running"
  PROVE  Fingerprint = PrintOf(i)
<1>. DEFINE budget == Budget(Generated(i))
<1>1. budget \in Nat
  BY Budgets
<1>2. pc = 5 /\ status = "halted" /\ fuel = budget - pc /\ output = IF pc >= 4 THEN <<SumOf(i)>> ELSE <<>>
  BY DEF Summing
<1>. HIDE DEF budget
<1>3. budget - fuel = 5
  BY <1>1, <1>2
<1>4. output = <<SumOf(i)>>
  BY <1>2
<1>5. (status = "halted") = TRUE /\ (status \in Errors) = FALSE
  BY <1>2 DEF Errors
<1>6. Budget(unit) - fuel = 5
  BY <1>3, Zenon DEF budget
<1>. QED  BY <1>2, <1>4, <1>5, <1>6, Zenon DEF Fingerprint, PrintOf

-----------------------------------------------------------------------------
\* The states H2 has recorded: the byte that counts tells them apart.
CountedUp(t) ==
  /\ \E S : t \in Seq(S)
  /\ Len(t) <= MaxTrace
  /\ \A i \in 1 .. Len(t) : t[i].hash[1] = i % 256

LEMMA NewStates ==
  ASSUME NEW t, CountedUp(t)
  PROVE  Len(t) \in Nat /\ Cardinality({t[i].hash : i \in 1 .. Len(t)}) = Len(t)
<1>. DEFINE n == Len(t)
            H == {t[i].hash : i \in 1 .. n}
            f == [i \in 1 .. n |-> t[i].hash]
<1>1. n \in Nat
  <2>1. PICK S : t \in Seq(S)
    BY DEF CountedUp
  <2>. QED  BY <2>1, LenProperties
<1>2. n <= 256
  <2>1. n <= MaxTrace
    BY DEF CountedUp
  <2>. HIDE DEF n
  <2>. QED  BY <1>1, <2>1, Room
<1>3. \A i \in 1 .. n : t[i].hash[1] = i % 256
  BY DEF CountedUp
<1>. HIDE DEF n
<1>4. ASSUME NEW i \in 1 .. n, NEW j \in 1 .. n, t[i].hash = t[j].hash
      PROVE  i = j
  <2>1. i % 256 = j % 256
    BY <1>3, <1>4, Zenon
  <2>2. i \in Int /\ j \in Int /\ 1 <= i /\ i <= 256 /\ 1 <= j /\ j <= 256
    BY <1>1, <1>2
  <2>. QED  BY <2>1, <2>2
<1>5. f \in Bijection(1 .. n, H)
  <2>1. f \in [1 .. n -> H]
    BY Zenon
  <2>2. \A i, j \in 1 .. n : f[i] = f[j] => i = j
    BY <1>4, Zenon
  <2>3. \A h \in H : \E i \in 1 .. n : f[i] = h
    BY Zenon
  <2>. HIDE DEF f, H
  <2>. QED  BY <2>1, <2>2, <2>3 DEF Bijection, Injection, Surjection, IsInjective
<1>6. ExistsBijection(1 .. n, H)
  BY <1>5, Zenon DEF ExistsBijection
<1>7. IsFiniteSet(1 .. n) /\ Cardinality(1 .. n) = n
  BY <1>1, IntervalSize
<1>8. Cardinality(H) = n
  BY <1>6, <1>7, FS_Bijection, Zenon
<1>. QED  BY <1>1, <1>8 DEF n

\* One more state.
LEMMA OneMoreState ==
  ASSUME NEW t, CountedUp(t), Len(t) < MaxTrace, NEW e, e.hash[1] = (Len(t) + 1) % 256
  PROVE  CountedUp(Append(t, e)) /\ Len(Append(t, e)) = Len(t) + 1
<1>1. PICK S : t \in Seq(S)
  BY DEF CountedUp
<1>. DEFINE T == S \cup {e}
            u == Append(t, e)
<1>2. t \in Seq(T)
  BY <1>1
<1>. HIDE DEF T
<1>3. /\ u \in Seq(T) /\ Len(u) = Len(t) + 1
      /\ \A i \in 1 .. Len(t) : u[i] = t[i]
      /\ u[Len(t) + 1] = e
  <2>1. e \in T
    BY DEF T
  <2>. QED  BY <1>2, <2>1, AppendProperties
<1>. HIDE DEF u
<1>. DEFINE n == Len(t)
<1>4. n \in Nat
  BY <1>1, LenProperties
<1>5. \A i \in 1 .. n : t[i].hash[1] = i % 256
  BY DEF CountedUp
<1>6. MaxTrace \in Nat
  BY Room
<1>. HIDE DEF n
<1>7. \A i \in 1 .. n + 1 : i \in 1 .. n \/ i = n + 1
  BY <1>4
<1>8. n + 1 <= MaxTrace
  BY <1>4, <1>6 DEF n
<1>9. \A i \in 1 .. Len(u) : u[i].hash[1] = i % 256
  <2>1. ASSUME NEW i \in 1 .. n + 1  PROVE u[i].hash[1] = i % 256
    <3>1. CASE i \in 1 .. n
      BY <1>3, <1>5, <3>1, Zenon DEF n
    <3>2. CASE i = n + 1
      BY <1>3, <3>2, Zenon DEF n
    <3>. QED  BY <1>7, <3>1, <3>2, Zenon
  <2>. QED  BY <1>3, <2>1, Zenon DEF n
<1>10. Len(u) <= MaxTrace
  BY <1>3, <1>8, Zenon DEF n
<1>. QED  BY <1>3, <1>9, <1>10, Zenon DEF CountedUp, u

LEMMA NoStates == CountedUp(<<>>) /\ Len(<<>>) = 0
<1>1. <<>> \in Seq({}) /\ Len(<<>>) = 0
  OBVIOUS
<1>2. 0 <= MaxTrace
  BY Room
<1>3. \A i : i \notin 1 .. 0
  OBVIOUS
<1>. QED  BY <1>1, <1>2, <1>3, Zenon DEF CountedUp

-----------------------------------------------------------------------------
\* What remains to be done: experiments of a command, the first perhaps begun.
Agendas == {<<"H1">>, <<"H2">>, <<"H3">>, <<"H1", "H2", "H3">>, <<"H2", "H3">>, <<>>}

\* H1 is to begin, or has counted the units before this one.
InH1 ==
  \/ phase = "next" /\ executed = 0 /\ seen = {} /\ behaviors = 0
  \/ /\ phase \in {"execute", "run"}
     /\ executed \in Nat /\ executed < Sample /\ unit = Generated(executed)
     /\ seen = PrintsOf(executed) /\ behaviors = Cardinality(SumsOf(executed))
     /\ phase = "run" => Summing(executed)

\* How many states of H2 are recorded.
Recorded == IF plan.steps > MaxTrace THEN MaxTrace ELSE plan.steps

\* H2 is to begin, or counts, or has counted, and all the trace is new.
InH2 ==
  \/ phase = "next"
  \/ /\ steps = plan.steps /\ CountedUp(trace)
     /\ \/ /\ phase \in {"execute", "run"} /\ Len(trace) < steps
           /\ DOMAIN unit = {"code", "rights", "fuel", "state", "current"}
           /\ IsCounter(unit, Len(trace))
           /\ phase = "run" => Counting(Len(trace))
        \/ phase \in {"detect", "done"} /\ Len(trace) = Recorded

\* What makes ScoresAreEarned inductive.
ScoresInv ==
  /\ agenda \in Agendas
  /\ agenda # <<>> => plan \in Plans
  /\ DOMAIN results = {"H1", "H2", "H3"}
  /\ ScoresAreEarned
  /\ Doing("H1") => InH1
  /\ Doing("H2") => InH2

\* What an experiment is to score.
TotalOf(h) == CASE h = "H1" -> Sample [] h = "H2" -> Recorded [] h = "H3" -> 4
ScoreOf(h) ==
  CASE h = "H1" -> Cardinality(SumsOf(Sample)) [] h = "H2" -> Recorded
    [] h = "H3" -> IF plan.replicas = 0 THEN 3 ELSE 4
TargetOf(h) == CASE h = "H1" -> plan.unique [] h = "H2" -> plan.distinct [] h = "H3" -> 4
Earned(h) == [total |-> TotalOf(h), score |-> ScoreOf(h), passed |-> ScoreOf(h) >= TargetOf(h)]

LEMMA ScoresMean ==
  /\ ScoresAreEarned <=> \A h \in {"H1", "H2", "H3"} : results[h] # Unmeasured => results[h] = Earned(h)
  /\ ScoresAreEarned' <=> \A h \in {"H1", "H2", "H3"} : results'[h] # Unmeasured => results'[h] = Earned(h)'
<1>1. ScoresAreEarned <=> \A h \in {"H1", "H2", "H3"} : results[h] # Unmeasured => results[h] = Earned(h)
  BY Zenon DEF ScoresAreEarned, Earned, TotalOf, ScoreOf, TargetOf, Recorded, SumsOf, SumOf, Mixed
<1>2. ScoresAreEarned' <=> \A h \in {"H1", "H2", "H3"} : results'[h] # Unmeasured => results'[h] = Earned(h)'
  BY Zenon DEF ScoresAreEarned, Earned, TotalOf, ScoreOf, TargetOf, Recorded, SumsOf, SumOf, Mixed, Unmeasured
<1>. QED  BY <1>1, <1>2

LEMMA SamePlan ==
  ASSUME plan' = plan
  PROVE  \A h : Earned(h)' = Earned(h)
BY Zenon DEF Earned, TotalOf, ScoreOf, TargetOf, Recorded, Sample, SumsOf, SumOf, Mixed

LEMMA PlansAre ==
  ASSUME plan \in Plans
  PROVE  /\ Sample \in Nat /\ 1 <= Sample /\ Sample <= 256
         /\ plan.steps \in Nat /\ plan.replicas \in Nat
<1>1. plan.units \in Word \ {0} /\ plan.steps \in Nat /\ plan.replicas \in Nat
  BY ExperimentsAssumption
<1>2. plan.units \in Int /\ 1 <= plan.units
  BY <1>1, WordRange
<1>. QED  BY <1>1, <1>2 DEF Sample

LEMMA AgendaShrinks ==
  ASSUME agenda \in Agendas, agenda # <<>>
  PROVE  Tail(agenda) \in Agendas /\ (Tail(agenda) # <<>> => Head(Tail(agenda)) # "H1")
<1>1. CASE agenda = <<"H1">> \/ agenda = <<"H2">> \/ agenda = <<"H3">>
  <2>1. Tail(<<"H1">>) = <<>> /\ Tail(<<"H2">>) = <<>> /\ Tail(<<"H3">>) = <<>>
    OBVIOUS
  <2>2. Tail(agenda) = <<>>
    BY <1>1, <2>1, Zenon
  <2>. QED  BY <2>2, Zenon DEF Agendas
<1>2. CASE agenda = <<"H1", "H2", "H3">>
  <2>1. Tail(agenda) = <<"H2", "H3">> /\ Head(<<"H2", "H3">>) = "H2"
    BY <1>2
  <2>. QED  BY <2>1 DEF Agendas
<1>3. CASE agenda = <<"H2", "H3">>
  <2>1. Tail(agenda) = <<"H3">> /\ Head(<<"H3">>) = "H3"
    BY <1>3
  <2>. QED  BY <2>1 DEF Agendas
<1>. QED  BY <1>1, <1>2, <1>3, Zenon DEF Agendas

\* An experiment ends with the score it is to have.
LEMMA Concluded ==
  ASSUME ScoresInv, NEW h \in {"H1", "H2", "H3"}, Doing(h), plan' = plan, phase' = "next",
         NEW total, NEW score, NEW passed, Conclude(h, total, score, passed),
         total = TotalOf(h), score = ScoreOf(h), passed = (ScoreOf(h) >= TargetOf(h))
  PROVE  ScoresInv'
<1>1. agenda \in Agendas /\ agenda # <<>> /\ plan \in Plans /\ DOMAIN results = {"H1", "H2", "H3"}
      /\ ScoresAreEarned
  BY Zenon DEF ScoresInv, Doing
<1>2. agenda' = Tail(agenda)
      /\ results' = [results EXCEPT ![h] = [total |-> total, score |-> score, passed |-> passed]]
  BY Zenon DEF Conclude
<1>3. agenda' \in Agendas /\ (agenda' # <<>> => Head(agenda') # "H1")
  BY <1>1, <1>2, AgendaShrinks, Zenon
<1>4. results' = [results EXCEPT ![h] = Earned(h)]
  BY <1>2, Zenon DEF Earned
<1>5. DOMAIN results' = {"H1", "H2", "H3"} /\ results'[h] = Earned(h)
      /\ \A g \in {"H1", "H2", "H3"} : g # h => results'[g] = results[g]
  BY <1>1, <1>4
<1>6. ScoresAreEarned'
  <2>1. \A g \in {"H1", "H2", "H3"} : results[g] # Unmeasured => results[g] = Earned(g)
    BY <1>1, ScoresMean, Zenon
  <2>2. \A g \in {"H1", "H2", "H3"} : results'[g] # Unmeasured => results'[g] = Earned(g)'
    BY <1>5, <2>1, SamePlan, Zenon
  <2>. QED  BY <2>2, ScoresMean, Zenon
<1>7. plan' \in Plans
  BY <1>1, Zenon
<1>. QED  BY <1>3, <1>5, <1>6, <1>7, Zenon DEF ScoresInv, Doing, InH2

\* An experiment goes on.
LEMMA Continued ==
  ASSUME ScoresInv, plan' = plan, agenda' = agenda, results' = results,
         Doing("H1") => InH1', Doing("H2") => InH2'
  PROVE  ScoresInv'
<1>1. ScoresAreEarned'
  <2>1. \A g \in {"H1", "H2", "H3"} : results[g] # Unmeasured => results[g] = Earned(g)
    BY ScoresMean, Zenon DEF ScoresInv
  <2>2. \A g \in {"H1", "H2", "H3"} : results'[g] # Unmeasured => results'[g] = Earned(g)'
    BY <2>1, SamePlan, Zenon
  <2>. QED  BY <2>2, ScoresMean, Zenon
<1>. QED  BY <1>1, Zenon DEF ScoresInv, Doing

-----------------------------------------------------------------------------
\* H1, step by step.
LEMMA H1Begins ==
  ASSUME ScoresInv, BeginH1
  PROVE  ScoresInv'
<1>1. /\ Doing("H1") /\ phase = "next" /\ unit' = Generated(0) /\ phase' = "execute"
      /\ plan' = plan /\ agenda' = agenda /\ results' = results
      /\ executed' = executed /\ seen' = seen /\ behaviors' = behaviors
  BY Zenon DEF BeginH1, campaign
<1>2. plan \in Plans /\ InH1 /\ ~ Doing("H2")
  BY <1>1 DEF ScoresInv, Doing
<1>3. executed' = 0 /\ seen' = {} /\ behaviors' = 0
  BY <1>1, <1>2 DEF InH1
<1>4. 0 < Sample'
  <2>1. 0 < Sample
    BY <1>2, PlansAre
  <2>. QED  BY <1>1, <2>1, Zenon DEF Sample
<1>5. InH1'
  BY <1>1, <1>3, <1>4, NoPrints DEF InH1
<1>. QED  BY <1>1, <1>2, <1>5, Continued

LEMMA UnderWay ==
  ASSUME ScoresInv, Doing("H1"), phase # "next"
  PROVE  /\ phase \in {"execute", "run"} /\ executed < Sample /\ unit = Generated(executed)
         /\ seen = PrintsOf(executed) /\ behaviors = Cardinality(SumsOf(executed))
         /\ executed \in 0 .. 255
         /\ phase = "run" => Summing(executed)
<1>1. plan \in Plans /\ InH1
  BY DEF ScoresInv, Doing
<1>2. executed \in Nat /\ executed < Sample
  BY <1>1 DEF InH1
<1>3. executed \in 0 .. 255
  BY <1>1, <1>2, PlansAre
<1>. QED  BY <1>1, <1>3, Zenon DEF InH1

LEMMA H1Executes ==
  ASSUME ScoresInv, Doing("H1"), Execute \/ Run, UNCHANGED campaign
  PROVE  ScoresInv'
<1>1. phase # "next"
  BY DEF Execute, Run
<1>2. PICK k \in 0 .. 255 : k = executed
  BY <1>1, UnderWay, Zenon
<1>3. /\ plan' = plan /\ agenda' = agenda /\ results' = results
      /\ executed' = executed /\ seen' = seen /\ behaviors' = behaviors
      /\ unit' = unit /\ phase' = "run"
  BY DEF campaign, evolution, Execute, Run
<1>4. Summing(k)'
  <2>1. CASE Execute
    <3>1. LoadUnit(Generated(k))
      BY <1>1, <1>2, <2>1, UnderWay, Zenon DEF Execute
    <3>. QED  BY <3>1, SummingLoads
  <2>2. CASE Run
    <3>1. Summing(k) /\ MachineStep
      BY <1>1, <1>2, <2>2, UnderWay, Zenon DEF Run
    <3>. QED  BY <3>1, SummingStep
  <2>. QED  BY <2>1, <2>2
<1>5. Summing(executed)'
  BY <1>2, <1>3, <1>4, Zenon DEF Summing
<1>6. Sample' = Sample /\ executed < Sample /\ executed \in Nat
  BY <1>1, <1>3, UnderWay DEF Sample
<1>7. InH1'
  <2>1. unit = Generated(executed) /\ seen = PrintsOf(executed) /\ behaviors = Cardinality(SumsOf(executed))
    BY <1>1, UnderWay
  <2>. QED  BY <1>3, <1>5, <1>6, <2>1, Zenon DEF InH1
<1>8. ~ Doing("H2")
  BY DEF Doing
<1>. QED  BY <1>3, <1>7, <1>8, Continued

LEMMA H1Records ==
  ASSUME ScoresInv, Record
  PROVE  ScoresInv'
<1>1. /\ Doing("H1") /\ phase = "run" /\ status # "running" /\ plan' = plan
      /\ executed' = executed + 1 /\ seen' = seen \cup {Fingerprint}
      /\ behaviors' = IF \E f \in seen : SameBehavior(f, Fingerprint) THEN behaviors ELSE behaviors + 1
  BY Zenon DEF Record
<1>2. phase # "next" /\ ~ Doing("H2")
  BY <1>1 DEF Doing
<1>3. PICK k \in 0 .. 255 : k = executed
  BY <1>1, <1>2, UnderWay, Zenon
<1>4. Fingerprint = PrintOf(k)
  <2>1. unit = Generated(k) /\ Summing(k)
    BY <1>1, <1>2, <1>3, UnderWay, Zenon
  <2>. QED  BY <1>1, <2>1, SummingEnds
<1>5. seen' = PrintsOf(k + 1) /\ behaviors' = Cardinality(SumsOf(k + 1)) /\ executed' = k + 1
  <2>1. seen = PrintsOf(k) /\ behaviors = Cardinality(SumsOf(k))
    BY <1>1, <1>2, <1>3, UnderWay, Zenon
  <2>. QED  BY <1>1, <1>3, <1>4, <2>1, OneMorePrint, Zenon
<1>6. Sample \in Nat /\ k < Sample /\ k \in Nat /\ Sample' = Sample
  <2>1. plan \in Plans
    BY <1>1, Zenon DEF ScoresInv, Doing
  <2>2. k < Sample
    BY <1>1, <1>2, <1>3, UnderWay, Zenon
  <2>. QED  BY <1>1, <2>1, <2>2, PlansAre DEF Sample
<1>7. CASE k + 1 < Sample
  <2>1. unit' = Generated(executed') /\ phase' = "execute" /\ agenda' = agenda /\ results' = results
    BY <1>5, <1>7, Zenon DEF Record
  <2>2. executed' \in Nat /\ executed' < Sample'
    BY <1>5, <1>6, <1>7
  <2>3. seen' = PrintsOf(executed') /\ behaviors' = Cardinality(SumsOf(executed'))
    BY <1>5, Zenon
  <2>4. InH1'
    BY <2>1, <2>2, <2>3 DEF InH1
  <2>. QED  BY <1>1, <1>2, <2>1, <2>4, Continued
<1>8. CASE ~ (k + 1 < Sample)
  <2>1. phase' = "next" /\ Conclude("H1", executed', behaviors', behaviors' >= plan.unique)
    BY <1>5, <1>8, Zenon DEF Record
  <2>2. k + 1 = Sample
    BY <1>6, <1>8
  <2>3. executed' = TotalOf("H1") /\ behaviors' = ScoreOf("H1") /\ plan.unique = TargetOf("H1")
    BY <1>5, <2>2 DEF TotalOf, ScoreOf, TargetOf
  <2>4. (behaviors' >= plan.unique) = (ScoreOf("H1") >= TargetOf("H1"))
    BY <2>3, Zenon
  <2>. QED  BY <1>1, <2>1, <2>3, <2>4, Concluded
<1>. QED  BY <1>7, <1>8

-----------------------------------------------------------------------------
\* H2, step by step.
LEMMA H2Begins ==
  ASSUME ScoresInv, BeginH2
  PROVE  ScoresInv'
<1>1. /\ Doing("H2") /\ unit' = CountingUnit /\ steps' = plan.steps /\ trace' = <<>>
      /\ phase' = IF plan.steps = 0 THEN "detect" ELSE "execute"
      /\ plan' = plan /\ agenda' = agenda /\ results' = results
  BY Zenon DEF BeginH2, campaign
<1>2. plan.steps \in Nat /\ ~ Doing("H1")
  BY <1>1, PlansAre DEF ScoresInv, Doing
<1>3. IsCounter(unit', Len(trace')) /\ CountedUp(trace') /\ Len(trace') = 0
  BY <1>1, CounterStarts, NoStates, Zenon
<1>4. DOMAIN unit' = {"code", "rights", "fuel", "state", "current"}
  BY <1>1 DEF CountingUnit
<1>5. steps' = plan'.steps
  BY <1>1, Zenon
<1>6. CASE plan.steps = 0
  <2>1. Recorded' = 0
    BY <1>1, <1>6, Room DEF Recorded
  <2>2. phase' = "detect"
    BY <1>1, <1>6, Zenon
  <2>3. InH2'
    BY <1>3, <1>5, <2>1, <2>2, Zenon DEF InH2
  <2>. QED  BY <1>1, <1>2, <2>3, Continued
<1>7. CASE plan.steps # 0
  <2>1. phase' = "execute" /\ Len(trace') < steps'
    BY <1>1, <1>2, <1>3, <1>7
  <2>2. InH2'
    BY <1>3, <1>4, <1>5, <2>1 DEF InH2
  <2>. QED  BY <1>1, <1>2, <2>2, Continued
<1>. QED  BY <1>6, <1>7

LEMMA H2UnderWay ==
  ASSUME ScoresInv, Doing("H2"), phase # "next"
  PROVE  /\ plan \in Plans /\ steps = plan.steps /\ CountedUp(trace) /\ Len(trace) \in Nat
         /\ phase \in {"execute", "run", "detect", "done"}
         /\ phase \in {"execute", "run"} =>
              /\ Len(trace) < steps /\ IsCounter(unit, Len(trace))
              /\ DOMAIN unit = {"code", "rights", "fuel", "state", "current"}
         /\ phase = "run" => Counting(Len(trace))
         /\ phase \in {"detect", "done"} => Len(trace) = Recorded
<1>1. plan \in Plans /\ InH2
  BY DEF ScoresInv, Doing
<1>2. CountedUp(trace)
  BY <1>1, Zenon DEF InH2
<1>3. Len(trace) \in Nat
  BY <1>2, NewStates, Zenon
<1>. QED  BY <1>1, <1>3 DEF InH2

LEMMA H2Executes ==
  ASSUME ScoresInv, Doing("H2"), Execute \/ Run, UNCHANGED campaign
  PROVE  ScoresInv'
<1>1. phase # "next" /\ phase \in {"execute", "run"}
  BY DEF Execute, Run
<1>2. PICK k \in Nat : k = Len(trace)
  BY <1>1, H2UnderWay, Zenon
<1>3. PICK u : u = unit
  OBVIOUS
<1>4. /\ plan' = plan /\ agenda' = agenda /\ results' = results
      /\ unit' = unit /\ steps' = steps /\ trace' = trace /\ phase' = "run"
  BY DEF campaign, evolution, Execute, Run
<1>5. Counting(k)'
  <2>1. CASE Execute
    <3>1. LoadUnit(u) /\ IsCounter(u, k)
      BY <1>1, <1>2, <1>3, <2>1, H2UnderWay, Zenon DEF Execute
    <3>. QED  BY <3>1, CountingLoads
  <2>2. CASE Run
    <3>1. Counting(k) /\ MachineStep
      BY <1>1, <1>2, <2>2, H2UnderWay, Zenon DEF Run
    <3>. QED  BY <3>1, CountingStep
  <2>. QED  BY <2>1, <2>2
<1>6. Counting(Len(trace))'
  BY <1>2, <1>4, <1>5, Zenon DEF Counting
<1>7. InH2'
  <2>1. /\ steps = plan.steps /\ CountedUp(trace) /\ Len(trace) < steps /\ IsCounter(unit, Len(trace))
        /\ DOMAIN unit = {"code", "rights", "fuel", "state", "current"}
    BY <1>1, H2UnderWay
  <2>2. /\ steps' = plan'.steps /\ CountedUp(trace') /\ Len(trace') < steps' /\ IsCounter(unit', Len(trace'))
        /\ DOMAIN unit' = {"code", "rights", "fuel", "state", "current"}
    BY <1>4, <2>1, Zenon
  <2>. QED  BY <1>4, <1>6, <2>2, Zenon DEF InH2
<1>8. ~ Doing("H1")
  BY DEF Doing
<1>. QED  BY <1>4, <1>7, <1>8, Continued

\* state_evolve takes the state over, and the unit has counted on.
LEMMA H2Advances ==
  ASSUME ScoresInv, Doing("H2"), Advance, UNCHANGED campaign
  PROVE  ScoresInv'
<1>. DEFINE final == [i \in 1 .. StateSize |-> memory[i - 1]]
            e == [hash |-> final, used |-> Budget(unit) - fuel]
            n == Len(trace)
            u == [unit EXCEPT !.state = final]
<1>1. /\ phase = "run" /\ status = "halted" /\ unit' = u
      /\ trace' = IF n < MaxTrace THEN Append(trace, e) ELSE trace
      /\ phase' = IF n >= MaxTrace \/ n + 1 = steps THEN "detect" ELSE "execute"
      /\ steps' = steps /\ plan' = plan /\ agenda' = agenda /\ results' = results
  BY Zenon DEF Advance, campaign
<1>2. /\ steps = plan.steps /\ CountedUp(trace) /\ n < steps /\ n \in Nat
      /\ IsCounter(unit, n) /\ DOMAIN unit = {"code", "rights", "fuel", "state", "current"}
      /\ Counting(n) /\ plan.steps \in Nat /\ ~ Doing("H1")
  <2>1. phase # "next" /\ ~ Doing("H1")
    BY <1>1 DEF Doing
  <2>. QED  BY <1>1, <2>1, H2UnderWay, PlansAre
<1>3. memory = TapeAt(n + 1)
  <2>1. pc = 5
    BY <1>1, <1>2 DEF Counting
  <2>. QED  BY <1>2, <2>1 DEF Counting
<1>4. e.hash = final /\ final = [i \in 1 .. StateSize |-> TapeAt(n + 1)[i - 1]]
  BY <1>3, Zenon
<1>. HIDE DEF final, e
<1>5. /\ DOMAIN u = {"code", "rights", "fuel", "state", "current"}
      /\ u.code = unit.code /\ u.fuel = unit.fuel /\ u.current = unit.current /\ u.state = final
  BY <1>2
<1>. HIDE DEF u
<1>6. IsCounter(u, n + 1) /\ final[1] = (n + 1) % 256
  <2>. DEFINE k == n + 1
  <2>1. k \in Nat /\ final = [i \in 1 .. StateSize |-> TapeAt(k)[i - 1]]
    BY <1>2, <1>4
  <2>2. unit.code = CountingUnit.code /\ unit.fuel = CountingUnit.fuel /\ unit.current
    BY <1>2, Zenon DEF IsCounter
  <2>. HIDE DEF k
  <2>3. IsCounter(u, k) /\ final[1] = k % 256
    <3>1. final = FinalAt(k)
      BY <2>1, Zenon DEF FinalAt
    <3>2. u.code = CountingUnit.code /\ u.fuel = CountingUnit.fuel /\ u.current /\ u.state = FinalAt(k)
      BY <1>5, <2>2, <3>1, Zenon
    <3>3. IsCounter(u, k) /\ FinalAt(k)[1] = k % 256
      BY <2>1, <3>2, CounterAdvances
    <3>. QED  BY <3>1, <3>3, Zenon
  <2>. QED  BY <2>3 DEF k
<1>7. MaxTrace \in Nat /\ n <= MaxTrace
  <2>1. n <= MaxTrace
    BY <1>2, Zenon DEF CountedUp
  <2>. QED  BY <2>1, Room
<1>8. steps' = plan'.steps
  BY <1>1, <1>2, Zenon
<1>9. CASE n < MaxTrace
  <2>1. e.hash[1] = (n + 1) % 256
    BY <1>4, <1>6, Zenon
  <2>2. trace' = Append(trace, e)
    BY <1>1, <1>9, Zenon
  <2>3. CountedUp(trace') /\ Len(trace') = n + 1
    BY <1>2, <1>9, <2>1, <2>2, OneMoreState, Zenon
  <2>. HIDE DEF n
  <2>4. CASE n + 1 = steps
    <3>1. phase' = "detect"
      BY <1>1, <2>4, Zenon
    <3>2. Recorded = n + 1
      BY <1>2, <1>7, <1>9, <2>4 DEF Recorded
    <3>3. Len(trace') = Recorded'
      BY <1>1, <2>3, <3>2, Zenon DEF Recorded
    <3>4. InH2'
      BY <1>8, <2>3, <3>1, <3>3, Zenon DEF InH2
    <3>. QED  BY <1>1, <1>2, <3>4, Continued
  <2>5. CASE n + 1 # steps
    <3>1. phase' = "execute"
      BY <1>1, <1>2, <1>7, <1>9, <2>5
    <3>2. n + 1 < steps
      BY <1>2, <2>5
    <3>3. Len(trace') < steps' /\ IsCounter(unit', Len(trace'))
          /\ DOMAIN unit' = {"code", "rights", "fuel", "state", "current"}
      BY <1>1, <1>5, <1>6, <2>3, <3>2, Zenon
    <3>4. InH2'
      BY <1>8, <2>3, <3>1, <3>3 DEF InH2
    <3>. QED  BY <1>1, <1>2, <3>4, Continued
  <2>. QED  BY <2>4, <2>5
<1>10. CASE ~ (n < MaxTrace)
  <2>1. trace' = trace
    BY <1>1, <1>10, Zenon
  <2>2. Len(trace') = n
    BY <2>1
  <2>3. CountedUp(trace')
    BY <1>2, <2>1, Zenon
  <2>. HIDE DEF n
  <2>4. n = MaxTrace
    BY <1>2, <1>7, <1>10
  <2>5. Recorded = n
    BY <1>2, <1>7, <2>4 DEF Recorded
  <2>6. phase' = "detect"
    BY <1>1, <1>7, <2>4
  <2>7. Len(trace') = Recorded'
    BY <1>1, <2>2, <2>5, Zenon DEF Recorded
  <2>8. InH2'
    BY <1>8, <2>3, <2>6, <2>7, Zenon DEF InH2
  <2>. QED  BY <1>1, <1>2, <2>8, Continued
<1>. QED  BY <1>9, <1>10

LEMMA H2Detects ==
  ASSUME ScoresInv, Doing("H2"), Detect, UNCHANGED campaign
  PROVE  ScoresInv'
<1>1. /\ phase = "detect" /\ phase' = "done" /\ trace' = trace /\ steps' = steps
      /\ plan' = plan /\ agenda' = agenda /\ results' = results
  BY Zenon DEF Detect, campaign
<1>2. phase # "next" /\ ~ Doing("H1")
  BY <1>1 DEF Doing
<1>3. steps = plan.steps /\ CountedUp(trace) /\ Len(trace) = Recorded
  BY <1>1, <1>2, H2UnderWay
<1>4. steps' = plan'.steps /\ CountedUp(trace') /\ Len(trace') = Recorded'
  BY <1>1, <1>3, Zenon DEF Recorded
<1>5. InH2'
  BY <1>1, <1>4, Zenon DEF InH2
<1>. QED  BY <1>1, <1>2, <1>5, Continued

\* The counter is of this version, and never fails.
LEMMA H2NeverStops ==
  ASSUME ScoresInv, Doing("H2")
  PROVE  ~ Refuse /\ ~ Abandon
<1>1. ~ Refuse
  <2>1. ASSUME Refuse  PROVE FALSE
    <3>1. phase = "execute" /\ ~ unit.current
      BY <2>1 DEF Refuse
    <3>2. IsCounter(unit, Len(trace))
      BY <3>1, H2UnderWay
    <3>. QED  BY <3>1, <3>2, Zenon DEF IsCounter
  <2>. QED  BY <2>1
<1>2. ~ Abandon
  <2>1. ASSUME Abandon  PROVE FALSE
    <3>1. phase = "run" /\ status \in Errors
      BY <2>1 DEF Abandon
    <3>2. Counting(Len(trace))
      BY <3>1, H2UnderWay
    <3>3. status = "halted" \/ status = "running"
      BY <3>2, Zenon DEF Counting
    <3>. QED  BY <3>1, <3>3 DEF Errors
  <2>. QED  BY <2>1
<1>. QED  BY <1>1, <1>2

\* The counter has come to a new state in every step that is recorded.
LEMMA H2Judged ==
  ASSUME ScoresInv, JudgeH2
  PROVE  ScoresInv'
<1>. DEFINE distinct == Cardinality({trace[i].hash : i \in 1 .. Len(trace)})
<1>1. /\ Doing("H2") /\ phase = "done" /\ phase' = "next" /\ plan' = plan
      /\ Conclude("H2", Len(trace), distinct, distinct >= plan.distinct)
  BY Zenon DEF JudgeH2
<1>2. phase # "next"
  BY <1>1
<1>3. CountedUp(trace) /\ Len(trace) = Recorded
  BY <1>1, <1>2, H2UnderWay
<1>4. distinct = Recorded
  BY <1>3, NewStates, Zenon
<1>. HIDE DEF distinct
<1>5. Len(trace) = TotalOf("H2") /\ distinct = ScoreOf("H2") /\ plan.distinct = TargetOf("H2")
  BY <1>3, <1>4 DEF TotalOf, ScoreOf, TargetOf
<1>6. (distinct >= plan.distinct) = (ScoreOf("H2") >= TargetOf("H2"))
  BY <1>5, Zenon
<1>. QED  BY <1>1, <1>5, <1>6, Concluded

LEMMA H3Judged ==
  ASSUME ScoresInv, JudgeH3
  PROVE  ScoresInv'
<1>. DEFINE score == Cardinality({t \in 1 .. 4 :
                       <<AuthorizedCopies, UnauthorizedMakesNone, CopiesAreValid, NeighboursDiffer>>[t]})
<1>1. /\ Doing("H3") /\ phase' = "next" /\ plan' = plan
      /\ Conclude("H3", 4, score, score = 4)
  BY Zenon DEF JudgeH3
<1>2. plan.replicas \in Nat
  BY <1>1, PlansAre DEF ScoresInv, Doing
<1>3. score = IF plan.replicas = 0 THEN 3 ELSE 4
  BY <1>2, H3Score, Zenon
<1>. HIDE DEF score
<1>4. 4 = TotalOf("H3") /\ score = ScoreOf("H3") /\ 4 = TargetOf("H3")
  BY <1>3 DEF TotalOf, ScoreOf, TargetOf
<1>5. (score = 4) = (score >= 4)
  BY <1>3
<1>6. (score = 4) = (ScoreOf("H3") >= TargetOf("H3"))
  BY <1>4, <1>5, Zenon
<1>. QED  BY <1>1, <1>4, <1>6, Concluded

-----------------------------------------------------------------------------
LEMMA ScoresInit ==
  ASSUME CommandInit
  PROVE  ScoresInv
<1>1. results = [h \in {"H1", "H2", "H3"} |-> Unmeasured]
  BY Zenon DEF CommandInit, ExperimentsInit
<1>2. DOMAIN results = {"H1", "H2", "H3"} /\ ScoresAreEarned
  BY <1>1, Zenon DEF ScoresAreEarned
<1>3. CASE agenda = <<>>
  BY <1>2, <1>3, Zenon DEF ScoresInv, Agendas, Doing
<1>4. CASE agenda # <<>>
  <2>1. /\ plan \in Plans /\ agenda \in {<<"H1">>, <<"H2">>, <<"H3">>, <<"H1", "H2", "H3">>}
        /\ executed = 0 /\ seen = {} /\ behaviors = 0 /\ phase = "next"
    BY <1>4, Zenon DEF CommandInit, ExperimentsInit
  <2>2. agenda \in Agendas
    BY <2>1, Zenon DEF Agendas
  <2>. QED  BY <1>2, <2>1, <2>2, Zenon DEF ScoresInv, InH1, InH2
<1>. QED  BY <1>3, <1>4

LEMMA ScoresRest ==
  ASSUME ScoresInv, UNCHANGED AllVars
  PROVE  ScoresInv'
<1>1. /\ plan' = plan /\ agenda' = agenda /\ results' = results
      /\ executed' = executed /\ seen' = seen /\ behaviors' = behaviors
      /\ unit' = unit /\ steps' = steps /\ trace' = trace /\ phase' = phase
      /\ code' = code /\ pc' = pc /\ fuel' = fuel /\ regs' = regs /\ output' = output
      /\ memory' = memory /\ status' = status
  BY DEF AllVars, campaign, vars, evolution, machine, program, store
<1>2. InH1' <=> InH1
  BY <1>1, Zenon DEF InH1, Sample, Summing
<1>3. InH2' <=> InH2
  BY <1>1, Zenon DEF InH2, Recorded, Counting
<1>. QED  BY <1>1, <1>2, <1>3, Continued, Zenon DEF ScoresInv

LEMMA ScoresStep ==
  ASSUME ScoresInv, [CommandNext]_AllVars
  PROVE  ScoresInv'
<1>1. CASE UNCHANGED AllVars
  BY <1>1, ScoresRest
<1>2. CASE Evolving
  <2>1. (agenda = <<>> \/ Doing("H2")) /\ Next /\ UNCHANGED campaign
    BY <1>2, Zenon DEF Evolving
  <2>2. CASE agenda = <<>>
    <3>1. plan' = plan /\ agenda' = agenda /\ results' = results
      BY <2>1, Zenon DEF campaign
    <3>. QED  BY <2>2, <3>1, Continued, Zenon DEF Doing
  <2>3. CASE Doing("H2")
    BY <2>1, <2>3, H2NeverStops, H2Executes, H2Advances, H2Detects, Zenon DEF Next
  <2>. QED  BY <2>1, <2>2, <2>3
<1>3. CASE Doing("H1") /\ (Execute \/ Run) /\ UNCHANGED campaign
  BY <1>3, H1Executes
<1>4. CASE EndExperiments
  <2>1. agenda = <<>> /\ plan' = plan /\ agenda' = agenda /\ results' = results
    BY <1>4, Zenon DEF EndExperiments, campaign
  <2>. QED  BY <2>1, Continued, Zenon DEF Doing
<1>5. CASE BeginH1
  BY <1>5, H1Begins
<1>6. CASE Record
  BY <1>6, H1Records
<1>7. CASE BeginH2
  BY <1>7, H2Begins
<1>8. CASE JudgeH2
  BY <1>8, H2Judged
<1>9. CASE JudgeH3
  BY <1>9, H3Judged
<1>. QED  BY <1>1, <1>2, <1>3, <1>4, <1>5, <1>6, <1>7, <1>8, <1>9, Zenon DEF CommandNext, ExperimentsNext

\* The experiments of experiments.c score what their programs deserve, whatever
\* num_units, steps, replica_count and the targets are, and whatever an
\* experiment before them has left in the machine: unit i of H1 prints i plus
\* the low byte of 3i + 7, H2 comes to a new state in every recorded step, and
\* only a missing replica fails H3.
THEOREM ExperimentsAreScored == CommandSpec => []ScoresAreEarned
<1>1. CommandInit => ScoresInv
  BY ScoresInit
<1>2. ScoresInv /\ [CommandNext]_AllVars => ScoresInv'
  BY ScoresStep
<1>3. ScoresInv => ScoresAreEarned
  BY Zenon DEF ScoresInv
<1>. QED  BY <1>1, <1>2, <1>3, PTL DEF CommandSpec

-----------------------------------------------------------------------------

(* The commands. What holds of an evolution holds of the experiments too,  *)
(* which run other units on the same machine and one after the other: H1   *)
(* leaves the trace empty, H2 begins a new one, and what the detectors     *)
(* found stays true of the trace they found it in.                         *)

\* H1 comes first, before anything is traced.
H1Untraced ==
  Doing("H1") => trace = <<>> /\ steps \in Nat /\ phase \in {"next", "execute", "run"}

CommandInv ==
  /\ agenda \in Agendas /\ (agenda # <<>> => plan \in Plans) /\ executed \in Nat
  /\ TypeOK /\ Executed /\ steps \in Nat /\ trace \in Seq(Entries)
  /\ phase \in {"execute", "run"} => Doing("H1") \/ Len(trace) < steps
  /\ phase = "run" => fuel <= Budget(unit)
  /\ H1Untraced
  /\ phase = "next" \/ Doing("H1") => Detected

\* The units of the experiments.
LEMMA GeneratedTyped ==
  ASSUME NEW i \in 0 .. 255
  PROVE  /\ Generated(i) \in [code : Seq(Byte), rights : SUBSET (0 .. 63), fuel : Word,
                              state : Seq(Byte), current : BOOLEAN]
         /\ Len(Generated(i).state) <= StateSize
<1>1. Generated(i).code \in Seq(Byte)
  BY SumCode DEF ReadsAs
<1>2. 200 \in Word
  BY WordRange
<1>3. <<>> \in Seq(Byte) /\ Len(<<>>) = 0 /\ {} \in SUBSET (0 .. 63)
  BY EmptySeq
<1>. DEFINE w == 200
<1>4. Generated(i) = [code |-> Generated(i).code, rights |-> {}, fuel |-> w, state |-> <<>>, current |-> TRUE]
  BY Zenon DEF Generated
<1>. HIDE DEF w
<1>5. w \in Word
  BY <1>2 DEF w
<1>. DEFINE c == Generated(i).code  Rights == SUBSET (0 .. 63)
<1>6. {} \in Rights /\ c \in Seq(Byte)
  BY <1>1, <1>3
<1>. HIDE DEF c, Rights
<1>7. [code |-> c, rights |-> {}, fuel |-> w, state |-> <<>>, current |-> TRUE]
        \in [code : Seq(Byte), rights : Rights, fuel : Word, state : Seq(Byte), current : BOOLEAN]
  BY <1>3, <1>5, <1>6
<1>8. Generated(i).state = <<>>
  BY DEF Generated
<1>9. 0 <= StateSize
  BY EvolutionAssumption
<1>. QED  BY <1>3, <1>4, <1>7, <1>8, <1>9, Zenon DEF c, Rights

LEMMA CountingTyped ==
  /\ CountingUnit \in [code : Seq(Byte), rights : SUBSET (0 .. 63), fuel : Word,
                       state : Seq(Byte), current : BOOLEAN]
  /\ Len(CountingUnit.state) <= StateSize
<1>1. CountingUnit.code \in Seq(Byte)
  BY CountCode DEF ReadsAs
<1>2. 100 \in Word /\ 0 \in Byte
  BY WordRange DEF Byte
<1>3. <<0>> \in Seq(Byte) /\ Len(<<0>>) = 1 /\ {} \in SUBSET (0 .. 63)
  BY <1>2
<1>. DEFINE w == 100  c == CountingUnit.code  Rights == SUBSET (0 .. 63)  z == <<0>>
<1>4. CountingUnit = [code |-> c, rights |-> {}, fuel |-> w, state |-> z, current |-> TRUE]
  BY Zenon DEF CountingUnit
<1>5. w \in Word /\ c \in Seq(Byte) /\ {} \in Rights /\ z \in Seq(Byte)
  BY <1>1, <1>2, <1>3
<1>. HIDE DEF w, c, Rights, z
<1>6. [code |-> c, rights |-> {}, fuel |-> w, state |-> z, current |-> TRUE]
        \in [code : Seq(Byte), rights : Rights, fuel : Word, state : Seq(Byte), current : BOOLEAN]
  BY <1>5
<1>7. CountingUnit.state = z
  BY DEF CountingUnit, z
<1>8. Len(z) = 1 /\ 1 <= StateSize
  BY <1>3, EvolutionAssumption DEF z
<1>. QED  BY <1>4, <1>6, <1>7, <1>8 DEF Rights

\* A unit with the fields of its type, and code that is bytes.
LEMMA TypedFields ==
  ASSUME NEW u \in [code : Seq(Byte), rights : SUBSET (0 .. 63), fuel : Word,
                    state : Seq(Byte), current : BOOLEAN]
  PROVE  /\ u.code \in Seq(Byte) /\ u.fuel \in Word
         /\ u = [code |-> u.code, rights |-> u.rights, fuel |-> u.fuel,
                 state |-> u.state, current |-> u.current]
OBVIOUS

\* An empty trace has no cycle.
LEMMA NothingDetected ==
  ASSUME trace = <<>>, fixed = None, cycle = [start |-> None, length |-> 0]
  PROVE  Detected
<1>1. Len(trace) = 0
  BY EmptySeq
<1>2. Repeats = {} /\ Returns = {}
  BY <1>1 DEF Repeats, Returns
<1>. QED  BY <1>2 DEF Detected

\* Another unit takes the machine, with an empty trace.
LEMMA UnitTaken ==
  ASSUME CommandInv, UNCHANGED machine, phase' \in {"next", "execute", "detect"},
         unit' \in [code : Seq(Byte), rights : SUBSET (0 .. 63), fuel : Word,
                    state : Seq(Byte), current : BOOLEAN],
         Len(unit'.state) <= StateSize,
         trace' = <<>>, steps' \in Nat, fixed' = None \/ fixed' = fixed,
         cycle' = [start |-> None, length |-> 0] \/ cycle' = cycle
  PROVE  /\ TypeOK' /\ Executed' /\ steps' \in Nat /\ trace' \in Seq(Entries)
         /\ Len(trace') = 0 /\ phase' # "run"
<1>1. Len(trace') = 0 /\ trace' \in Seq(Entries) /\ trace' \in Seq(Nat)
  BY EmptySeq
<1>2. MachineTypeOK' /\ fuel' = fuel /\ Nested'
  BY NestedRests DEF CommandInv, TypeOK, MachineTypeOK, machine, program, store, Executed, UnitNested
<1>3. fixed' \in Int /\ cycle' \in [start : Int, length : Nat]
  BY DEF CommandInv, TypeOK, None
<1>4. Len(trace') <= MaxTrace /\ Len(trace') <= steps' /\ \A i : i \notin 1 .. Len(trace')
  BY <1>1, EvolutionAssumption
<1>5. TypeOK'
  BY <1>2, <1>3, <1>4, Zenon DEF TypeOK
<1>6. /\ unit'.code \in Seq(Byte) /\ unit'.fuel \in Word
      /\ unit' = [code |-> unit'.code, rights |-> unit'.rights, fuel |-> unit'.fuel,
                  state |-> unit'.state, current |-> unit'.current]
  BY TypedFields, Zenon
<1>7. UnitNested'
  BY <1>2, <1>6 DEF UnitNested
<1>8. Executed'
  <2>1. Len(trace') \in Nat /\ ~ (Len(trace') > 0) /\ \A i : i \notin 1 .. Len(trace') - 1
    BY <1>1
  <2>2. fuel' \in Nat
    BY <1>2 DEF CommandInv, Executed
  <2>3. phase' # "run" /\ phase' # "done"
    OBVIOUS
  <2>. QED  BY <1>1, <1>6, <1>7, <2>1, <2>2, <2>3, Zenon DEF Executed
<1>. QED  BY <1>1, <1>5, <1>8

LEMMA CommandBegins ==
  ASSUME CommandInit  PROVE CommandInv
<1>1. executed = 0 /\ agenda \in Agendas /\ (agenda # <<>> => plan \in Plans)
  BY Zenon DEF CommandInit, ExperimentsInit, Agendas
<1>2. executed \in Nat
  BY <1>1
<1>3. CASE Init /\ agenda = <<>>
  <2>1. EvolutionTyped /\ Executed
    BY <1>3, EvolutionTypedInit, ExecutedInit
  <2>2. phase \in {"execute", "detect"}
    BY <1>3 DEF Init
  <2>3. ~ Doing("H1")
    BY <1>3 DEF Doing
  <2>. QED  BY <1>1, <1>2, <2>1, <2>2, <2>3 DEF CommandInv, EvolutionTyped, H1Untraced
<1>4. CASE ExperimentsInit
  <2>1. /\ unit = [code |-> <<>>, rights |-> {}, fuel |-> 0, state |-> <<>>, current |-> TRUE]
        /\ steps = 0 /\ phase = "next" /\ trace = <<>> /\ fixed = None
        /\ cycle = [start |-> None, length |-> 0] /\ MachineInit
    BY <1>4, Zenon DEF ExperimentsInit
  <2>2. MachineTypeOK /\ Nested /\ fuel = 0
    BY <2>1, MachineTypesAtFirst, NestedAtFirst DEF MachineInit
  <2>3. 0 \in Word /\ <<>> \in Seq(Byte) /\ Len(<<>>) = 0 /\ {} \in SUBSET (0 .. 63)
    BY WordRange, EmptySeq
  <2>4. /\ unit \in [code : Seq(Byte), rights : SUBSET (0 .. 63), fuel : Word,
                     state : Seq(Byte), current : BOOLEAN]
        /\ Len(unit.state) <= StateSize
    <3>. DEFINE Rights == SUBSET (0 .. 63)  w == 0
    <3>1. {} \in Rights /\ w \in Word
      BY <2>3
    <3>2. unit = [code |-> <<>>, rights |-> {}, fuel |-> w, state |-> <<>>, current |-> TRUE]
      BY <2>1
    <3>. HIDE DEF Rights, w
    <3>3. unit \in [code : Seq(Byte), rights : Rights, fuel : Word, state : Seq(Byte), current : BOOLEAN]
          /\ unit.state = <<>>
      BY <2>3, <3>1, <3>2
    <3>. QED  BY <2>3, <3>3, EvolutionAssumption DEF Rights
  <2>5. trace \in Seq(Entries) /\ trace \in Seq(Nat) /\ Len(trace) = 0
        /\ (\A i : i \notin 1 .. Len(trace)) /\ (\A i : i \notin 1 .. Len(trace) - 1)
    BY <2>1, EmptySeq
  <2>6. fixed \in Int /\ cycle \in [start : Int, length : Nat] /\ Len(trace) <= MaxTrace /\ Len(trace) <= steps
    BY <2>1, <2>5, EvolutionAssumption DEF None
  <2>7. TypeOK
    BY <2>1, <2>2, <2>4, <2>5, <2>6, Zenon DEF TypeOK
  <2>8. unit.code \in Seq(Byte) /\ unit.fuel \in Word
        /\ unit = [code |-> unit.code, rights |-> unit.rights, fuel |-> unit.fuel,
                   state |-> unit.state, current |-> unit.current]
    BY <2>4, TypedFields, Zenon
  <2>9. Len(trace) \in Nat /\ ~ (Len(trace) > 0) /\ fuel \in Nat
    BY <2>2, <2>5
  <2>10. Executed
    BY <2>1, <2>2, <2>5, <2>8, <2>9, Zenon DEF Executed, UnitNested
  <2>11. Detected
    BY <2>1, NothingDetected
  <2>12. steps \in Nat /\ phase = "next"
    BY <2>1
  <2>. QED  BY <1>1, <1>2, <2>1, <2>5, <2>7, <2>10, <2>11, <2>12 DEF CommandInv, H1Untraced
<1>. QED  BY <1>3, <1>4, Zenon DEF CommandInit

\* The evolution's own steps, for the command `evolve` and for H2.
LEMMA CommandEvolves ==
  ASSUME CommandInv, [Next]_vars, UNCHANGED campaign, ~ Doing("H1")
  PROVE  CommandInv'
<1>1. EvolutionTyped /\ Executed
  BY DEF CommandInv, EvolutionTyped, Executed
<1>2. EvolutionTyped' /\ Executed'
  BY <1>1, EvolutionTypedStep, ExecutedStep
<1>3. agenda' = agenda /\ plan' = plan /\ executed' = executed
  BY DEF campaign
<1>4. ~ Doing("H1")'
  BY <1>3 DEF Doing
<1>5. phase' = "next" => Detected'
  <2>1. phase' = "next" => UNCHANGED vars
    BY DEF Next, Refuse, Execute, Run, Abandon, Advance, Detect
  <2>2. UNCHANGED vars => phase' = phase /\ trace' = trace /\ fixed' = fixed /\ cycle' = cycle
    BY DEF vars, evolution
  <2>3. UNCHANGED vars /\ Detected => Detected'
    BY <2>2 DEF Detected, Returns, Repeats, Same
  <2>. QED  BY <2>1, <2>2, <2>3 DEF CommandInv
<1>. QED  BY <1>2, <1>3, <1>4, <1>5 DEF CommandInv, EvolutionTyped, H1Untraced

\* The units of H1 are executed by the same steps.
LEMMA CommandExecutes ==
  ASSUME CommandInv, Doing("H1"), Execute \/ Run, UNCHANGED campaign
  PROVE  CommandInv'
<1>1. Executed'
  <2>1. [Next]_vars
    BY DEF Next
  <2>. QED  BY <2>1, ExecutedStep DEF CommandInv
<1>2. UNCHANGED evolution /\ phase' = "run" /\ UNCHANGED <<unit, steps, trace, fixed, cycle>>
  BY DEF Execute, Run, evolution
<1>3. Typed(unit) /\ Nested /\ Budget(unit)' = Budget(unit)
  BY <1>2, UnitTyped DEF CommandInv, Executed, UnitNested, Budget
<1>4. MachineTypeOK' /\ fuel' <= Budget(unit)
  <2>1. CASE Execute
    BY <1>3, <2>1, MachineTypesAtLoad DEF Execute
  <2>2. CASE Run
    <3>1. MachineTypeOK /\ MachineStep /\ phase = "run"
      BY <2>2 DEF Run, CommandInv, TypeOK
    <3>2. MachineTypeOK' /\ fuel' <= fuel /\ fuel <= Budget(unit)
      BY <1>3, <3>1, MachineTypesStep DEF CommandInv
    <3>3. fuel' \in Word /\ fuel \in Word /\ Budget(unit) \in Word
      BY <1>3, <3>1, <3>2, BudgetType DEF MachineTypeOK, Typed
    <3>4. fuel' \in Nat /\ fuel \in Nat /\ Budget(unit) \in Nat
      BY <3>3, WordNat
    <3>. QED  BY <3>2, <3>4
  <2>. QED  BY <2>1, <2>2
<1>5. TypeOK'
  BY <1>2, <1>4 DEF CommandInv, TypeOK
<1>6. agenda' = agenda /\ plan' = plan /\ executed' = executed /\ Doing("H1")'
  BY DEF campaign, Doing
<1>7. Detected'
  BY <1>2 DEF CommandInv, Detected, Returns, Repeats, Same
<1>. QED  BY <1>1, <1>2, <1>3, <1>4, <1>5, <1>6, <1>7 DEF CommandInv, H1Untraced

\* Between two experiments.
LEMMA CommandRests ==
  ASSUME CommandInv, UNCHANGED <<machine, evolution>>, phase' \in {"next", "done"}, plan' = plan,
         executed' \in Nat, agenda' \in Agendas, agenda' # <<>> => agenda # <<>>,
         ~ Doing("H1")', Detected
  PROVE  CommandInv'
<1>1. UNCHANGED <<unit, steps, trace, fixed, cycle>>
  BY DEF evolution
<1>2. MachineTypeOK' /\ fuel' = fuel /\ UnitNested'
  BY <1>1, NestedRests DEF CommandInv, TypeOK, MachineTypeOK, machine, program, store, Executed, UnitNested
<1>3. TypeOK'
  BY <1>1, <1>2 DEF CommandInv, TypeOK
<1>4. Detected'
  BY <1>1 DEF Detected, Returns, Repeats, Same
<1>5. Job(unit)' = Job(unit)
  BY <1>1 DEF Job, Budget
<1>6. Executed'
  BY <1>1, <1>2, <1>4, <1>5 DEF CommandInv, Executed
<1>. QED  BY <1>1, <1>3, <1>4, <1>6 DEF CommandInv, H1Untraced

\* The next unit of H1, from one that is done or from nothing.
LEMMA NextGenerated ==
  ASSUME CommandInv, Doing("H1"), NEW i \in 0 .. 255, unit' = Generated(i), phase' = "execute",
         UNCHANGED <<machine, steps, trace, fixed, cycle, plan, agenda>>, executed' \in Nat
  PROVE  CommandInv'
<1>1. trace' = <<>> /\ steps' \in Nat
  BY DEF CommandInv, H1Untraced
<1>2. /\ unit' \in [code : Seq(Byte), rights : SUBSET (0 .. 63), fuel : Word,
                    state : Seq(Byte), current : BOOLEAN]
      /\ Len(unit'.state) <= StateSize
  BY GeneratedTyped, Zenon
<1>3. TypeOK' /\ Executed' /\ trace' \in Seq(Entries)
  BY <1>1, <1>2, UnitTaken
<1>4. Doing("H1")'
  BY DEF Doing
<1>5. Detected'
  <2>1. Detected /\ trace' = trace /\ fixed' = fixed /\ cycle' = cycle
    BY DEF CommandInv
  <2>. QED  BY <2>1 DEF Detected, Returns, Repeats, Same
<1>. QED  BY <1>1, <1>3, <1>4, <1>5 DEF CommandInv, H1Untraced

LEMMA CommandBeginsH1 ==
  ASSUME CommandInv, BeginH1  PROVE CommandInv'
<1>1. /\ Doing("H1") /\ unit' = Generated(0) /\ phase' = "execute"
      /\ UNCHANGED <<machine, steps, trace, fixed, cycle, plan, agenda, executed>>
  BY DEF BeginH1, campaign
<1>2. 0 \in 0 .. 255 /\ executed' \in Nat
  BY <1>1 DEF CommandInv
<1>. QED  BY <1>1, <1>2, NextGenerated

LEMMA CommandRecords ==
  ASSUME CommandInv, Record  PROVE CommandInv'
<1>1. /\ Doing("H1") /\ phase = "run" /\ executed' = executed + 1 /\ plan' = plan
      /\ UNCHANGED <<machine, steps, trace, fixed, cycle>>
  BY DEF Record
<1>2. agenda \in Agendas /\ agenda # <<>> /\ executed' \in Nat
  BY <1>1 DEF CommandInv, Doing
<1>3. CASE executed' < Sample
  <2>1. unit' = Generated(executed') /\ phase' = "execute" /\ agenda' = agenda
    BY <1>3 DEF Record
  <2>2. executed' \in 0 .. 255
    BY <1>2, <1>3, PlansAre DEF CommandInv
  <2>3. PICK i \in 0 .. 255 : i = executed'
    BY <2>2
  <2>. QED  BY <1>1, <1>2, <2>1, <2>3, NextGenerated
<1>4. CASE ~ (executed' < Sample)
  <2>1. unit' = unit /\ phase' = "next" /\ agenda' = Tail(agenda)
    BY <1>4 DEF Record, Conclude
  <2>2. agenda' \in Agendas /\ ~ Doing("H1")'
    BY <1>2, <2>1, AgendaShrinks DEF Doing
  <2>3. Detected /\ UNCHANGED <<machine, evolution>>
    BY <1>1, <2>1 DEF CommandInv, evolution
  <2>. QED  BY <1>1, <1>2, <2>1, <2>2, <2>3, CommandRests
<1>. QED  BY <1>3, <1>4

LEMMA CommandBeginsH2 ==
  ASSUME CommandInv, BeginH2  PROVE CommandInv'
<1>1. /\ Doing("H2") /\ unit' = CountingUnit /\ steps' = plan.steps
      /\ trace' = <<>> /\ fixed' = None /\ cycle' = [start |-> None, length |-> 0]
      /\ phase' = (IF plan.steps = 0 THEN "detect" ELSE "execute")
      /\ UNCHANGED <<machine, plan, agenda, executed>>
  BY DEF BeginH2, campaign
<1>2. plan.steps \in Nat
  BY <1>1, PlansAre DEF CommandInv, Doing
<1>3. steps' \in Nat /\ phase' \in {"detect", "execute"} /\ (phase' = "execute" => 0 < steps')
  BY <1>1, <1>2
<1>4. /\ unit' \in [code : Seq(Byte), rights : SUBSET (0 .. 63), fuel : Word,
                    state : Seq(Byte), current : BOOLEAN]
      /\ Len(unit'.state) <= StateSize
  BY <1>1, CountingTyped, Zenon
<1>5. TypeOK' /\ Executed' /\ trace' \in Seq(Entries) /\ Len(trace') = 0
  BY <1>1, <1>3, <1>4, UnitTaken
<1>6. ~ Doing("H1")'
  BY <1>1 DEF Doing
<1>. QED  BY <1>1, <1>3, <1>5, <1>6 DEF CommandInv, H1Untraced

LEMMA CommandConcludes ==
  ASSUME CommandInv, JudgeH2 \/ JudgeH3 \/ EndExperiments  PROVE CommandInv'
<1>1. /\ UNCHANGED <<machine, evolution>> /\ plan' = plan /\ executed' = executed
      /\ phase \in {"next", "done"} /\ phase' \in {"next", "done"}
  BY DEF JudgeH2, JudgeH3, EndExperiments, campaign
<1>2. agenda' \in Agendas /\ (agenda' # <<>> => agenda # <<>>) /\ ~ Doing("H1")'
  <2>1. CASE agenda' = agenda /\ agenda = <<>>
    BY <2>1 DEF CommandInv, Doing
  <2>2. CASE agenda' = Tail(agenda) /\ agenda # <<>>
    BY <2>2, AgendaShrinks DEF CommandInv, Doing
  <2>. QED  BY <2>1, <2>2 DEF JudgeH2, JudgeH3, EndExperiments, campaign, Conclude, Doing
<1>3. Detected /\ executed' \in Nat
  BY <1>1 DEF CommandInv, Executed
<1>. QED  BY <1>1, <1>2, <1>3, CommandRests

LEMMA CommandGoesOn ==
  ASSUME CommandInv, [CommandNext]_AllVars
  PROVE  CommandInv'
<1>1. CASE UNCHANGED AllVars
  <2>1. UNCHANGED vars /\ UNCHANGED campaign
    BY <1>1 DEF AllVars
  <2>2. CASE ~ Doing("H1")
    BY <2>1, <2>2, CommandEvolves
  <2>3. CASE Doing("H1")
    <3>1. UNCHANGED <<machine, unit, steps, trace, fixed, cycle, phase>>
      BY <2>1 DEF vars, evolution
    <3>2. Job(unit)' = Job(unit) /\ Budget(unit)' = Budget(unit) /\ Machine' = Machine /\ fuel' = fuel
      BY <3>1 DEF Job, Budget, Machine, machine, program, store
    <3>3. Detected'
      BY <2>3, <3>1 DEF CommandInv, Detected, Returns, Repeats, Same
    <3>4. MachineTypeOK' /\ UnitNested'
      BY <3>1, NestedRests DEF CommandInv, TypeOK, MachineTypeOK, machine, program, store, Executed, UnitNested
    <3>5. TypeOK'
      BY <3>1, <3>4 DEF CommandInv, TypeOK
    <3>6. Executed'
      BY <3>1, <3>2, <3>3, <3>4 DEF CommandInv, Executed
    <3>7. UNCHANGED <<agenda, plan, executed>> /\ Doing("H1")'
      BY <2>1, <2>3 DEF campaign, Doing
    <3>. QED  BY <2>3, <3>1, <3>2, <3>3, <3>5, <3>6, <3>7 DEF CommandInv, H1Untraced
  <2>. QED  BY <2>2, <2>3
<1>2. CASE Evolving
  <2>1. ~ Doing("H1") /\ Next /\ UNCHANGED campaign
    BY <1>2 DEF Evolving, Doing
  <2>. QED  BY <2>1, CommandEvolves
<1>3. CASE Doing("H1") /\ (Execute \/ Run) /\ UNCHANGED campaign
  BY <1>3, CommandExecutes
<1>. QED
  BY <1>1, <1>2, <1>3, CommandBeginsH1, CommandRecords, CommandBeginsH2, CommandConcludes, Zenon
  DEF CommandNext, ExperimentsNext

\* A step of a command is one of the evolution's, or leaves the machine alone.
LEMMA CommandStepIs ==
  ASSUME [CommandNext]_AllVars
  PROVE  [Next]_vars \/ UNCHANGED machine
BY DEF CommandNext, ExperimentsNext, Evolving, AllVars, BeginH1, Record, BeginH2, JudgeH2, JudgeH3,
       EndExperiments, Next

\* Registers, memory, stacks and trace keep their types and their bounds
\* through any sequence of experiments too (vm.c, state.c, experiments.c).
THEOREM CommandTypes == CommandSpec => []TypeOK
<1>1. CommandInv => TypeOK
  BY DEF CommandInv
<1>. QED  BY <1>1, CommandBegins, CommandGoesOn, PTL DEF CommandSpec

\* RET goes behind a CALL of the loaded program, whichever unit the machine was
\* last given (vm.c:184-192).
THEOREM CommandCallsNest == CommandSpec => []ReturnsFollowCalls
<1>1. CommandInv => ReturnsFollowCalls
  BY DEF CommandInv, Executed, UnitNested, Nested
<1>. QED  BY <1>1, CommandBegins, CommandGoesOn, PTL DEF CommandSpec

\* A verified program stays inside its code and its rights, after whatever
\* other programs on the same machine (verifier.c:13-77).
THEOREM CommandStaysVerified == CommandSpec => []VerifiedStays
<1>1. CommandInit => VerifiedStays
  <2> SUFFICES ASSUME CommandInit  PROVE pc <= Count(code) /\ status # "no capability"
    BY DEF VerifiedStays
  <2>1. MachineInit
    BY DEF CommandInit, Init, ExperimentsInit
  <2>2. code = <<>> /\ pc = 0 /\ status = "halted" /\ Len(<<>>) = 0
    BY <2>1, EmptySeq DEF MachineInit
  <2>. QED  BY <2>2 DEF Count
<1>2. CommandInv /\ VerifiedStays /\ [CommandNext]_AllVars => VerifiedStays'
  <2> SUFFICES ASSUME CommandInv, VerifiedStays, [CommandNext]_AllVars  PROVE VerifiedStays'
    OBVIOUS
  <2>1. CASE [Next]_vars
    BY <2>1, VerifiedInductive DEF CommandInv, Executed
  <2>2. CASE UNCHANGED machine
    <3>1. UNCHANGED <<code, granted, pc, status>>
      BY <2>2 DEF machine, program
    <3>. QED  BY <3>1 DEF VerifiedStays
  <2>. QED  BY <2>1, <2>2, CommandStepIs
<1>. QED  BY <1>1, <1>2, CommandBegins, CommandGoesOn, PTL DEF CommandSpec

\* What the detectors find in H2's trace is right as well, and stays so when
\* the experiments after it are judged (state.c:22-56, experiments.c).
THEOREM CommandDetects == CommandSpec => []DetectorsAreRight
<1>1. CommandInv => DetectorsAreRight
  BY ExecutionsRepeat, DetectorsFind DEF CommandInv, Executed, DetectorsAreRight
<1>. QED  BY <1>1, CommandBegins, CommandGoesOn, PTL DEF CommandSpec

\* Nor has a failing instruction half an effect in an experiment (vm.c:88-259).
THEOREM CommandFailuresAreInert == CommandSpec => FailureIsInert
<1>1. [CommandNext]_AllVars => [status' \in Errors => UNCHANGED <<store, rs>>]_machine
  <2> SUFFICES ASSUME [CommandNext]_AllVars, ~ UNCHANGED machine, status' \in Errors
               PROVE  UNCHANGED <<store, rs>>
    OBVIOUS
  <2>1. [Next]_vars
    BY CommandStepIs
  <2>2. CASE Refuse \/ Abandon \/ Detect \/ Advance \/ UNCHANGED vars
    BY <2>2 DEF Refuse, Abandon, Detect, Advance, vars
  <2>3. CASE Execute
    BY <2>3 DEF Execute, LoadUnit, Load, Errors
  <2>4. CASE Run
    BY <2>4, FailingStep DEF Run
  <2>. QED  BY <2>1, <2>2, <2>3, <2>4 DEF Next
<1>. QED  BY <1>1, PTL DEF CommandSpec, FailureIsInert

=============================================================================
