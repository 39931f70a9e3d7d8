------------------------------ MODULE BitMachine ------------------------------
(***************************************************************************)
(* The virtual machine (vm.c): one action per instruction, or per family   *)
(* of instructions with the same effect. A step takes one unit of fuel     *)
(* before it fetches; an instruction that fails leaves its error in the    *)
(* machine, which then stands still.                                       *)
(***************************************************************************)
EXTENDS Bytecode, FiniteSets, FiniteSetsExt

CONSTANTS
  MemSize,      \* 4096
  DataDepth,    \* 64
  RetDepth,     \* 32
  OutSlots,     \* 16
  SpawnMax,     \* 512
  NoSpawn

ASSUME MachineAssumption ==
  /\ MemSize \in Nat \ {0} /\ DataDepth \in Nat /\ RetDepth \in Nat
  /\ OutSlots \in Nat /\ SpawnMax \in Nat
  /\ NoSpawn \notin Seq(0 .. 255)

VARIABLES
  code,       \* bytecode, bytecode_len
  granted,    \* granted_caps, as the set of its bits
  regs, flags, ds, rs, memory, output, pc, fuel, spawn,
  status      \* halted and error

program == <<code, granted>>
store == <<regs, flags, ds, memory, output, spawn>>
machine == <<program, store, rs, pc, fuel, status>>

Byte == 0 .. 255
Word == 0 .. 65535
Regs == 0 .. 7
Cells == 0 .. MemSize - 1
Errors == {"out of fuel", "stack overflow", "stack underflow", "bounds", "no capability"}

-----------------------------------------------------------------------------
\* The instruction at pc and its fields.
Op == OpAt(code, pc)
A == (InstrAt(code, pc) \div 256) % 8
B == (InstrAt(code, pc) \div 32) % 8
C == (InstrAt(code, pc) \div 4) % 8
Imm == InstrAt(code, pc) % 256
Off == OffAt(code, pc)

Bit(n, i) == (n \div 2^i) % 2

\* The bits that are set in a word, and the word that has them.
Ones(n) == {i \in 0 .. 15 : Bit(n, i) = 1}
Packed(ones) == MapThenSumSet(LAMBDA i : 2^i, ones)

\* The word an instruction assigns to register A.
Result ==
  LET b == regs[B]  c == regs[C] IN
  CASE Op = "LDI"  -> Imm
    [] Op = "ADD"  -> (b + c) % 2^16
    [] Op = "SUB"  -> (b - c) % 2^16
    [] Op = "AND"  -> Packed(Ones(b) \cap Ones(c))
    [] Op = "OR"   -> Packed(Ones(b) \cup Ones(c))
    [] Op = "XOR"  -> Packed((Ones(b) \cup Ones(c)) \ (Ones(b) \cap Ones(c)))
    [] Op = "NOT"  -> 65535 - b
    [] Op = "SHL"  -> (b * 2^(c % 16)) % 2^16
    [] Op = "SHR"  -> b \div 2^(c % 16)
    [] Op = "READ" -> 0
    [] Op = "FUEL" -> fuel - 1
    [] Op = "MOV"  -> b
    [] Op = "ADDI" -> (regs[A] + Imm) % 2^16

Assigning ==
  {"LDI", "ADD", "SUB", "AND", "OR", "XOR", "NOT", "SHL", "SHR", "READ", "FUEL", "MOV", "ADDI"}

\* The carry after it. SUB compares after it has assigned, so with regA among
\* its operands it compares the result.
Carry ==
  IF Op = "ADD" THEN regs[B] + regs[C] > 65535
  ELSE IF Op = "SUB" THEN LET r == [regs EXCEPT ![A] = Result] IN r[B] < r[C]
  ELSE flags.carry

-----------------------------------------------------------------------------
\* Before the first program is loaded: no step is taken.
MachineInit ==
  /\ code = <<>> /\ granted = {} /\ fuel = 0
  /\ regs = [r \in Regs |-> 0]
  /\ flags = [zero |-> FALSE, carry |-> FALSE, greater |-> FALSE]
  /\ ds = <<>> /\ rs = <<>> /\ output = <<>> /\ pc = 0 /\ spawn = NoSpawn
  /\ memory = [c \in Cells |-> 0]
  /\ status = "halted"

\* Seeded fault: the machine is not cleared between executions.
LoadKeepsRegisters(program_, caps, budget, image) ==
  /\ code' = program_ /\ granted' = caps /\ fuel' = budget
  /\ memory' = image
  /\ UNCHANGED <<regs, flags>>
  /\ ds' = <<>> /\ rs' = <<>> /\ output' = <<>>
  /\ pc' = 0 /\ spawn' = NoSpawn /\ status' = "running"

\* vm_init and vm_load_program, then the caller's initial memory.
Load(program_, caps, budget, image) ==
  /\ code' = program_ /\ granted' = caps /\ fuel' = budget
  /\ memory' = image
  /\ regs' = [r \in Regs |-> 0]
  /\ flags' = [zero |-> FALSE, carry |-> FALSE, greater |-> FALSE]
  /\ ds' = <<>> /\ rs' = <<>> /\ output' = <<>>
  /\ pc' = 0 /\ spawn' = NoSpawn /\ status' = "running"

\* Memory after vm_load_program.
Image(program_) == [c \in Cells |-> IF c < Len(program_) THEN program_[c + 1] ELSE 0]

\* Seeded fault: a jump is free.
FetchJumpsFree(ops) ==
  /\ status = "running" /\ fuel > 0
  /\ pc * 2 + 1 < Len(code)
  /\ Op \in ops
  /\ fuel' = IF Op \in Jumps THEN fuel ELSE fuel - 1
  /\ UNCHANGED program

\* vm_step up to the switch, for the instructions ops.
Fetch(ops) ==
  /\ status = "running" /\ fuel > 0
  /\ pc * 2 + 1 < Len(code)
  /\ Op \in ops
  /\ fuel' = fuel - 1
  /\ UNCHANGED program

OutOfFuel ==
  /\ status = "running" /\ fuel = 0
  /\ status' = "out of fuel"
  /\ UNCHANGED <<program, store, rs, pc, fuel>>

FetchOutside ==
  /\ status = "running" /\ fuel > 0
  /\ pc * 2 + 1 >= Len(code)
  /\ status' = "bounds"
  /\ fuel' = fuel - 1
  /\ UNCHANGED <<program, store, rs, pc>>

\* The instruction fails; pc has moved on.
Fail(error) == status' = error /\ pc' = pc + 1 /\ UNCHANGED <<store, rs>>

\* It succeeds, and the next one follows.
Continue == pc' = pc + 1 /\ UNCHANGED <<rs, status>>

-----------------------------------------------------------------------------
Nop == Fetch({"NOP"}) /\ Continue /\ UNCHANGED store

Halt ==
  /\ Fetch({"HALT"})
  /\ status' = "halted" /\ pc' = pc + 1
  /\ UNCHANGED <<store, rs>>

Assign ==
  /\ Fetch(Assigning)
  /\ regs' = [regs EXCEPT ![A] = Result]
  /\ flags' = [flags EXCEPT !.carry = Carry]
  /\ Continue
  /\ UNCHANGED <<ds, memory, output, spawn>>

Compare ==
  /\ Fetch({"CMP"})
  /\ flags' = [flags EXCEPT !.zero = regs[A] = regs[B], !.greater = regs[A] > regs[B]]
  /\ Continue
  /\ UNCHANGED <<regs, ds, memory, output, spawn>>

\* 1ULL << imm: the machines it is built for take the count modulo 64.
CapCheck ==
  /\ Fetch({"CCHK"})
  /\ flags' = [flags EXCEPT !.zero = (Imm % 64) \in granted]
  /\ Continue
  /\ UNCHANGED <<regs, ds, memory, output, spawn>>

Push ==
  /\ Fetch({"PUSH"})
  /\ IF Len(ds) >= DataDepth THEN Fail("stack overflow")
     ELSE /\ ds' = Append(ds, regs[A])
          /\ Continue
          /\ UNCHANGED <<regs, flags, memory, output, spawn>>

Pop ==
  /\ Fetch({"POP"})
  /\ IF ds = <<>> THEN Fail("stack underflow")
     ELSE /\ regs' = [regs EXCEPT ![A] = ds[Len(ds)]]
          /\ ds' = SubSeq(ds, 1, Len(ds) - 1)
          /\ Continue
          /\ UNCHANGED <<flags, memory, output, spawn>>

LoadCell ==
  /\ Fetch({"LOAD"})
  /\ IF regs[B] \notin Cells THEN Fail("bounds")
     ELSE /\ regs' = [regs EXCEPT ![A] = memory[regs[B]]]
          /\ Continue
          /\ UNCHANGED <<flags, ds, memory, output, spawn>>

StoreCell ==
  /\ Fetch({"STORE"})
  /\ IF regs[B] \notin Cells THEN Fail("bounds")
     ELSE /\ memory' = [memory EXCEPT ![regs[B]] = regs[A] % 256]
          /\ Continue
          /\ UNCHANGED <<regs, flags, ds, output, spawn>>

BitFlip ==
  /\ Fetch({"BFLIP"})
  /\ IF regs[A] \notin Cells THEN Fail("bounds")
     ELSE /\ LET b == regs[B] % 8 IN
             memory' = [memory EXCEPT ![regs[A]] = IF Bit(@, b) = 1 THEN @ - 2^b ELSE @ + 2^b]
          /\ Continue
          /\ UNCHANGED <<regs, flags, ds, output, spawn>>

BitRead ==
  /\ Fetch({"BREAD"})
  /\ IF regs[A] \notin Cells THEN Fail("bounds")
     ELSE IF Len(ds) >= DataDepth THEN Fail("stack overflow")
     ELSE /\ ds' = Append(ds, Bit(memory[regs[A]], regs[B] % 8))
          /\ Continue
          /\ UNCHANGED <<regs, flags, memory, output, spawn>>

Emit ==
  /\ Fetch({"EMIT"})
  /\ output' = IF Len(output) < OutSlots THEN Append(output, regs[A]) ELSE output
  /\ Continue
  /\ UNCHANGED <<regs, flags, ds, memory, spawn>>

-----------------------------------------------------------------------------
Taken ==
  CASE Op = "JMP" -> TRUE
    [] Op = "JZ"  -> flags.zero
    [] Op = "JNZ" -> ~ flags.zero
    [] Op = "JGT" -> flags.greater

Jump ==
  /\ Fetch({"JMP", "JZ", "JNZ", "JGT"})
  /\ pc' = IF Taken THEN Off ELSE pc + 1
  /\ UNCHANGED <<store, rs, status>>

\* Seeded fault: the address of the CALL itself is pushed.
CallReturnsToItself ==
  /\ Fetch({"CALL"})
  /\ IF Len(rs) >= RetDepth THEN Fail("stack overflow")
     ELSE /\ rs' = Append(rs, pc)
          /\ pc' = Off
          /\ UNCHANGED <<store, status>>

Call ==
  /\ Fetch({"CALL"})
  /\ IF Len(rs) >= RetDepth THEN Fail("stack overflow")
     ELSE /\ rs' = Append(rs, pc + 1)
          /\ pc' = Off
          /\ UNCHANGED <<store, status>>

Return ==
  /\ Fetch({"RET"})
  /\ IF rs = <<>> THEN Fail("stack underflow")
     ELSE /\ pc' = rs[Len(rs)]
          /\ rs' = SubSeq(rs, 1, Len(rs) - 1)
          /\ UNCHANGED <<store, status>>

Self ==
  /\ Fetch({"SELF"})
  /\ IF SelfBit \notin granted THEN Fail("no capability")
     ELSE IF Imm >= Len(code) THEN Fail("bounds")
     ELSE /\ regs' = [regs EXCEPT ![A] = code[Imm + 1]]
          /\ Continue
          /\ UNCHANGED <<flags, ds, memory, output, spawn>>

\* Seeded fault: the buffer is filled before its bounds are looked at.
SpawnCopiesFirst ==
  /\ Fetch({"SPAWN"})
  /\ spawn' = [i \in 1 .. regs[B] |-> memory[(regs[A] + i - 1) % MemSize]]
  /\ IF SpawnBit \notin granted THEN status' = "no capability"
     ELSE IF regs[A] + regs[B] > MemSize \/ regs[B] > SpawnMax THEN status' = "bounds"
     ELSE status' = status
  /\ pc' = pc + 1
  /\ UNCHANGED <<rs, regs, flags, ds, memory, output>>

Spawn ==
  /\ Fetch({"SPAWN"})
  /\ IF SpawnBit \notin granted THEN Fail("no capability")
     ELSE IF regs[A] + regs[B] > MemSize \/ regs[B] > SpawnMax THEN Fail("bounds")
     ELSE /\ spawn' = [i \in 1 .. regs[B] |-> memory[regs[A] + i - 1]]
          /\ Continue
          /\ UNCHANGED <<regs, flags, ds, memory, output>>

MachineStep ==
  \/ OutOfFuel \/ FetchOutside
  \/ Nop \/ Halt \/ Assign \/ Compare \/ CapCheck
  \/ Push \/ Pop \/ LoadCell \/ StoreCell \/ BitFlip \/ BitRead \/ Emit
  \/ Jump \/ Call \/ Return \/ Self \/ Spawn

-----------------------------------------------------------------------------
MachineTypeOK ==
  /\ granted \subseteq 0 .. 63
  /\ regs \in [Regs -> Word]
  /\ flags \in [zero : BOOLEAN, carry : BOOLEAN, greater : BOOLEAN]
  /\ ds \in Seq(Word) /\ Len(ds) <= DataDepth
  /\ rs \in Seq(Nat) /\ Len(rs) <= RetDepth
  /\ memory \in [Cells -> Byte]
  /\ output \in Seq(Word) /\ Len(output) <= OutSlots
  /\ pc \in Nat /\ fuel \in Word
  /\ spawn = NoSpawn \/ (spawn \in Seq(Byte) /\ Len(spawn) <= SpawnMax)
  /\ status \in {"running", "halted"} \cup Errors

\* Control flow is well nested: whatever a program jumps to, every address on
\* the return stack is that of the instruction after a CALL.
ReturnsFollowCalls ==
  \A i \in 1 .. Len(rs) : rs[i] > 0 /\ rs[i] <= Count(code) /\ OpAt(code, rs[i] - 1) = "CALL"

\* What verifier_analyze is for: a program it passes for the granted rights
\* never leaves its own code, but for falling off its end, and never asks for a
\* right it lacks.
VerifiedStays ==
  Verified(code, granted) => pc <= Count(code) /\ status # "no capability"

\* An instruction that fails has no effect besides the error, the fuel and pc:
\* every test in vm_step comes before the first assignment of its case.
FailureIsInert == [][status' \in Errors => UNCHANGED <<store, rs>>]_machine

\* capability.h:79, "#define CAP_SPAWN      (1ULL << 6)": a program spawns only
\* with that right.
SpawnNeedsItsRight == spawn # NoSpawn => 6 \in granted
=============================================================================
