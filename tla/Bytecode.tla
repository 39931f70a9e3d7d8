------------------------------ MODULE Bytecode ------------------------------
(***************************************************************************)
(* Programs of the virtual machine as the machine and the verifier read    *)
(* them (vm.h, vm.c, verifier.c): sequences of bytes, two to an            *)
(* instruction. The fields of an instruction overlap: imm is the low byte, *)
(* off the low eleven bits.                                                *)
(***************************************************************************)
EXTENDS Integers, Sequences

Opcodes ==
  <<"NOP", "HALT", "PUSH", "POP", "LOAD", "STORE", "LDI", "ADD", "SUB", "AND", "OR", "XOR",
    "NOT", "SHL", "SHR", "CMP", "JMP", "JZ", "JNZ", "JGT", "CALL", "RET", "EMIT", "READ",
    "BFLIP", "BREAD", "SELF", "SPAWN", "CCHK", "FUEL", "MOV", "ADDI">>

Jumps == {"JMP", "JZ", "JNZ", "JGT", "CALL"}

\* Instruction i of a program: 0 is the first.
InstrAt(code, i) == (code[2 * i + 1] * 256) + code[2 * i + 2]

OpAt(code, i) == Opcodes[((InstrAt(code, i) \div 2048) % 32) + 1]

OffAt(code, i) == InstrAt(code, i) % 2048

Count(code) == Len(code) \div 2

\* vm_encode_instruction, vm_encode_immediate and vm_encode_jump, as two bytes.
OpCode(name) == (CHOOSE n \in 1 .. Len(Opcodes) : Opcodes[n] = name) - 1

Bytes(word) == <<word \div 256, word % 256>>

Encode(name, a, b, c) ==
  Bytes(OpCode(name) * 2048 + (a % 8) * 256 + (b % 8) * 32 + (c % 8) * 4)

EncodeImmediate(name, a, imm) == Bytes(OpCode(name) * 2048 + (a % 8) * 256 + (imm % 256))

EncodeJump(name, off) == Bytes(OpCode(name) * 2048 + (off % 2048))

-----------------------------------------------------------------------------
\* The capability bits the machine and the verifier use.
SpawnBit == 0
SelfBit == 1

Required(code) ==
  {bit \in {SpawnBit, SelfBit} :
     \E i \in 0 .. Count(code) - 1 :
        OpAt(code, i) = IF bit = SpawnBit THEN "SPAWN" ELSE "SELF"}

\* Seeded fault: CALL is not among the instructions whose target is checked.
VerifiedButCalls(code, granted) ==
  /\ Len(code) % 2 = 0 /\ Len(code) <= 4096
  /\ \A i \in 0 .. Count(code) - 1 :
        OpAt(code, i) \in Jumps \ {"CALL"} => OffAt(code, i) < Count(code)
  /\ \E i \in 0 .. Count(code) - 1 : OpAt(code, i) = "HALT"
  /\ Required(code) \subseteq granted

\* verifier_analyze returns 0. Its opcode test never fails: five bits hold no
\* more than ADDI.
Verified(code, granted) ==
  /\ Len(code) % 2 = 0 /\ Len(code) <= 4096
  /\ \A i \in 0 .. Count(code) - 1 :
        OpAt(code, i) \in Jumps => OffAt(code, i) < Count(code)
  /\ \E i \in 0 .. Count(code) - 1 : OpAt(code, i) = "HALT"
  /\ Required(code) \subseteq granted
=============================================================================
