-------------------------------- MODULE Digests --------------------------------
(***************************************************************************)
(* The digests that are computed from pieces: SHA-256 (sha256.c), BLAKE3   *)
(* (blake3.c) and Poly1305 (chacha20.c). What a compression function makes *)
(* of its input is ideal: it is its input. So a state of SHA-256 is the    *)
(* blocks it has compressed, a BLAKE3 value the tree it stands for, and a  *)
(* tag of Poly1305 the blocks that were added up. Everything about where   *)
(* blocks, chunks and subtrees begin and end is the code's.                *)
(***************************************************************************)
EXTENDS Integers, Sequences, FiniteSets, SequencesExt

CONSTANTS
  ShaBlock,     \* 64
  ShaLength,    \* the bytes of the length SHA-256 ends with: 8
  B3Block,      \* B3_BLOCK_LEN, 64
  B3Chunk,      \* B3_CHUNK_LEN, 1024
  PolyBlock     \* 16

ASSUME DigestsAssumption ==
  /\ ShaLength \in Nat \ {0} /\ ShaBlock \in Nat /\ ShaBlock > ShaLength
  /\ B3Block \in Nat \ {0} /\ B3Chunk \in Nat \ {0} /\ B3Chunk % B3Block = 0
  /\ PolyBlock \in Nat \ {0}

\* A byte, and the bytes of a key stream it was combined with.
Byte(v) == [value |-> v, masks |-> {}]

Zeros(n) == [i \in 1 .. n |-> Byte(0)]

\* n shifted right by as many bytes as width, and by every fewer.
Shifted(n, width) == LET s[i \in 0 .. width] == IF i = 0 THEN n ELSE s[i - 1] \div 256 IN s

\* n in base 256, the lowest digit first.
Digits(n, width) == [i \in 1 .. width |-> Byte(Shifted(n, width)[i - 1] % 256)]

After(data, n) == SubSeq(data, n + 1, Len(data))

\* while (len > 0): Body takes a state and the data that is left, and takes at
\* least one byte.
Loop(Body(_, _), state, data) ==
  LET turns[i \in 0 .. Len(data)] ==
        IF i = 0 THEN [state |-> state, rest |-> data]
        ELSE LET p == turns[i - 1] IN IF p.rest = <<>> THEN p ELSE Body(p.state, p.rest)
  IN turns[Len(data)].state

-----------------------------------------------------------------------------
(* SHA-256 *)

ShaInit == [chain |-> <<>>, buf |-> <<>>, total |-> 0]

\* compress, once the buffer is full.
ShaCompress(s) ==
  IF Len(s.buf) = ShaBlock THEN [s EXCEPT !.chain = Append(@, s.buf), !.buf = <<>>] ELSE s

ShaTake(s, data) ==
  LET take == Min({Len(data), ShaBlock - Len(s.buf)}) IN
  [state |-> ShaCompress([s EXCEPT !.buf = @ \o SubSeq(data, 1, take)]), rest |-> After(data, take)]

ShaUpdate(s, data) == Loop(ShaTake, [s EXCEPT !.total = @ + Len(data)], data)

\* padlen of sha256_final, but for its first byte.
ShaZeros(s) ==
  (IF Len(s.buf) < ShaBlock - ShaLength THEN ShaBlock ELSE 2 * ShaBlock) - ShaLength - Len(s.buf) - 1

\* sha256_final: the length lands in the last bytes of a block.
ShaFinal(s) ==
  ShaUpdate(s, <<Byte(128)>> \o Zeros(ShaZeros(s)) \o Reverse(Digits(s.total * 8, ShaLength))).chain

-----------------------------------------------------------------------------
(* BLAKE3. An output is a compression that is put off: it becomes a chaining
   value, or the root. *)

Iv == [iv |-> "B3_IV"]

\* compress.
Chained(o) == [chained |-> o]

ChunkReset(counter) == [cv |-> Iv, counter |-> counter, block |-> <<>>, compressed |-> 0]

ChunkLen(c) == B3Block * c.compressed + Len(c.block)

\* chunk_output, but for its last flag.
BlockOutput(c, flags) ==
  [cv |-> c.cv, words |-> [bytes |-> c.block], counter |-> c.counter, len |-> Len(c.block),
   flags |-> flags \cup (IF c.compressed = 0 THEN {"start"} ELSE {})]

ChunkOutput(c) == BlockOutput(c, {"end"})

\* A block is compressed when there is more to come, never before.
ChunkTake(c, data) ==
  LET d == IF Len(c.block) < B3Block THEN c
           ELSE [c EXCEPT !.cv = Chained(BlockOutput(c, {})), !.block = <<>>, !.compressed = @ + 1]
      take == Min({Len(data), B3Block - Len(d.block)})
  IN [state |-> [d EXCEPT !.block = @ \o SubSeq(data, 1, take)], rest |-> After(data, take)]

ChunkUpdate(c, data) == Loop(ChunkTake, c, data)

ParentOutput(left, right) ==
  [cv |-> Iv, words |-> [left |-> left, right |-> right], counter |-> 0, len |-> B3Block,
   flags |-> {"parent"}]

B3Init == [chunk |-> ChunkReset(0), stack |-> <<>>]

\* push_chunk_cv: a subtree is merged for every trailing zero of total.
Merge(p) ==
  IF p.total % 2 = 1 THEN p
  ELSE [kept |-> Front(p.kept), cv |-> Chained(ParentOutput(Last(p.kept), p.cv)), total |-> p.total \div 2]

Push(stack, cv, total) ==
  LET merged[i \in 0 .. Len(stack)] ==
        IF i = 0 THEN [kept |-> stack, cv |-> cv, total |-> total] ELSE Merge(merged[i - 1])
  IN Append(merged[Len(stack)].kept, merged[Len(stack)].cv)

\* Seeded fault: a chunk is pushed as soon as it is full.
B3TakeEager(s, data) ==
  LET take == Min({Len(data), B3Chunk - ChunkLen(s.chunk)})
      chunk == ChunkUpdate(s.chunk, SubSeq(data, 1, take))
      total == chunk.counter + 1
  IN [state |-> IF ChunkLen(chunk) < B3Chunk THEN [s EXCEPT !.chunk = chunk]
                ELSE [chunk |-> ChunkReset(total),
                      stack |-> Push(s.stack, Chained(ChunkOutput(chunk)), total)],
      rest |-> After(data, take)]

\* A chunk is pushed when there is more to come, never before.
B3Take(s, data) ==
  LET total == s.chunk.counter + 1
      t == IF ChunkLen(s.chunk) < B3Chunk THEN s
           ELSE [chunk |-> ChunkReset(total),
                 stack |-> Push(s.stack, Chained(ChunkOutput(s.chunk)), total)]
      take == Min({Len(data), B3Chunk - ChunkLen(t.chunk)})
  IN [state |-> [t EXCEPT !.chunk = ChunkUpdate(@, SubSeq(data, 1, take))], rest |-> After(data, take)]

B3Update(s, data) == Loop(B3Take, s, data)

\* output_root_bytes; 32 bytes are one block.
Root(o) == Chained([o EXCEPT !.counter = 0, !.flags = @ \cup {"root"}])

\* Seeded fault: the stack is folded from its bottom.
B3FinalizeUpwards(s) ==
  LET folded[i \in 0 .. Len(s.stack)] ==
        IF i = 0 THEN ChunkOutput(s.chunk) ELSE ParentOutput(s.stack[i], Chained(folded[i - 1]))
  IN Root(folded[Len(s.stack)])

\* blake3_finalize folds the stack from its top.
B3Finalize(s) ==
  LET l == Len(s.stack)
      folded[i \in 0 .. l] ==
        IF i = 0 THEN ChunkOutput(s.chunk) ELSE ParentOutput(s.stack[l - i + 1], Chained(folded[i - 1]))
  IN Root(folded[l])

-----------------------------------------------------------------------------
(* Poly1305 *)

PolyInit == [blocks |-> <<>>, buf |-> <<>>]

\* poly1305_block.
PolyAdd(blocks, bytes, hibit) == Append(blocks, [bytes |-> bytes, hibit |-> hibit])

\* poly1305_update fills the buffer, takes whole blocks from the data itself,
\* and keeps the rest.
PolyUpdate(s, data) ==
  LET fill == IF s.buf = <<>> THEN 0 ELSE Min({Len(data), PolyBlock - Len(s.buf)})
      buf == s.buf \o SubSeq(data, 1, fill)
      full == Len(buf) = PolyBlock
      more == After(data, fill)
      whole == Len(more) \div PolyBlock
      cut == [i \in 1 .. whole |-> [bytes |-> SubSeq(more, (i - 1) * PolyBlock + 1, i * PolyBlock),
                                    hibit |-> TRUE]]
      rest == After(more, whole * PolyBlock)
  IN [blocks |-> (IF full THEN PolyAdd(s.blocks, buf, TRUE) ELSE s.blocks) \o cut,
      buf |-> IF rest # <<>> THEN rest ELSE IF full THEN <<>> ELSE buf]

\* Seeded fault: an empty buffer is padded as well.
PolyFinishAlways(s) ==
  PolyAdd(s.blocks, s.buf \o <<Byte(1)>> \o Zeros(PolyBlock - Len(s.buf) - 1), FALSE)

\* poly1305_finish: a last block that is not full ends in a one of its own.
PolyFinish(s) ==
  IF s.buf = <<>> THEN s.blocks
  ELSE PolyAdd(s.blocks, s.buf \o <<Byte(1)>> \o Zeros(PolyBlock - Len(s.buf) - 1), FALSE)
=============================================================================
