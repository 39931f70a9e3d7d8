------------------------------ MODULE Primitives ------------------------------
(***************************************************************************)
(* What the rest of the program does with the primitives: it feeds a       *)
(* message to a digest in pieces (eiu_compute_hash, hmac_sha256, the       *)
(* authenticated encryption), and it seals a message with                  *)
(* chacha20_poly1305_encrypt and opens what arrives (chacha20.c).          *)
(***************************************************************************)
EXTENDS Digests

CONSTANTS
  MaxFed,         \* bound: the bytes fed to a digest
  Pieces,         \* the lengths of the pieces
  AadLengths, TextLengths,
  StreamBlock,    \* CHACHA20_BLOCK_SIZE, 64
  NoMessage

ASSUME PrimitivesAssumption ==
  /\ MaxFed \in Nat /\ Pieces \subseteq Nat \ {0}
  /\ AadLengths \subseteq Nat /\ TextLengths \subseteq Nat
  /\ StreamBlock \in Nat \ {0}
  /\ PolyBlock % 2 = 0
  /\ \A a \in AadLengths, n \in TextLengths : \A length \in 0 .. a + n + PolyBlock :
       Shifted(length, PolyBlock \div 2)[PolyBlock \div 2] = 0

VARIABLES
  fed,                  \* the length of the message so far
  sha, blake3, poly,    \* a state of each digest
  sent, arrived,        \* a sealed message, and what came of it
  opened                \* what chacha20_poly1305_decrypt returned

digests == <<fed, sha, blake3, poly>>
vars == <<digests, sent, arrived, opened>>

\* Bytes that are told apart.
Text(from, to) == [i \in 1 .. to - from + 1 |-> Byte(from + i - 1)]

Init ==
  /\ fed = 0 /\ sha = ShaInit /\ blake3 = B3Init /\ poly = PolyInit
  /\ sent = NoMessage /\ arrived = NoMessage /\ opened = NoMessage

Update ==
  /\ sent = NoMessage
  /\ \E n \in Pieces :
       LET data == Text(fed + 1, fed + n) IN
       /\ fed + n <= MaxFed
       /\ fed' = fed + n
       /\ sha' = ShaUpdate(sha, data)
       /\ blake3' = B3Update(blake3, data)
       /\ poly' = PolyUpdate(poly, data)
  /\ UNCHANGED <<sent, arrived, opened>>

-----------------------------------------------------------------------------
\* chacha20_block and chacha20_crypt: byte i of the block for a counter. A byte
\* that is combined with the same byte of the key stream twice is itself.
Crypt(data, counter) ==
  [i \in 1 .. Len(data) |->
     LET mask == <<counter + (i - 1) \div StreamBlock, (i - 1) % StreamBlock>>
     IN [data[i] EXCEPT !.masks = (@ \ {mask}) \cup ({mask} \ @)]]

Pad(data) == Zeros((PolyBlock - (Len(data) % PolyBlock)) % PolyBlock)

\* A part of the tag's input, to the end of a block.
UpdatePadded(s, data) == PolyUpdate(PolyUpdate(s, data), Pad(data))

\* Seeded fault: the lengths are left out.
MacWithoutLengths(aad, text) == PolyFinish(UpdatePadded(UpdatePadded(PolyInit, aad), text))

LengthBlock(aad, text) ==
  Digits(Len(aad), PolyBlock \div 2) \o Digits(Len(text), PolyBlock \div 2)

\* The tag's input. Its one-time key is the block for counter 0, and is not
\* written out.
Mac(aad, text) ==
  PolyFinish(PolyUpdate(UpdatePadded(UpdatePadded(PolyInit, aad), text), LengthBlock(aad, text)))

\* chacha20_poly1305_encrypt.
Encrypt(aad, text) == LET c == Crypt(text, 1) IN [aad |-> aad, text |-> c, tag |-> Mac(aad, c)]

\* Seeded fault: the message is opened with the block of the tag's key.
DecryptFromZero(m) == IF Mac(m.aad, m.text) = m.tag THEN Crypt(m.text, 0) ELSE NoMessage

\* chacha20_poly1305_decrypt.
Decrypt(m) == IF Mac(m.aad, m.text) = m.tag THEN Crypt(m.text, 1) ELSE NoMessage

\* The digests of Update are others than the tag's: the two are told apart to
\* keep the model small.
Seal ==
  /\ fed = 0 /\ sent = NoMessage
  /\ \E a \in AadLengths, n \in TextLengths :
       \E aad \in {Text(1, a), Zeros(a)} : sent' = Encrypt(aad, Text(1, n))
  /\ UNCHANGED <<digests, arrived, opened>>

\* The message, with the border between its parts anywhere, with its end cut
\* off, or with zeros after either part.
Arrive ==
  /\ sent # NoMessage /\ arrived = NoMessage
  /\ LET all == sent.aad \o sent.text IN
     \E border \in 0 .. Len(all), end \in 0 .. Len(all), more \in 0 .. PolyBlock, after \in BOOLEAN :
       /\ border <= end
       /\ arrived' =
            [sent EXCEPT !.aad = SubSeq(all, 1, border) \o (IF after THEN <<>> ELSE Zeros(more)),
                         !.text = SubSeq(all, border + 1, end) \o (IF after THEN Zeros(more) ELSE <<>>)]
  /\ UNCHANGED <<digests, sent, opened>>

Open ==
  /\ arrived # NoMessage /\ opened = NoMessage
  /\ opened' = [text |-> Decrypt(arrived)]
  /\ UNCHANGED <<digests, sent, arrived>>

Finished ==
  /\ opened # NoMessage \/ \A n \in Pieces : fed + n > MaxFed
  /\ UNCHANGED vars

Next == Update \/ Seal \/ Arrive \/ Open \/ Finished

Spec == Init /\ [][Next]_vars

-----------------------------------------------------------------------------
(* What the standards say of a whole message. *)

\* data in blocks of n bytes; the last one may be short.
Cut(data, n) ==
  [i \in 1 .. (Len(data) + n - 1) \div n |-> SubSeq(data, (i - 1) * n + 1, Min({i * n, Len(data)}))]

\* FIPS 180-4, 5.1.1: as few zeros as bring the length to the end of a block.
StandardSha(data) ==
  LET zeros == CHOOSE z \in 0 .. ShaBlock - 1 : (Len(data) + 1 + z + ShaLength) % ShaBlock = 0
  IN Cut(data \o <<Byte(128)>> \o Zeros(zeros) \o Reverse(Digits(Len(data) * 8, ShaLength)), ShaBlock)

\* RFC 8439, 2.5.1: a one after each block, and zeros after the last.
StandardPoly(data) ==
  LET blocks == Cut(data, PolyBlock) IN
  [i \in 1 .. Len(blocks) |->
     IF Len(blocks[i]) = PolyBlock THEN [bytes |-> blocks[i], hibit |-> TRUE]
     ELSE [bytes |-> blocks[i] \o <<Byte(1)>> \o Zeros(PolyBlock - Len(blocks[i]) - 1), hibit |-> FALSE]]

\* The BLAKE3 paper, 2.1: a chunk's blocks are chained, and a node is made of the
\* last of them.
StandardLeaf(chunk, counter) ==
  LET blocks == IF chunk = <<>> THEN <<chunk>> ELSE Cut(chunk, B3Block)
      Node(cv, i) == [cv |-> cv, words |-> [bytes |-> blocks[i]], counter |-> counter,
                      len |-> Len(blocks[i]),
                      flags |-> (IF i = 1 THEN {"start"} ELSE {})
                                  \cup (IF i = Len(blocks) THEN {"end"} ELSE {})]
      cv[i \in 0 .. Len(blocks) - 1] == IF i = 0 THEN Iv ELSE Chained(Node(cv[i - 1], i))
  IN Node(cv[Len(blocks) - 1], Len(blocks))

\* A power of two has no odd divisor but one.
IsPower(k) == \A d \in 2 .. k : k % d = 0 => d % 2 = 0

\* The left subtree is the largest whole one that leaves something on the right.
LeftSize(n) == CHOOSE k \in 1 .. n : k < n /\ n <= 2 * k /\ IsPower(k)

\* tree[n][i] stands for n leaves from the i-th on.
StandardTree(leaves) ==
  LET tree[n \in 1 .. Len(leaves)] ==
        [i \in 1 .. Len(leaves) - n + 1 |->
           IF n = 1 THEN leaves[i]
           ELSE ParentOutput(Chained(tree[LeftSize(n)][i]), Chained(tree[n - LeftSize(n)][i + LeftSize(n)]))]
  IN tree

StandardB3(data) ==
  LET chunks == IF data = <<>> THEN <<data>> ELSE Cut(data, B3Chunk)
      leaves == [i \in 1 .. Len(chunks) |-> StandardLeaf(chunks[i], i - 1)]
      root == StandardTree(leaves)[Len(chunks)][1]
  IN Chained([root EXCEPT !.counter = 0, !.flags = @ \cup {"root"}])

Ones[n \in Nat] == IF n = 0 THEN 0 ELSE (n % 2) + Ones[n \div 2]

\* Types, and: buffers are as full as the length says, BLAKE3's are emptied
\* only when more is to come, and its stack has one subtree for each bit of the
\* number of chunks, so that its 54 places never run out.
TypeOK ==
  /\ fed \in 0 .. MaxFed
  /\ sha.total = fed /\ Len(sha.buf) = fed % ShaBlock
  /\ Len(poly.buf) = fed % PolyBlock
  /\ fed > 0 => ChunkLen(blake3.chunk) \in 1 .. B3Chunk /\ Len(blake3.chunk.block) \in 1 .. B3Block
  /\ blake3.chunk.counter * B3Chunk + ChunkLen(blake3.chunk) = fed
  /\ Len(blake3.stack) = Ones[blake3.chunk.counter]

\* sha256_final returns what FIPS 180-4 says of the whole message.
Sha256IsStandard == ShaFinal(sha) = StandardSha(Text(1, fed))

\* blake3_finalize returns what the BLAKE3 paper says of it.
Blake3IsStandard == B3Finalize(blake3) = StandardB3(Text(1, fed))

\* poly1305_finish returns what RFC 8439 says of it.
Poly1305IsStandard == PolyFinish(poly) = StandardPoly(Text(1, fed))

\* sha256_final, blake3_finalize and poly1305_finish return what the standards
\* say of the whole message, into whatever pieces it was cut.
DigestsAreStandard == Sha256IsStandard /\ Blake3IsStandard /\ Poly1305IsStandard

\* chacha20_poly1305_decrypt opens a message just if its parts are those that
\* were sealed, bytes moved from one part to the other or added as padding is
\* told apart, and what it returns is the text.
OpenedIsSealed ==
  opened # NoMessage =>
    IF <<arrived.aad, arrived.text>> = <<sent.aad, sent.text>>
    THEN opened.text = Text(1, Len(sent.text))
    ELSE opened.text = NoMessage
=============================================================================
