------------------------------- MODULE PrivFrame -------------------------------
(***************************************************************************)
(* Frames that hide the length of their payload (privframe.c). A frame is  *)
(* a prefix of two bytes, a nonce, as many bytes as a bucket has, and a    *)
(* tag. Encryption is ideal: a sealed byte is told by its frame and place, *)
(* and opens if all of a frame is there with its own prefix.               *)
(***************************************************************************)
EXTENDS Integers, Sequences, FiniteSetsExt, SequencesExt

CONSTANTS
  Buckets,        \* PF_BUCKETS, in their order: <<256, 512, 1024, 2048, 4096, 8192>>
  NonceSize,      \* 12
  TagSize,        \* 16
  InnerHeader,    \* PF_INNER_HDR, 4
  PayloadLengths, \* the lengths that are sent
  Rooms,          \* what a caller may say of the room for an encoded frame
  Wrong,          \* the numbers a byte may become on the way
  MaxFrames       \* bound: the frames that are sent

PrefixSize == 2

ASSUME PrivFrameAssumption ==
  /\ Buckets \in Seq(Nat \ {0}) /\ Buckets # <<>>
  /\ \A i \in 1 .. Len(Buckets) - 1 : Buckets[i] < Buckets[i + 1]
  /\ NonceSize \in Nat \ {0} /\ TagSize \in Nat \ {0}
  /\ InnerHeader \in Nat /\ InnerHeader < Buckets[1]
  /\ PayloadLengths \subseteq Nat /\ Rooms \subseteq Nat /\ Wrong \subseteq 0 .. 255

VARIABLES
  key,         \* g_key of the two ends, if g_have_key
  frames,      \* the frames that went out whole, and where in the stream each ends
  encoded,     \* what privframe_encode returned last, what it had written, and the room
  connection,  \* the bytes on their way
  sound,       \* how many bytes came as they were sent, once no more will come
  received     \* what each privframe_recv returned, and the same bytes' decoding

framing == <<key, frames, encoded, connection, sound, received>>

None == -1

PF_MAX_PAYLOAD == Last(Buckets) - InnerHeader

\* Seeded fault: the header is forgotten.
BucketForPayload(length) ==
  LET fits == {b \in ToSet(Buckets) : length <= b} IN IF fits = {} THEN 0 ELSE Min(fits)

\* privframe_bucket_for.
BucketFor(length) ==
  LET fits == {b \in ToSet(Buckets) : length + InnerHeader <= b} IN
  IF fits = {} THEN 0 ELSE Min(fits)

Clear(v) == [frame |-> 0, part |-> "prefix", at |-> v]
Sealed(frame, n) == [i \in 1 .. n |-> [frame |-> frame, part |-> "sealed", at |-> i]]
Prefix(n) == <<Clear(n \div 256), Clear(n % 256)>>

OuterLength(bucket) == NonceSize + bucket + TagSize

\* The bytes of frame number id: prefix, and nonce, text and tag.
Wire(id, bucket) == Prefix(OuterLength(bucket)) \o Sealed(id, OuterLength(bucket))

Encoding(rc, written, room) == [rc |-> rc, written |-> written, room |-> room]

\* Seeded fault: the length is not compared with the room.
EncodeResultAnyRoom(length, room) ==
  IF key.sender = "none" THEN Encoding("NOKEY", 0, room)
  ELSE IF length > PF_MAX_PAYLOAD \/ BucketFor(length) = 0 THEN Encoding("TOOBIG", 0, room)
  ELSE Encoding("OK", PrefixSize + OuterLength(BucketFor(length)), room)

\* What privframe_encode returns, and the bytes it has written by then: a frame
\* is in the caller's buffer before its length is compared with the room.
EncodeResult(length, room) ==
  LET size == PrefixSize + OuterLength(BucketFor(length)) IN
  IF key.sender = "none" THEN Encoding("NOKEY", 0, room)
  ELSE IF length > PF_MAX_PAYLOAD \/ BucketFor(length) = 0 THEN Encoding("TOOBIG", 0, room)
  ELSE Encoding(IF size > room THEN "TOOBIG" ELSE "OK", size, room)

\* The number in the prefix. A sealed byte in its place, when the stream is out
\* of step, reads like the prefix of a small frame.
Declared(bytes) ==
  LET value(b) == IF b.part = "prefix" THEN b.at
                  ELSE IF b.at % 2 = 1 THEN 0 ELSE OuterLength(Buckets[1])
  IN 256 * value(bytes[1]) + value(bytes[2])

\* privframe_decode and privframe_recv test the declared length alike.
BucketOf(declared) ==
  IF declared < NonceSize + TagSize + 1 \/ declared - NonceSize - TagSize \notin ToSet(Buckets) THEN 0
  ELSE declared - NonceSize - TagSize

Failed(rc) == [rc |-> rc]

\* What the cipher makes of a whole frame, and what its inner header says.
Opened(bytes) ==
  LET sent == {id \in DOMAIN frames : bytes = Wire(id, frames[id].bucket) /\ frames[id].key = key.receiver} IN
  IF sent = {} THEN Failed("AUTH")
  ELSE LET id == CHOOSE i \in sent : TRUE IN
       IF frames[id].length + InnerHeader > frames[id].bucket THEN Failed("MALFORMED")
       ELSE [rc |-> "OK", id |-> id]

\* privframe_decode, on all the bytes there are.
Decoded(bytes) ==
  IF key.receiver = "none" THEN Failed("NOKEY")
  ELSE IF Len(bytes) < PrefixSize + NonceSize + TagSize THEN Failed("MALFORMED")
  ELSE IF BucketOf(Declared(bytes)) = 0 THEN Failed("MALFORMED")
  ELSE IF Len(bytes) < PrefixSize + Declared(bytes) THEN Failed("MALFORMED")
  ELSE Opened(SubSeq(bytes, 1, PrefixSize + Declared(bytes)))

\* Seeded fault: what was declared is taken off the stream before it is tested.
ReceivedEager(bytes) ==
  IF Len(bytes) < PrefixSize THEN [took |-> Len(bytes), result |-> Failed("RECV")]
  ELSE LET n == Min({PrefixSize + Declared(bytes), Len(bytes)}) IN
       [took |-> n, result |-> IF BucketOf(Declared(bytes)) = 0 THEN Failed("MALFORMED")
                               ELSE Opened(SubSeq(bytes, 1, n))]

\* privframe_recv: what it returns, and how many bytes it took off the stream.
Received(bytes) ==
  IF key.receiver = "none" THEN [took |-> 0, result |-> Failed("NOKEY")]
  ELSE IF Len(bytes) < PrefixSize THEN [took |-> Len(bytes), result |-> Failed("RECV")]
  ELSE IF BucketOf(Declared(bytes)) = 0 THEN [took |-> PrefixSize, result |-> Failed("MALFORMED")]
  ELSE LET n == PrefixSize + Declared(bytes) IN
       IF Len(bytes) < n THEN [took |-> Len(bytes), result |-> Failed("RECV")]
       ELSE [took |-> n, result |-> Opened(SubSeq(bytes, 1, n))]

-----------------------------------------------------------------------------
FramingInit ==
  /\ key = [end \in {"sender", "receiver"} |-> "none"]
  /\ frames = <<>> /\ encoded = Encoding("none", 0, 0) /\ connection = <<>> /\ sound = None /\ received = <<>>

\* privframe_set_key_from_env in either process: a key of another length, or
\* with a digit that is none, is not taken.
SetKey(end, k) ==
  /\ key[end] = "none" /\ frames = <<>>
  /\ key' = [key EXCEPT ![end] = k]
  /\ UNCHANGED <<frames, encoded, connection, sound, received>>

\* privframe_send, whose room is a whole frame's, or privframe_encode with less.
SendFrame(type, hops, length, room) ==
  /\ sound = None /\ Len(frames) < MaxFrames
  /\ encoded' = EncodeResult(length, room)
  /\ IF encoded'.rc = "OK"
     THEN /\ connection' = connection \o Wire(Len(frames) + 1, BucketFor(length))
          /\ frames' = Append(frames, [type |-> type, hops |-> hops, length |-> length,
                                       bucket |-> BucketFor(length), key |-> key.sender,
                                       ends |-> Len(connection')])
     ELSE UNCHANGED <<frames, connection>>
  /\ UNCHANGED <<key, sound, received>>

\* The connection ends after any of the bytes.
Ends(n) ==
  /\ sound = None /\ frames # <<>>
  /\ sound' = n /\ connection' = SubSeq(connection, 1, n)
  /\ UNCHANGED <<key, frames, encoded, received>>

\* A byte comes as another.
Changes(i, v) ==
  /\ sound = None /\ frames # <<>> /\ connection[i] # Clear(v)
  /\ sound' = i - 1 /\ connection' = [connection EXCEPT ![i] = Clear(v)]
  /\ UNCHANGED <<key, frames, encoded, received>>

\* privframe_recv, from where the last one left the stream.
Receive ==
  /\ sound # None /\ (received = <<>> \/ connection # <<>>)
  /\ received # <<>> => key.receiver # "none"
  /\ LET r == Received(connection) IN
     /\ received' = Append(received, [recv |-> r.result, decode |-> Decoded(connection),
                                      first |-> Len(connection)])
     /\ connection' = SubSeq(connection, r.took + 1, Len(connection))
  /\ UNCHANGED <<key, frames, encoded, sound>>

Drained == received # <<>> /\ (connection = <<>> \/ key.receiver = "none") /\ UNCHANGED framing

FramingNext ==
  \/ \E end \in {"sender", "receiver"}, k \in {"psk", "other"} : SetKey(end, k)
  \/ \E kind \in {<<1, 3>>, <<2, 0>>}, length \in PayloadLengths, room \in Rooms :
       SendFrame(kind[1], kind[2], length, room)
  \/ \E n \in 0 .. Len(connection) : Ends(n)
  \/ \E i \in DOMAIN connection, v \in Wrong : Changes(i, v)
  \/ Receive
  \/ Drained

FramingSpec == FramingInit /\ [][FramingNext]_framing

-----------------------------------------------------------------------------
\* The receptions that accepted a frame, and the frames that came whole.
Accepted == {i \in DOMAIN received : received[i].recv.rc = "OK"}
Whole == {id \in DOMAIN frames : frames[id].ends <= sound}

\* Where frame number id ends in the stream.
EndOf(id) == IF id = 0 THEN 0 ELSE frames[id].ends

\* A frame that privframe_encode says OK of is within the room its caller gave,
\* and none is larger than the buffer of privframe_send, whatever the room was:
\* a frame refused for its length has been written out in full.
EncodedInRoom ==
  /\ encoded.rc \in {"none", "OK", "NOKEY", "TOOBIG"}
  /\ encoded.written \in Nat /\ encoded.room \in Nat
  /\ encoded.rc = "OK" => encoded.written <= encoded.room
  /\ encoded.written <= PrefixSize + OuterLength(Last(Buckets))

\* Types, and: no more arrives than was sent.
FramingTypes ==
  /\ key \in [{"sender", "receiver"} -> {"none", "psk", "other"}]
  /\ sound \in None .. EndOf(Len(frames))
  /\ EncodedInRoom

\* privframe_recv and privframe_decode are two copies of one parser: on the
\* same bytes they accept the same frame, or fail for the same reason, but for
\* bytes that are missing, which one waits for and the other calls malformed.
\* Frames are accepted once and in order, wherever the call before left the
\* stream, and a frame that came whole, with all before it whole, is accepted
\* with the same key and refused with another. A frame is sealed, and as long as
\* the smallest bucket with room for its payload and header.
FramesAreOpened ==
  /\ \A i \in DOMAIN received :
       \/ received[i].recv = received[i].decode
       \/ received[i].recv.rc = "RECV" /\ received[i].decode.rc = "MALFORMED"
  /\ \A i, j \in Accepted : i < j => received[i].recv.id < received[j].recv.id
  /\ received # <<>> /\ connection = <<>> =>
       \A id \in Whole : key.sender = key.receiver <=> \E i \in Accepted : received[i].recv.id = id
  /\ \A id \in DOMAIN frames :
       LET need == frames[id].length + InnerHeader IN
       /\ frames[id].key # "none" /\ need <= frames[id].bucket
       /\ \A b \in ToSet(Buckets) : need <= b => frames[id].bucket <= b
=============================================================================
