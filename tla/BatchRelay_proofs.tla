--------------------------- MODULE BatchRelay_proofs ---------------------------
(***************************************************************************)
(* The batching relay for every number of flows, every size of queue and   *)
(* every deadline. The first part is about batch.c alone: what batch_      *)
(* enqueue and drain do to a consistent queue. The second part carries the *)
(* consistency, and where each frame is, through the steps of the threads. *)
(***************************************************************************)
EXTENDS BatchRelay, FiniteSetTheorems, SequenceTheorems, WellFoundedInduction, TLAPS

\* A non-empty set of naturals has a least element.
LEMMA LeastNatural ==
  ASSUME NEW T, T \subseteq Nat, T # {}
  PROVE  \E m \in T : \A k \in T : m <= k
<1>1. PICK m \in T : \A k \in T : ~ (<<k, m>> \in OpToRel(<, Nat))
  BY NatLessThanWellFounded, WFMin
<1>2. \A k \in T : ~ (k < m)
  BY <1>1 DEF OpToRel
<1>. QED  BY <1>2

\* A queue as every critical section leaves it.
Sound(b) == b \in Queue /\ QueueConsistent(b)

LEMMA SizeFacts == MaxFrames \in Nat /\ 1 <= MaxFrames /\ MaxFrames <= MaxSlots /\ MaxSlots \in Nat
BY SizeAssumption DEF MaxFrames

LEMMA SlotFacts ==
  ASSUME NEW b, Sound(b)
  PROVE  /\ UsedSlots(b) \subseteq 0 .. MaxFrames - 1
         /\ UsedSlots(b) \subseteq SlotIndex
         /\ IsFiniteSet(UsedSlots(b))
         /\ b.count = Cardinality(UsedSlots(b)) /\ b.count \in 0 .. MaxFrames
<1>1. UsedSlots(b) \subseteq 0 .. MaxFrames - 1 /\ UsedSlots(b) \subseteq SlotIndex
  BY SizeFacts DEF Sound, QueueConsistent, UsedSlots, SlotIndex
<1>2. IsFiniteSet(0 .. MaxFrames - 1)
  BY SizeFacts, FS_Interval
<1>3. IsFiniteSet(UsedSlots(b))
  BY <1>1, <1>2, FS_Subset
<1>. QED  BY <1>1, <1>3 DEF Sound, QueueConsistent, Queue

LEMMA EmptyIsSound == Sound(EmptyQueue) /\ Held(EmptyQueue) = {}
<1>1. UsedSlots(EmptyQueue) = {}
  BY DEF UsedSlots, EmptyQueue
<1>2. EmptyQueue \in Queue
  BY SizeFacts, SizeAssumption DEF EmptyQueue, Queue, NoBatch
<1>3. QueueConsistent(EmptyQueue)
  BY <1>1, FS_EmptySet DEF QueueConsistent, EmptyQueue
<1>. QED  BY <1>1, <1>2, <1>3 DEF Sound, Held

\* There is a free slot exactly while fewer frames than MaxFrames are held.
LEMMA RoomMeans ==
  ASSUME NEW b, Sound(b)
  PROVE  HasRoom(b) <=> b.count < MaxFrames
<1>1. b.count \in Nat /\ b.count <= MaxFrames
  BY SlotFacts, SizeFacts
<1>2. CASE b.count >= MaxFrames
  BY <1>1, <1>2, SizeFacts DEF HasRoom, FreeSlots
<1>3. CASE ~ (b.count >= MaxFrames)
  <2>1. b.count < MaxFrames
    BY <1>1, <1>3, SizeFacts
  <2>2. UsedSlots(b) # 0 .. MaxFrames - 1
    <3>1. Cardinality(0 .. MaxFrames - 1) = MaxFrames
      BY SizeFacts, FS_Interval
    <3>. QED  BY <2>1, <3>1, SlotFacts, <1>1, SizeFacts
  <2>3. PICK i \in 0 .. MaxFrames - 1 : i \notin UsedSlots(b)
    BY <2>2, SlotFacts
  <2>4. i \in SlotIndex
    BY SizeFacts DEF SlotIndex
  <2>5. i \in FreeSlots(b)
    BY <1>3, <2>3, <2>4 DEF FreeSlots, UsedSlots
  <2>. QED  BY <2>1, <2>5 DEF HasRoom
<1>. QED  BY <1>2, <1>3

\* batch_enqueue with room puts the frame in a free slot of the first MaxFrames.
LEMMA EnqueueFits ==
  ASSUME NEW b, Sound(b), HasRoom(b), NEW f \in Frames, f \notin Held(b), NEW a \in 0 .. Wait
  PROVE  /\ Sound(Enqueue(b, f, a))
         /\ Held(Enqueue(b, f, a)) = Held(b) \cup {f}
         /\ Enqueue(b, f, a).first = IF Held(b) = {} THEN a ELSE b.first
<1> DEFINE i == CHOOSE i \in FreeSlots(b) : \A j \in FreeSlots(b) : i <= j
           c == Enqueue(b, f, a)
<1>1. i \in FreeSlots(b)
  <2>1. FreeSlots(b) \subseteq Nat /\ FreeSlots(b) # {}
    BY SizeFacts DEF HasRoom, FreeSlots
  <2>2. \E k \in FreeSlots(b) : \A j \in FreeSlots(b) : k <= j
    BY <2>1, LeastNatural
  <2>. QED  BY <2>2
<1>2. c = [b EXCEPT !.slot[i] = f, !.first = IF b.count = 0 THEN a ELSE @,
                    !.count = @ + 1, !.enqueued = @ + 1]
  BY DEF Enqueue
<1> HIDE DEF i, c
<1>3. i \in 0 .. MaxFrames - 1 /\ i \in SlotIndex /\ b.slot[i] = None /\ i \notin UsedSlots(b)
      /\ b.count < MaxFrames
  <2>1. i \in 0 .. MaxFrames - 1 /\ b.slot[i] = None
    BY <1>1 DEF FreeSlots
  <2>2. i \in SlotIndex
    BY <2>1, SizeFacts DEF SlotIndex
  <2>. QED  BY <2>1, <2>2, RoomMeans DEF UsedSlots
<1>4. /\ b.slot \in [SlotIndex -> Frames \cup {None}] /\ b.count \in 0 .. MaxFrames
      /\ b.first \in NoBatch .. Wait /\ b.enqueued \in Nat /\ b.released \in Nat
      /\ b.rejected \in Nat
      /\ b = [slot |-> b.slot, count |-> b.count, first |-> b.first, enqueued |-> b.enqueued,
              released |-> b.released, rejected |-> b.rejected]
  BY DEF Sound, Queue
<1>5. c = [slot |-> [b.slot EXCEPT ![i] = f], count |-> b.count + 1,
           first |-> IF b.count = 0 THEN a ELSE b.first, enqueued |-> b.enqueued + 1,
           released |-> b.released, rejected |-> b.rejected]
  BY <1>2, <1>4
<1>6. \A j \in SlotIndex : c.slot[j] = IF j = i THEN f ELSE b.slot[j]
  BY <1>3, <1>4, <1>5
<1>7. UsedSlots(c) = UsedSlots(b) \cup {i}
  BY <1>3, <1>6, FramesAssumption DEF UsedSlots
<1>8. Cardinality(UsedSlots(c)) = b.count + 1
  BY <1>3, <1>7, SlotFacts, FS_AddElement
<1>9. Held(c) = Held(b) \cup {f}
  <2>1. ASSUME NEW x \in Held(c)  PROVE x \in Held(b) \cup {f}
    BY <1>3, <1>6, <1>7, SlotFacts DEF Held
  <2>2. f \in Held(c)
    BY <1>3, <1>6, <1>7 DEF Held
  <2>3. ASSUME NEW x \in Held(b)  PROVE x \in Held(c)
    BY <1>3, <1>6, <1>7, SlotFacts DEF Held
  <2>. QED  BY <2>1, <2>2, <2>3
<1>10. c \in Queue
  <2>1. [b.slot EXCEPT ![i] = f] \in [SlotIndex -> Frames \cup {None}]
    BY <1>4
  <2>2. b.count + 1 \in 0 .. MaxFrames /\ b.enqueued + 1 \in Nat
    BY <1>3, <1>4, SizeFacts
  <2>3. (IF b.count = 0 THEN a ELSE b.first) \in NoBatch .. Wait
    BY <1>4, SizeAssumption DEF NoBatch
  <2>. QED  BY <1>4, <1>5, <2>1, <2>2, <2>3 DEF Queue
<1>11. QueueConsistent(c)
  <2>1. c.count = Cardinality(UsedSlots(c))
    BY <1>5, <1>8
  <2>2. c.enqueued = c.released + c.count
    BY <1>4, <1>5, SizeFacts DEF Sound, QueueConsistent
  <2>3. \A j \in UsedSlots(c) : j < MaxFrames
    BY <1>3, <1>7, SlotFacts, SizeFacts
  <2>4. ASSUME NEW j \in UsedSlots(c), NEW k \in UsedSlots(c), c.slot[j] = c.slot[k]
        PROVE  j = k
    <3>1. \A l \in UsedSlots(b) : c.slot[l] = b.slot[l] /\ b.slot[l] \in Held(b)
      BY <1>3, <1>6, SlotFacts DEF Held
    <3>2. c.slot[i] = f
      BY <1>3, <1>6
    <3>3. \A l, m \in UsedSlots(b) : b.slot[l] = b.slot[m] => l = m
      BY DEF Sound, QueueConsistent
    <3>. QED  BY <2>4, <3>1, <3>2, <3>3, <1>7
  <2>5. c.count = 0 <=> c.first = NoBatch
    <3>1. c.count # 0 /\ c.first = IF b.count = 0 THEN a ELSE b.first
      BY <1>4, <1>5, SizeFacts
    <3>2. b.count # 0 => b.first # NoBatch
      BY DEF Sound, QueueConsistent
    <3>3. a # NoBatch
      BY DEF NoBatch
    <3>. QED  BY <3>1, <3>2, <3>3
  <2>. QED  BY <2>1, <2>2, <2>3, <2>4, <2>5 DEF QueueConsistent
<1>12. c.first = IF Held(b) = {} THEN a ELSE b.first
  <2>1. Held(b) = {} <=> UsedSlots(b) = {}
    BY DEF Held
  <2>2. UsedSlots(b) = {} <=> b.count = 0
    BY SlotFacts, FS_EmptySet
  <2>. QED  BY <1>5, <2>1, <2>2
<1>. QED  BY <1>9, <1>10, <1>11, <1>12 DEF Sound, c

\* batch_enqueue without room only counts the refusal.
LEMMA EnqueueRefused ==
  ASSUME NEW b, Sound(b), ~ HasRoom(b), NEW f, NEW a
  PROVE  LET c == Enqueue(b, f, a) IN
         Sound(c) /\ c.slot = b.slot /\ c.count = b.count /\ c.first = b.first
<1> DEFINE c == Enqueue(b, f, a)
<1>1. c = [b EXCEPT !.rejected = @ + 1]
  BY DEF Enqueue
<1> HIDE DEF c
<1>2. c \in Queue /\ c.slot = b.slot /\ c.count = b.count /\ c.first = b.first
      /\ c.enqueued = b.enqueued /\ c.released = b.released
  BY <1>1 DEF Sound, Queue
<1>3. UsedSlots(c) = UsedSlots(b)
  BY <1>2 DEF UsedSlots
<1>4. QueueConsistent(c)
  BY <1>2, <1>3 DEF QueueConsistent, Sound
<1>. QED  BY <1>2, <1>4 DEF Sound, c

\* out_cap is large enough: drain leaves nothing behind.
LEMMA DrainedAll ==
  ASSUME NEW b, Sound(b)
  PROVE  Drained(b) = UsedSlots(b)
<1> SUFFICES ASSUME NEW i \in UsedSlots(b)
             PROVE  i < MaxFrames /\ Cardinality({j \in UsedSlots(b) : j < i}) < OutCap
  BY DEF Drained
<1>1. i \in 0 .. MaxFrames - 1
  BY SlotFacts
<1> DEFINE Before == {j \in UsedSlots(b) : j < i}
<1>2. Before \subseteq UsedSlots(b) \ {i}
  BY <1>1
<1>3. IsFiniteSet(UsedSlots(b) \ {i}) /\ Cardinality(UsedSlots(b) \ {i}) = b.count - 1
  BY SlotFacts, FS_RemoveElement
<1>4. Cardinality(Before) <= b.count - 1 /\ Cardinality(Before) \in Nat
  BY <1>2, <1>3, FS_Subset, FS_CardinalityType
<1> HIDE DEF Before
<1>5. Cardinality(Before) < OutCap
  BY <1>4, SlotFacts, SizeFacts, SizeAssumption
<1>. QED  BY <1>1, <1>5, SizeFacts DEF Before

\* batch_flush, and batch_release of a non-empty queue: everything leaves.
LEMMA DrainEmpties ==
  ASSUME NEW b, Sound(b)
  PROVE  Sound(Drain(b)) /\ Held(Drain(b)) = {} /\ DrainFrames(b) = Held(b)
<1> DEFINE c == Drain(b)
<1>1. DrainFrames(b) = Held(b)
  BY DrainedAll DEF DrainFrames, Held
<1>2. c = [b EXCEPT !.slot = [i \in SlotIndex |-> IF i \in UsedSlots(b) THEN None ELSE b.slot[i]],
                    !.count = 0, !.first = NoBatch, !.released = @ + b.count]
  <2>1. Drained(b) = UsedSlots(b) /\ Cardinality(Drained(b)) = b.count
    BY DrainedAll, SlotFacts
  <2>2. c = [b EXCEPT !.slot = [i \in SlotIndex |-> IF i \in Drained(b) THEN None ELSE b.slot[i]],
                      !.count = 0, !.first = NoBatch, !.released = @ + Cardinality(Drained(b))]
    BY Zenon DEF Drain
  <2>. QED  BY <2>1, <2>2
<1> HIDE DEF c
<1>3. /\ b.slot \in [SlotIndex -> Frames \cup {None}] /\ b.count \in 0 .. MaxFrames
      /\ b.enqueued \in Nat /\ b.released \in Nat /\ b.rejected \in Nat
      /\ b = [slot |-> b.slot, count |-> b.count, first |-> b.first, enqueued |-> b.enqueued,
              released |-> b.released, rejected |-> b.rejected]
  BY DEF Sound, Queue
<1>4. c = [slot |-> [i \in SlotIndex |-> IF i \in UsedSlots(b) THEN None ELSE b.slot[i]],
           count |-> 0, first |-> NoBatch, enqueued |-> b.enqueued,
           released |-> b.released + b.count, rejected |-> b.rejected]
  BY <1>2, <1>3
<1>5. UsedSlots(c) = {}
  BY <1>4 DEF UsedSlots
<1>6. Held(c) = {}
  BY <1>5 DEF Held
<1>7. c \in Queue
  <2>1. [i \in SlotIndex |-> IF i \in UsedSlots(b) THEN None ELSE b.slot[i]]
          \in [SlotIndex -> Frames \cup {None}]
    BY <1>3
  <2>2. 0 \in 0 .. MaxFrames /\ NoBatch \in NoBatch .. Wait /\ b.released + b.count \in Nat
    BY <1>3, SizeFacts, SizeAssumption DEF NoBatch
  <2>. QED  BY <1>3, <1>4, <2>1, <2>2 DEF Queue
<1>8. QueueConsistent(c)
  <2>1. c.enqueued = c.released + c.count
    BY <1>3, <1>4, SizeFacts DEF Sound, QueueConsistent
  <2>. QED  BY <1>4, <1>5, <2>1, FS_EmptySet DEF QueueConsistent
<1>. QED  BY <1>1, <1>6, <1>7, <1>8 DEF Sound, c

LEMMA EmptyCount ==
  ASSUME NEW b, Sound(b)
  PROVE  b.count = 0 <=> Held(b) = {}
<1>1. Held(b) = {} <=> UsedSlots(b) = {}
  BY DEF Held
<1>. QED  BY <1>1, SlotFacts, FS_EmptySet

LEMMA ReleaseEmpties ==
  ASSUME NEW b, Sound(b)
  PROVE  Sound(Release(b)) /\ Held(Release(b)) = {} /\ ReleaseFrames(b) = Held(b)
BY DrainEmpties, EmptyCount DEF Release, ReleaseFrames

\* The frames held are as many as the slots used.
LEMMA HeldCount ==
  ASSUME NEW b, Sound(b)
  PROVE  IsFiniteSet(Held(b)) /\ Cardinality(Held(b)) = b.count
<1> DEFINE g == [i \in UsedSlots(b) |-> b.slot[i]]
<1>1. g \in [UsedSlots(b) -> Held(b)]
  BY DEF Held
<1>2. \A h \in Held(b) : \E i \in UsedSlots(b) : g[i] = h
  BY DEF Held
<1>3. \A i, j \in UsedSlots(b) : g[i] = g[j] => i = j
  BY DEF Sound, QueueConsistent
<1>4. g \in Bijection(UsedSlots(b), Held(b))
  BY <1>1, <1>2, <1>3 DEF Bijection, Injection, Surjection, IsInjective
<1>5. ExistsBijection(UsedSlots(b), Held(b))
  BY <1>4 DEF ExistsBijection
<1>. QED  BY <1>5, SlotFacts, FS_Bijection

-----------------------------------------------------------------------------
\* The relay holds a frame in its hand exactly while it handles one.
HandFits == hand # None <=> relay = "handle"

\* A relay that does not batch queues nothing.
PlainIsEmpty == ~ batching => Held(q) = {}

\* The age of the batch is that of its oldest frame; what is in the hand came
\* later, and what has not come yet has no age.
AgesFit ==
  /\ \A f \in Frames \ got : age[f] = 0
  /\ \A f \in Held(q) : age[f] <= q.first
  /\ Held(q) # {} => \E f \in Held(q) : age[f] = q.first
  /\ hand # None /\ Held(q) # {} => age[hand] <= q.first

\* What waits at the listening socket is new, and waits there once.
WaitingAreNew ==
  /\ backlog \in Seq(Frames \cup {Short})
  /\ sent \in 0 .. NFlows
  /\ got \subseteq 1 .. sent
  /\ \A k \in 1 .. Len(backlog) : backlog[k] # Short => backlog[k] \in 1 .. sent /\ backlog[k] \notin got
  /\ \A k, l \in 1 .. Len(backlog) : backlog[k] = backlog[l] /\ backlog[k] # Short => k = l

\* The frames: where they are, how old, and what the queue says of them.
FramesInv ==
  /\ Sound(q) /\ batching \in BOOLEAN
  /\ hand \in Frames \cup {None}
  /\ out \subseteq Frames /\ got \subseteq Frames
  /\ age \in [Frames -> 0 .. Wait]
  /\ NothingLost /\ PlainIsEmpty /\ AgesFit

\* The places of the threads.
PlacesInv ==
  /\ stop \in BOOLEAN
  /\ main \in {"send", "flush", "wake", "join", "done"}
  /\ relay \in {"top", "accept", "handle", "done"}
  /\ flusher \in {"top", "poll", "done"}
  /\ HandFits
  /\ main # "send" => stop

IInv == FramesInv /\ WaitingAreNew /\ PlacesInv

LEMMA InitHolds == Init => IInv
<1> SUFFICES ASSUME Init PROVE IInv
  OBVIOUS
<1>1. FramesInv
  <2>1. age \in [Frames -> 0 .. Wait] /\ \A f \in Frames : age[f] = 0
    BY SizeAssumption DEF Init
  <2>2. Held(q) = {} /\ Sound(q)
    BY EmptyIsSound DEF Init
  <2>. QED
    BY <2>1, <2>2 DEF Init, FramesInv, NothingLost, InRelay, PlainIsEmpty, AgesFit
<1>2. WaitingAreNew
  <2>1. <<>> \in Seq(Frames \cup {Short}) /\ Len(<<>>) = 0
    BY EmptySeq
  <2>. QED  BY <2>1, FlowAssumption DEF Init, WaitingAreNew
<1>3. PlacesInv
  BY DEF Init, PlacesInv, HandFits
<1>. QED  BY <1>1, <1>2, <1>3 DEF IInv

-----------------------------------------------------------------------------
\* What the critical section of relay_thread does: the frame joins the batch,
\* or the full batch leaves and the frame starts the next one.
Joins ==
  /\ HasRoom(q) /\ Held(q') = Held(q) \cup {hand} /\ out' = out
  /\ q'.first = IF Held(q) = {} THEN age[hand] ELSE q.first

StartsNext ==
  /\ ~ HasRoom(q) /\ Held(q') = {hand} /\ out' = out \cup Held(q)
  /\ q'.first = age[hand]

LEMMA EnqueueEffect ==
  ASSUME FramesInv, PlacesInv, RelayEnqueue
  PROVE  Sound(q') /\ (Joins \/ StartsNext)
<1>1. hand \in Frames /\ hand \notin Held(q) /\ age[hand] \in 0 .. Wait /\ Sound(q)
  BY DEF FramesInv, PlacesInv, HandFits, NothingLost, RelayEnqueue
<1>2. CASE HasRoom(q)
  <2>1. q' = Enqueue(q, hand, age[hand]) /\ out' = out
    BY <1>2 DEF RelayEnqueue
  <2>. QED  BY <1>1, <1>2, <2>1, EnqueueFits DEF Joins
<1>3. CASE ~ HasRoom(q)
  <2> DEFINE q1 == Enqueue(q, hand, age[hand])
             q2 == Release(q1)
  <2>1. q' = Enqueue(q2, hand, age[hand]) /\ out' = out \cup ReleaseFrames(q1)
    BY <1>3 DEF RelayEnqueue
  <2>2. Sound(q1) /\ q1.slot = q.slot
    BY <1>1, <1>3, EnqueueRefused
  <2> HIDE DEF q1
  <2>3. Held(q1) = Held(q)
    BY <2>2 DEF Held, UsedSlots
  <2>4. Sound(q2) /\ Held(q2) = {} /\ ReleaseFrames(q1) = Held(q)
    BY <2>2, <2>3, ReleaseEmpties
  <2> HIDE DEF q2
  <2>5. HasRoom(q2)
    BY <2>4, EmptyCount, RoomMeans, SizeFacts
  <2>6. Sound(q') /\ Held(q') = {hand} /\ q'.first = age[hand]
    BY <1>1, <2>1, <2>4, <2>5, EnqueueFits
  <2>. QED  BY <1>3, <2>1, <2>4, <2>6 DEF StartsNext
<1>. QED  BY <1>2, <1>3

\* What the two drains do: the batch leaves, or nothing happens.
LEMMA LeaveEffect ==
  ASSUME FramesInv, MainFlush \/ FlusherPoll
  PROVE  /\ UNCHANGED <<batching, sent, backlog, relay, hand, got, age, stop>>
         /\ \/ q' = q /\ out' = out
            \/ Sound(q') /\ Held(q') = {} /\ out' = out \cup Held(q)
<1>1. Sound(q)
  BY DEF FramesInv
<1>. QED  BY <1>1, DrainEmpties, ReleaseEmpties DEF MainFlush, FlusherPoll

\* Nothing is lost, duplicated or misdated when the relay handles a frame.
LEMMA EnqueueKeeps ==
  ASSUME FramesInv, PlacesInv, RelayEnqueue
  PROVE  FramesInv'
<1>1. Sound(q') /\ (Joins \/ StartsNext)
  BY EnqueueEffect
<1>2. hand \in Frames /\ hand' = None /\ batching /\ UNCHANGED <<batching, got, age>>
  BY DEF RelayEnqueue, FramesInv, PlacesInv, HandFits
<1>3. hand \notin Held(q) /\ hand \notin out /\ hand # None
      /\ got = Held(q) \cup {hand} \cup out /\ out \cap Held(q) = {} /\ out \subseteq Frames
  BY <1>2, FramesAssumption DEF FramesInv, NothingLost, InRelay
<1>4. Held(q) \subseteq Frames
  BY <1>3 DEF FramesInv
<1>5. NothingLost'
  <2>1. InRelay' = Held(q')
    BY <1>2 DEF InRelay
  <2>2. None \notin Held(q')
    BY <1>1, <1>2, <1>4, FramesAssumption DEF Joins, StartsNext
  <2>. QED  BY <1>1, <1>2, <1>3, <2>1, <2>2 DEF NothingLost, Joins, StartsNext
<1>6. AgesFit'
  <2>1. CASE Joins
    <3>1. CASE Held(q) = {}
      <4>1. Held(q') = {hand} /\ q'.first = age[hand]
        BY <2>1, <3>1 DEF Joins
      <4>. QED  BY <1>2, <4>1 DEF FramesInv, AgesFit
    <3>2. CASE Held(q) # {}
      <4>1. Held(q') = Held(q) \cup {hand} /\ q'.first = q.first
        BY <2>1, <3>2 DEF Joins
      <4>. QED  BY <1>2, <1>3, <3>2, <4>1 DEF FramesInv, AgesFit
    <3>. QED  BY <3>1, <3>2
  <2>2. CASE StartsNext
    BY <1>2, <2>2 DEF StartsNext, FramesInv, AgesFit
  <2>. QED  BY <1>1, <2>1, <2>2
<1>. QED
  BY <1>1, <1>2, <1>3, <1>4, <1>5, <1>6 DEF FramesInv, PlainIsEmpty, Joins, StartsNext

LEMMA ForwardKeeps ==
  ASSUME FramesInv, PlacesInv, RelayForward
  PROVE  FramesInv'
<1>1. hand \in Frames /\ hand' = None /\ ~ batching /\ out' = out \cup {hand}
      /\ UNCHANGED <<q, batching, got, age>>
  BY DEF RelayForward, FramesInv, PlacesInv, HandFits
<1>2. Held(q) = {} /\ Held(q)' = {}
  BY <1>1 DEF FramesInv, PlainIsEmpty
<1>3. NothingLost'
  BY <1>1, <1>2, FramesAssumption DEF FramesInv, NothingLost, InRelay
<1>4. AgesFit'
  BY <1>1, <1>2 DEF FramesInv, AgesFit
<1>. QED
  BY <1>1, <1>2, <1>3, <1>4 DEF FramesInv, PlainIsEmpty

LEMMA LeaveKeeps ==
  ASSUME FramesInv, MainFlush \/ FlusherPoll
  PROVE  FramesInv'
<1>1. UNCHANGED <<batching, hand, got, age>>
  BY LeaveEffect
<1>2. CASE q' = q /\ out' = out
  BY <1>1, <1>2 DEF FramesInv, NothingLost, InRelay, PlainIsEmpty, AgesFit
<1>3. CASE Sound(q') /\ Held(q') = {} /\ out' = out \cup Held(q)
  <2>1. Held(q) \subseteq got
    BY DEF FramesInv, NothingLost, InRelay
  <2>2. NothingLost'
    BY <1>1, <1>3 DEF FramesInv, NothingLost, InRelay
  <2>3. AgesFit'
    BY <1>1, <1>3 DEF FramesInv, AgesFit
  <2>. QED  BY <1>1, <1>3, <2>1, <2>2, <2>3 DEF FramesInv, PlainIsEmpty
<1>. QED  BY <1>2, <1>3, LeaveEffect

-----------------------------------------------------------------------------
\* The batch and the frames in the relay grow old together.
LEMMA OlderFacts ==
  /\ \A a \in 0 .. Wait : Older(a) \in 0 .. Wait
  /\ \A a, b \in 0 .. Wait : a <= b => Older(a) <= Older(b)
BY SizeAssumption DEF Older

LEMMA TickKeeps ==
  ASSUME FramesInv, Tick
  PROVE  FramesInv'
<1>1. /\ UNCHANGED <<batching, hand, out, got>>
      /\ q' = [q EXCEPT !.first = IF @ = NoBatch THEN @ ELSE Older(@)]
      /\ age' = [f \in Frames |-> IF f \in InRelay THEN Older(age[f]) ELSE age[f]]
  BY DEF Tick
<1>2. q.first \in NoBatch .. Wait /\ (q.first # NoBatch => q.first \in 0 .. Wait)
  BY SizeAssumption DEF FramesInv, Sound, Queue, NoBatch
<1>3. /\ q'.slot = q.slot /\ q'.count = q.count /\ q'.enqueued = q.enqueued
      /\ q'.released = q.released
      /\ q'.first = IF q.first = NoBatch THEN NoBatch ELSE Older(q.first)
  BY <1>1 DEF FramesInv, Sound, Queue
<1>4. q'.first \in NoBatch .. Wait /\ (q'.first = NoBatch <=> q.first = NoBatch)
  BY <1>2, <1>3, OlderFacts, SizeAssumption DEF NoBatch
<1>5. Held(q') = Held(q) /\ UsedSlots(q') = UsedSlots(q)
  BY <1>3 DEF Held, UsedSlots
<1>6. Sound(q')
  <2>1. q' \in Queue
    BY <1>1, <1>3, <1>4 DEF FramesInv, Sound, Queue
  <2>. QED  BY <1>3, <1>4, <1>5, <2>1 DEF FramesInv, Sound, QueueConsistent
<1>7. InRelay' = InRelay /\ NothingLost' /\ PlainIsEmpty'
  BY <1>1, <1>5 DEF FramesInv, NothingLost, InRelay, PlainIsEmpty
<1>8. age' \in [Frames -> 0 .. Wait]
  BY <1>1, OlderFacts DEF FramesInv
<1>9. AgesFit'
  <2>1. \A f \in Frames : age'[f] = IF f \in InRelay THEN Older(age[f]) ELSE age[f]
    BY <1>1
  <2>2. \A f \in Frames : age[f] \in 0 .. Wait
    BY DEF FramesInv
  <2>3. InRelay \subseteq Frames /\ Held(q) \subseteq InRelay /\ (hand # None => hand \in InRelay)
    BY DEF FramesInv, NothingLost, InRelay
  <2>4. \A f \in Frames \ got : age'[f] = 0
    BY <2>1 DEF FramesInv, NothingLost, AgesFit
  <2>5. Held(q) # {} => q.first \in 0 .. Wait /\ q'.first = Older(q.first)
    BY <1>2, <1>3, EmptyCount DEF FramesInv, Sound, QueueConsistent
  <2>6. ASSUME NEW f \in InRelay, Held(q) # {}, age[f] <= q.first  PROVE age'[f] <= q'.first
    <3>1. age'[f] = Older(age[f]) /\ age[f] \in 0 .. Wait
      BY <2>1, <2>2, <2>3, <2>6
    <3>. QED  BY <2>5, <2>6, <3>1, OlderFacts
  <2>7. \A f \in Held(q) : age'[f] <= q'.first
    BY <2>3, <2>6 DEF FramesInv, AgesFit
  <2>8. hand # None /\ Held(q) # {} => age'[hand] <= q'.first
    BY <2>3, <2>6 DEF FramesInv, AgesFit
  <2>9. Held(q) # {} => \E f \in Held(q) : age'[f] = q'.first
    BY <2>1, <2>3, <2>5 DEF FramesInv, AgesFit
  <2>. QED  BY <1>1, <1>5, <2>4, <2>7, <2>8, <2>9 DEF AgesFit
<1>. QED  BY <1>1, <1>6, <1>7, <1>8, <1>9 DEF FramesInv

-----------------------------------------------------------------------------
\* A connection joins the line at the listening socket, or is refused.
LEMMA DialKeeps ==
  ASSUME WaitingAreNew, NEW n \in Nat, NEW c, c = Short \/ (c = sent + 1 /\ n = sent + 1),
         n = sent \/ n = sent + 1, n <= NFlows, Dial(c), sent' = n, got' = got
  PROVE  WaitingAreNew'
<1>1. sent \in Nat /\ 1 .. sent \subseteq 1 .. n /\ n \in 0 .. NFlows
  BY FlowAssumption DEF WaitingAreNew
<1>2. CASE backlog' = backlog
  BY <1>1, <1>2 DEF WaitingAreNew
<1>3. CASE backlog' = Append(backlog, c)
  <2>1. c \in Frames \cup {Short}
    BY <1>1, FlowAssumption
  <2>2. backlog \in Seq(Frames \cup {Short})
    BY DEF WaitingAreNew
  <2> DEFINE m == Len(backlog)
  <2>3. m \in Nat
    BY <2>2, LenProperties
  <2>4. /\ backlog' \in Seq(Frames \cup {Short}) /\ Len(backlog') = m + 1
        /\ \A k \in 1 .. m : backlog'[k] = backlog[k]
        /\ backlog'[m + 1] = c
    BY <1>3, <2>1, <2>2, AppendProperties
  <2> HIDE DEF m
  <2>5. \A k \in 1 .. Len(backlog') : k \in 1 .. m \/ k = m + 1
    BY <2>3, <2>4
  <2>6. \A k \in 1 .. m : backlog[k] # Short =>
          backlog[k] \in 1 .. sent /\ backlog[k] \notin got /\ backlog[k] # sent + 1
    BY <1>1 DEF WaitingAreNew, m
  <2>7. c # Short => c \in 1 .. n /\ c \notin got /\ c = sent + 1
    BY <1>1 DEF WaitingAreNew
  <2>8. ASSUME NEW k \in 1 .. Len(backlog'), backlog'[k] # Short
        PROVE  backlog'[k] \in 1 .. n /\ backlog'[k] \notin got
    BY <1>1, <2>4, <2>5, <2>6, <2>7, <2>8
  <2>9. ASSUME NEW k \in 1 .. Len(backlog'), NEW l \in 1 .. Len(backlog'),
               backlog'[k] = backlog'[l], backlog'[k] # Short
        PROVE  k = l
    <3>1. \A i, j \in 1 .. m : backlog[i] = backlog[j] /\ backlog[i] # Short => i = j
      BY DEF WaitingAreNew, m
    <3>. QED  BY <2>4, <2>5, <2>6, <2>7, <2>9, <3>1
  <2>10. got \subseteq 1 .. n
    BY <1>1 DEF WaitingAreNew
  <2>. QED  BY <1>1, <2>4, <2>8, <2>9, <2>10 DEF WaitingAreNew
<1>. QED  BY <1>2, <1>3 DEF Dial

LEMMA ReceiveKeeps ==
  ASSUME IInv, RelayReceive
  PROVE  IInv'
<1> DEFINE h == Head(backlog)
<1>1. /\ backlog \in Seq(Frames \cup {Short}) /\ backlog # <<>>
      /\ Len(backlog) \in Nat /\ Len(backlog) > 0 /\ h = backlog[1]
  BY EmptySeq, LenProperties DEF RelayReceive, IInv, WaitingAreNew
<1>2. /\ backlog' \in Seq(Frames \cup {Short}) /\ Len(backlog') = Len(backlog) - 1
      /\ \A k \in 1 .. Len(backlog') : backlog'[k] = backlog[k + 1]
      /\ h \in Frames \cup {Short}
  BY <1>1, HeadTailProperties DEF RelayReceive
<1>3. UNCHANGED <<q, batching, stop, main, sent, flusher, out, age>> /\ relay = "accept"
  BY DEF RelayReceive
<1>4. /\ h # Short => h \in 1 .. sent /\ h \notin got
      /\ \A k \in 1 .. Len(backlog') : backlog'[k] # Short => backlog'[k] # h
  <2>1. h # Short => h \in 1 .. sent /\ h \notin got
    BY <1>1 DEF IInv, WaitingAreNew
  <2>2. \A k \in 1 .. Len(backlog') : k + 1 \in 1 .. Len(backlog) /\ k + 1 # 1
    BY <1>1, <1>2
  <2>3. 1 \in 1 .. Len(backlog)
    BY <1>1
  <2>4. \A k, l \in 1 .. Len(backlog) : backlog[k] = backlog[l] /\ backlog[k] # Short => k = l
    BY DEF IInv, WaitingAreNew
  <2>. QED  BY <1>1, <1>2, <2>1, <2>2, <2>3, <2>4
<1> HIDE DEF h
<1>5. \/ h = Short /\ relay' = "top" /\ hand' = hand /\ got' = got
      \/ h # Short /\ relay' = "handle" /\ hand' = h /\ got' = got \cup {h}
  BY DEF RelayReceive, h
<1>6. hand = None
  BY <1>3 DEF IInv, PlacesInv, HandFits
<1>7. WaitingAreNew'
  <2>1. got' \subseteq 1 .. sent
    BY <1>4, <1>5 DEF IInv, WaitingAreNew
  <2>2. \A k \in 1 .. Len(backlog') : k + 1 \in 1 .. Len(backlog)
    BY <1>1, <1>2
  <2>3. \A k \in 1 .. Len(backlog') : backlog'[k] # Short =>
          backlog'[k] \in 1 .. sent /\ backlog'[k] \notin got'
    BY <1>2, <1>4, <1>5, <2>2 DEF IInv, WaitingAreNew
  <2>4. ASSUME NEW k \in 1 .. Len(backlog'), NEW l \in 1 .. Len(backlog'),
               backlog'[k] = backlog'[l], backlog'[k] # Short
        PROVE  k = l
    <3>1. k + 1 = l + 1
      BY <1>2, <2>2, <2>4 DEF IInv, WaitingAreNew
    <3>. QED  BY <3>1
  <2>. QED  BY <1>2, <1>3, <2>1, <2>3, <2>4 DEF IInv, WaitingAreNew
<1>8. PlacesInv'
  <2>1. h # Short => h # None
    BY <1>2, FramesAssumption
  <2>. QED  BY <1>3, <1>5, <1>6, <2>1 DEF IInv, PlacesInv, HandFits
<1>9. FramesInv'
  <2>1. CASE got' = got /\ hand' = hand
    BY <1>3, <2>1 DEF IInv, FramesInv, NothingLost, InRelay, PlainIsEmpty, AgesFit
  <2>2. CASE h # Short /\ hand' = h /\ got' = got \cup {h}
    <3>1. h \in Frames /\ h \notin got /\ h # None
      BY <1>2, <1>4, <2>2, FramesAssumption
    <3>2. InRelay = Held(q) /\ InRelay' = Held(q) \cup {h}
      BY <1>3, <1>6, <2>2, <3>1 DEF InRelay
    <3>3. NothingLost'
      BY <1>3, <2>2, <3>1, <3>2 DEF IInv, FramesInv, NothingLost
    <3>4. AgesFit'
      <4>1. age[h] = 0
        BY <3>1 DEF IInv, FramesInv, AgesFit
      <4>2. Held(q) # {} => q.first >= 0
        BY EmptyCount, SizeAssumption
           DEF IInv, FramesInv, Sound, Queue, QueueConsistent, NoBatch
      <4>. QED  BY <1>3, <2>2, <4>1, <4>2 DEF IInv, FramesInv, AgesFit
    <3>. QED  BY <1>3, <2>2, <3>1, <3>3, <3>4 DEF IInv, FramesInv, PlainIsEmpty
  <2>. QED  BY <1>5, <2>1, <2>2
<1>. QED  BY <1>7, <1>8, <1>9 DEF IInv

-----------------------------------------------------------------------------
\* The three parts of the invariant, step by step.
LEMMA PlacesKept ==
  ASSUME IInv, [Next]_vars
  PROVE  PlacesInv'
<1> USE DEF IInv, PlacesInv, HandFits
<1>1. CASE MainSend \/ MainStop \/ Shutdown
  BY <1>1 DEF MainSend, MainStop, Shutdown, MainFlush, MainWake, MainJoin
<1>2. CASE RelayReceive
  BY <1>2, ReceiveKeeps
<1>3. CASE RelayTop \/ RelayAcceptFails \/ RelayEnqueue \/ RelayForward
  BY <1>3 DEF RelayTop, RelayAcceptFails, RelayEnqueue, RelayForward
<1>4. CASE Flusher \/ Tick \/ Finished \/ UNCHANGED vars
  BY <1>4 DEF Flusher, FlusherTop, FlusherPoll, Tick, Finished, vars
<1>. QED  BY <1>1, <1>2, <1>3, <1>4 DEF Next, Relay

LEMMA WaitingKept ==
  ASSUME IInv, [Next]_vars
  PROVE  WaitingAreNew'
<1>1. sent \in Nat /\ sent <= NFlows
  BY FlowAssumption DEF IInv, WaitingAreNew
<1>2. CASE MainSend
  BY <1>1, <1>2, DialKeeps, FlowAssumption DEF MainSend, IInv
<1>3. CASE MainWake
  BY <1>1, <1>3, DialKeeps DEF MainWake, IInv
<1>4. CASE RelayReceive
  BY <1>4, ReceiveKeeps DEF IInv
<1>5. CASE UNCHANGED <<backlog, sent, got>>
  BY <1>5 DEF IInv, WaitingAreNew
<1>6. CASE MainStop \/ MainFlush \/ MainJoin \/ RelayTop \/ RelayAcceptFails \/ RelayEnqueue
           \/ RelayForward \/ Flusher \/ Tick \/ Finished \/ UNCHANGED vars
  BY <1>5, <1>6 DEF MainStop, MainFlush, MainJoin, RelayTop, RelayAcceptFails, RelayEnqueue,
                    RelayForward, Flusher, FlusherTop, FlusherPoll, Tick, Finished, vars
<1>. QED  BY <1>2, <1>3, <1>4, <1>6 DEF Next, Shutdown, Relay

\* A step that touches neither the frames nor the queue.
FramesUntouched == UNCHANGED <<q, batching, hand, out, got, age>>

LEMMA FramesKept ==
  ASSUME IInv, [Next]_vars
  PROVE  FramesInv'
<1>1. CASE RelayEnqueue
  BY <1>1, EnqueueKeeps DEF IInv
<1>2. CASE RelayForward
  BY <1>2, ForwardKeeps DEF IInv
<1>3. CASE MainFlush \/ FlusherPoll
  BY <1>3, LeaveKeeps DEF IInv
<1>4. CASE Tick
  BY <1>4, TickKeeps DEF IInv
<1>5. CASE RelayReceive
  BY <1>5, ReceiveKeeps DEF IInv
<1>6. CASE FramesUntouched
  BY <1>6 DEF FramesUntouched, IInv, FramesInv, NothingLost, InRelay, PlainIsEmpty, AgesFit
<1>7. CASE MainSend \/ MainStop \/ MainWake \/ MainJoin \/ RelayTop \/ RelayAcceptFails
           \/ FlusherTop \/ Finished \/ UNCHANGED vars
  BY <1>6, <1>7 DEF FramesUntouched, MainSend, MainStop, MainWake, MainJoin, RelayTop,
                    RelayAcceptFails, FlusherTop, Finished, vars
<1>. QED
  BY <1>1, <1>2, <1>3, <1>4, <1>5, <1>7 DEF Next, Shutdown, Relay, Flusher

LEMMA StepKeeps == IInv /\ [Next]_vars => IInv'
BY PlacesKept, WaitingKept, FramesKept DEF IInv

LEMMA Invariance == Spec => []IInv
BY InitHolds, StepKeeps, PTL DEF Spec

-----------------------------------------------------------------------------
\* The queue's counters agree with its slots after every critical section, and
\* it never holds more than max_frames (batch.c:31-103).
THEOREM TypesHold == Spec => []TypeOK
<1>1. IInv => TypeOK
  BY DEF IInv, FramesInv, WaitingAreNew, PlacesInv, Sound, TypeOK
<1>. QED  BY <1>1, Invariance, PTL

\* The second batch_enqueue of relay_thread, whose result is ignored, always
\* finds room: no frame received is lost or in two places (measure.c:122-129).
THEOREM NoFrameIsLost == Spec => []NothingLost
<1>1. IInv => NothingLost
  BY DEF IInv, FramesInv
<1>. QED  BY <1>1, Invariance, PTL

\* A frame leaves early only with a full batch or with an overdue one.
LEMMA LeavesOnly ==
  ASSUME IInv, [Next]_vars, NEW f \in Held(q), f \in out', ~ stop
  PROVE  q.count = MaxFrames \/ Overdue
<1>1. f \notin out
  BY DEF IInv, FramesInv, NothingLost, InRelay
<1>2. q.count \in 0 .. MaxFrames /\ Sound(q)
  BY SlotFacts DEF IInv, FramesInv
<1>3. CASE RelayEnqueue
  <2>1. Joins \/ StartsNext
    BY <1>3, EnqueueEffect DEF IInv
  <2>2. ~ HasRoom(q)
    BY <1>1, <2>1 DEF Joins, StartsNext
  <2>. QED  BY <1>2, <2>2, RoomMeans, SizeFacts
<1>4. CASE RelayForward
  BY <1>1, <1>4 DEF RelayForward, IInv, FramesInv, PlainIsEmpty
<1>5. CASE MainFlush
  BY <1>5 DEF MainFlush, IInv, PlacesInv
<1>6. CASE FlusherPoll
  <2>1. ShouldRelease(q)
    BY <1>1, <1>6 DEF FlusherPoll
  <2>2. CASE q.count >= MaxFrames
    BY <1>2, <2>2, SizeFacts
  <2>3. CASE q.first >= Wait
    BY <2>3 DEF Overdue, IInv, FramesInv, AgesFit
  <2>. QED  BY <2>1, <2>2, <2>3 DEF ShouldRelease
<1>7. CASE out' = out
  BY <1>1, <1>7
<1>8. CASE MainSend \/ MainStop \/ MainWake \/ MainJoin \/ RelayTop \/ RelayAcceptFails
           \/ RelayReceive \/ FlusherTop \/ Tick \/ Finished \/ UNCHANGED vars
  BY <1>7, <1>8 DEF MainSend, MainStop, MainWake, MainJoin, RelayTop, RelayAcceptFails,
                    RelayReceive, FlusherTop, Tick, Finished, vars
<1>. QED
  BY <1>3, <1>4, <1>5, <1>6, <1>8 DEF Next, Shutdown, Relay, Flusher

LEMMA OverdueIsDue ==
  ASSUME IInv, Overdue
  PROVE  ShouldRelease(q)
<1>1. PICK f \in Held(q) : age[f] >= Wait
  BY DEF Overdue
<1>2. age[f] \in Nat /\ Wait \in Nat /\ q.first \in Int /\ age[f] <= q.first
  <2>1. f \in Frames
    BY DEF IInv, FramesInv, NothingLost, InRelay
  <2>. QED
    BY <2>1, SizeAssumption DEF IInv, FramesInv, AgesFit, Sound, Queue, NoBatch
<1>3. q.first >= 0 /\ q.first >= Wait
  BY <1>1, <1>2
<1>4. q.count # 0
  BY EmptyCount DEF IInv, FramesInv
<1>. QED  BY <1>3, <1>4 DEF ShouldRelease

\* Full or overdue, whichever is first, and nothing else (batch.c:56-61).
THEOREM ReleasesAreDue == Spec => LeavesWhenDue
<1>1. IInv => (Overdue => ShouldRelease(q))
  BY OverdueIsDue
<1>2. IInv /\ [Next]_vars =>
        [(\E f \in Held(q) : f \in out') /\ ~ stop => q.count = MaxFrames \/ Overdue]_vars
  BY LeavesOnly
<1>. QED  BY <1>1, <1>2, Invariance, PTL DEF LeavesWhenDue, Spec

-----------------------------------------------------------------------------
\* The pool counts as this module does.
LEMMA SameCardinality == \A S : Pool!Cardinality(S) = Cardinality(S)
BY Zenon DEF Pool!Cardinality, Cardinality

\* Every step of the threads is one of the pool's, or none.
LEMMA StepsMap ==
  ASSUME IInv, [Next]_vars
  PROVE  [Pool!Next]_(Pool!vars)
<1>1. Sound(q) /\ out \subseteq Frames /\ Cardinality(Held(q)) = q.count
  BY HeldCount DEF IInv, FramesInv
<1>2. CASE RelayEnqueue
  <2>1. Joins \/ StartsNext
    BY <1>2, EnqueueEffect DEF IInv
  <2>2. hand \in Frames \ (Held(q) \cup out)
    BY <1>2 DEF RelayEnqueue, IInv, FramesInv, PlacesInv, HandFits, NothingLost, InRelay
  <2>3. HasRoom(q) <=> Cardinality(Held(q)) < MaxFrames
    BY <1>1, RoomMeans
  <2>4. ASSUME Joins PROVE Pool!Take(hand)
    <3>1. Held(q') = Held(q) \cup {hand} /\ out' = out /\ Cardinality(Held(q)) < MaxFrames
      BY <2>3, <2>4 DEF Joins
    <3>. QED  BY <2>2, <3>1, SameCardinality DEF Pool!Take
  <2>5. ASSUME StartsNext PROVE Pool!Take(hand)
    <3>1. Held(q') = {hand} /\ out' = out \cup Held(q) /\ ~ (Cardinality(Held(q)) < MaxFrames)
      BY <2>3, <2>5 DEF StartsNext
    <3>. QED  BY <2>2, <3>1, SameCardinality DEF Pool!Take
  <2>6. Pool!Take(hand)
    BY <2>1, <2>4, <2>5
  <2>. QED  BY <2>2, <2>6 DEF Pool!Next
<1>3. CASE RelayForward
  <2>1. hand \in Frames \ out /\ Held(q) = {} /\ Held(q') = {} /\ out' = out \cup {hand}
    BY <1>3 DEF RelayForward, IInv, FramesInv, PlacesInv, HandFits, NothingLost, InRelay,
                PlainIsEmpty
  <2>2. Pool!Pass(hand)
    BY <2>1 DEF Pool!Pass
  <2>. QED  BY <2>1, <2>2 DEF Pool!Next
<1>4. CASE MainFlush \/ FlusherPoll
  <2>1. \/ q' = q /\ out' = out
        \/ Held(q') = {} /\ out' = out \cup Held(q)
    BY <1>4, LeaveEffect DEF IInv
  <2>. QED  BY <2>1 DEF Pool!Next, Pool!Leave, Pool!vars
<1>5. CASE Tick
  <2>1. q'.slot = q.slot /\ out' = out
    BY <1>5 DEF Tick, IInv, FramesInv, Sound, Queue
  <2>2. Held(q') = Held(q)
    BY <2>1 DEF Held, UsedSlots
  <2>. QED  BY <2>1, <2>2 DEF Pool!vars
<1>6. CASE q' = q /\ out' = out
  BY <1>6 DEF Pool!vars
<1>7. CASE MainSend \/ MainStop \/ MainWake \/ MainJoin \/ RelayTop \/ RelayAcceptFails
           \/ RelayReceive \/ FlusherTop \/ Finished \/ UNCHANGED vars
  BY <1>6, <1>7 DEF MainSend, MainStop, MainWake, MainJoin, RelayTop, RelayAcceptFails,
                    RelayReceive, FlusherTop, Finished, vars
<1>. QED
  BY <1>2, <1>3, <1>4, <1>5, <1>7 DEF Next, Shutdown, Relay, Flusher

\* The relay, its queue and its threads implement the bounded pool: frames are
\* taken once, and a batch leaves as a whole (batch.h:15-40).
THEOREM Refinement == Spec => RefinesPool
<1>1. Init => Pool!Init
  BY EmptyIsSound DEF Init, Pool!Init
<1>2. IInv /\ [Next]_vars => [Pool!Next]_(Pool!vars)
  BY StepsMap
<1>. QED  BY <1>1, <1>2, Invariance, PTL DEF RefinesPool, Pool!Spec, Spec
=============================================================================
