------------------------------ MODULE BatchQueue ------------------------------
(***************************************************************************)
(* The batching queue of a relay (batch.c) as operators on its state.      *)
(*                                                                         *)
(* A queue is a record: slot (the frames, None where used is 0), count,    *)
(* first (see below) and the three totals. Time appears in batch.c only as *)
(* the difference now_ms - first_arrival_ms, so first is that difference,  *)
(* the age of the batch in clock ticks, saturated at Wait, with -1 for the *)
(* code's -1.0. BatchRelay advances it.                                    *)
(***************************************************************************)
EXTENDS Integers, FiniteSets

CONSTANTS
  Frames,     \* the frames that can be queued; every frame is sent once
  None,       \* marks a free slot
  MaxSlots,   \* BATCH_MAX_FRAMES
  Requested,  \* the max_frames the caller asks for
  Wait,       \* wait_ms in ticks
  OutCap      \* out_cap: room in the buffer a release drains into

\* batch_init clamps the requested size to 1..BATCH_MAX_FRAMES.
MaxFrames == IF Requested < 1 THEN 1
             ELSE IF Requested > MaxSlots THEN MaxSlots ELSE Requested

\* batch.h:72-75: "out must hold at least max_frames slots".
ASSUME SizeAssumption ==
  /\ MaxSlots \in Nat \ {0}
  /\ Requested \in Int
  /\ Wait \in Nat
  /\ OutCap \in Nat
  /\ OutCap >= MaxFrames
ASSUME FramesAssumption == None \notin Frames

SlotIndex == 0 .. MaxSlots - 1

NoBatch == -1

EmptyQueue ==
  [slot |-> [i \in SlotIndex |-> None], count |-> 0, first |-> NoBatch,
   enqueued |-> 0, released |-> 0, rejected |-> 0]

UsedSlots(q) == {i \in SlotIndex : q.slot[i] # None}

Held(q) == {q.slot[i] : i \in UsedSlots(q)}

-----------------------------------------------------------------------------
\* The slots batch_enqueue may fill: none when the queue holds max_frames.
FreeSlots(q) ==
  IF q.count >= MaxFrames THEN {} ELSE {i \in 0 .. MaxFrames - 1 : q.slot[i] = None}

\* BQ_OK rather than BQ_ERR_FULL.
HasRoom(q) == FreeSlots(q) # {}

\* Seeded fault: every arrival restarts the deadline of the batch.
EnqueueRestarts(q, f, a) ==
  IF HasRoom(q)
  THEN LET i == CHOOSE i \in FreeSlots(q) : \A j \in FreeSlots(q) : i <= j
       IN  [q EXCEPT !.slot[i] = f, !.first = a, !.count = @ + 1, !.enqueued = @ + 1]
  ELSE [q EXCEPT !.rejected = @ + 1]

\* batch_enqueue of frame f whose timestamp is a ticks old.
Enqueue(q, f, a) ==
  IF HasRoom(q)
  THEN LET i == CHOOSE i \in FreeSlots(q) : \A j \in FreeSlots(q) : i <= j
       IN  [q EXCEPT !.slot[i] = f,
                     !.first = IF q.count = 0 THEN a ELSE @,
                     !.count = @ + 1,
                     !.enqueued = @ + 1]
  ELSE [q EXCEPT !.rejected = @ + 1]

\* Seeded fault: any queued frame makes the batch due.
ShouldReleaseAny(q) == q.count # 0

\* Seeded fault: only a full batch is due.
ShouldReleaseFull(q) == q.count >= MaxFrames

\* batch_should_release; the batch is due when its age reaches Wait.
ShouldRelease(q) ==
  /\ q.count # 0
  /\ q.count >= MaxFrames \/ (q.first >= 0 /\ q.first >= Wait)

\* Seeded fault: the loop leaves the last slot of the array out.
DrainedButLast(q) == {i \in UsedSlots(q) : i < MaxFrames - 1}

\* The slots drain copies out: the first OutCap used ones.
Drained(q) ==
  {i \in UsedSlots(q) :
     i < MaxFrames /\ Cardinality({j \in UsedSlots(q) : j < i}) < OutCap}

\* drain: the frames that leave (shuffled, so as a set) and the queue left.
DrainFrames(q) == {q.slot[i] : i \in Drained(q)}

Drain(q) ==
  [q EXCEPT !.slot = [i \in SlotIndex |-> IF i \in Drained(q) THEN None ELSE q.slot[i]],
            !.count = 0,
            !.first = NoBatch,
            !.released = @ + Cardinality(Drained(q))]

\* batch_release does nothing on an empty queue; batch_flush always drains.
Release(q) == IF q.count = 0 THEN q ELSE Drain(q)

ReleaseFrames(q) == IF q.count = 0 THEN {} ELSE DrainFrames(q)

-----------------------------------------------------------------------------
\* The type of a queue at rest.
Queue ==
  [slot : [SlotIndex -> Frames \cup {None}], count : 0 .. MaxFrames,
   first : NoBatch .. Wait, enqueued : Nat, released : Nat, rejected : Nat]

\* The counters agree with the slots, only the first MaxFrames slots are ever
\* used, no frame is queued twice, and a deadline runs exactly for a batch.
QueueConsistent(q) ==
  /\ q.count = Cardinality(UsedSlots(q))
  /\ q.enqueued = q.released + q.count
  /\ \A i \in UsedSlots(q) : i < MaxFrames
  /\ \A i, j \in UsedSlots(q) : q.slot[i] = q.slot[j] => i = j
  /\ q.count = 0 <=> q.first = NoBatch
=============================================================================
