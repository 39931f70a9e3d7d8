------------------------------ MODULE BatchRelay ------------------------------
(***************************************************************************)
(* The batching relay of measure.c: three threads around one BatchQueue.   *)
(*                                                                         *)
(*   main     sends the flows, stops the relay, flushes, wakes the relay's *)
(*            accept and waits for the threads (run_mode)                  *)
(*   relay    accepts a connection, receives one envelope, enqueues it     *)
(*            (relay_thread)                                               *)
(*   flusher  polls the deadline and releases the batch (flusher_thread)   *)
(*                                                                         *)
(* g_lock protects the queue and the output, and no thread reads either    *)
(* outside it, so each critical section is one action. g_stop is read      *)
(* without the lock, at the top of each loop.                              *)
(***************************************************************************)
EXTENDS BatchQueue, Sequences

CONSTANTS
  NFlows,     \* flows run_mode sends; Frames is 1..NFlows
  Backlog     \* connections the listening socket queues (listen backlog)

ASSUME FlowAssumption == NFlows \in Nat /\ Frames = 1 .. NFlows /\ Backlog \in Nat \ {0}

VARIABLES
  q,          \* g_bq
  batching,   \* g_batching, fixed by run_mode before the threads start
  stop,       \* g_stop
  main,       \* where run_mode is
  sent,       \* flows attempted so far
  backlog,    \* connections waiting in the listening socket, oldest first
  relay,      \* where relay_thread is
  hand,       \* the frame relay_thread has received and not yet handled
  flusher,    \* where flusher_thread is
  out,        \* frames emitted
  got,        \* history: frames relay_thread received in full
  age         \* history: ticks since a frame was received, saturated at Wait

vars == <<q, batching, stop, main, sent, backlog, relay, hand, flusher, out, got, age>>

\* A connection that delivers less than one envelope: a failed airbchan_send,
\* or the connection run_mode opens to wake the relay.
Short == 0

Pool == INSTANCE BatchPool WITH Size <- MaxFrames, pool <- Held(q), gone <- out

-----------------------------------------------------------------------------
Init ==
  /\ q = EmptyQueue
  /\ batching \in BOOLEAN
  /\ stop = FALSE
  /\ main = "send"
  /\ sent = 0
  /\ backlog = <<>>
  /\ relay = "top"
  /\ hand = None
  /\ flusher = "top"
  /\ out = {}
  /\ got = {}
  /\ age = [f \in Frames |-> 0]

\* transport_dial: it fails when the listening socket is closed or its queue is
\* full, and may fail for a cause of its own (address, socket, time).
Dial(c) ==
  \/ /\ relay # "done" /\ Len(backlog) < Backlog
     /\ backlog' = Append(backlog, c)
  \/ backlog' = backlog

-----------------------------------------------------------------------------
\* run_mode sends the next flow; airbchan_send may fail half way.
MainSend ==
  /\ main = "send"
  /\ sent < NFlows
  /\ sent' = sent + 1
  /\ \E c \in {sent + 1, Short} : Dial(c)
  /\ UNCHANGED <<q, batching, stop, main, relay, hand, flusher, out, got, age>>

\* All flows sent (and 1200 ms slept, which orders nothing): g_stop = 1.
MainStop ==
  /\ main = "send"
  /\ sent = NFlows
  /\ stop' = TRUE
  /\ main' = "flush"
  /\ UNCHANGED <<q, batching, sent, backlog, relay, hand, flusher, out, got, age>>

\* Under the lock: batch_flush, every frame emitted.
MainFlush ==
  /\ main = "flush"
  /\ main' = "wake"
  /\ IF batching
     THEN q' = Drain(q) /\ out' = out \cup DrainFrames(q)
     ELSE UNCHANGED <<q, out>>
  /\ UNCHANGED <<batching, stop, sent, backlog, relay, hand, flusher, got, age>>

\* The connection that is to end the relay's blocking accept. When the dial
\* fails nothing else is tried.
MainWake ==
  /\ main = "wake"
  /\ main' = "join"
  /\ Dial(Short)
  /\ UNCHANGED <<q, batching, stop, sent, relay, hand, flusher, out, got, age>>

\* WaitForSingleObject on both threads, with a timeout on each: main goes on
\* whether they have ended or not.
MainJoin ==
  /\ main = "join"
  /\ main' = "done"
  /\ UNCHANGED <<q, batching, stop, sent, backlog, relay, hand, flusher, out, got, age>>

-----------------------------------------------------------------------------
\* Seeded fault: the relay does not look at g_stop again.
RelayTopForever ==
  /\ relay = "top"
  /\ relay' = "accept"
  /\ UNCHANGED <<q, batching, stop, main, sent, backlog, hand, flusher, out, got, age>>

RelayTop ==
  /\ relay = "top"
  /\ relay' = IF stop THEN "done" ELSE "accept"
  /\ UNCHANGED <<q, batching, stop, main, sent, backlog, hand, flusher, out, got, age>>

\* transport_accept fails: the thread ends.
RelayAcceptFails ==
  /\ relay = "accept"
  /\ relay' = "done"
  /\ UNCHANGED <<q, batching, stop, main, sent, backlog, hand, flusher, out, got, age>>

\* A connection is accepted and read to the end of the envelope; the time is
\* taken before the lock is.
RelayReceive ==
  /\ relay = "accept"
  /\ backlog # <<>>
  /\ backlog' = Tail(backlog)
  /\ IF Head(backlog) = Short
     THEN relay' = "top" /\ UNCHANGED <<hand, got>>
     ELSE /\ relay' = "handle"
          /\ hand' = Head(backlog)
          /\ got' = got \cup {Head(backlog)}
  /\ UNCHANGED <<q, batching, stop, main, sent, flusher, out, age>>

\* Seeded fault: a frame that meets a full batch is not enqueued again.
RelayEnqueueOnce ==
  /\ relay = "handle"
  /\ batching
  /\ LET q1 == Enqueue(q, hand, age[hand])
     IN  /\ q' = IF HasRoom(q) THEN q1 ELSE Release(q1)
         /\ out' = IF HasRoom(q) THEN out ELSE out \cup ReleaseFrames(q1)
  /\ relay' = "top"
  /\ hand' = None
  /\ UNCHANGED <<batching, stop, main, sent, backlog, flusher, got, age>>

\* Under the lock: batch_enqueue; when it is refused, release the full batch
\* and enqueue again, with no look at the second result.
RelayEnqueue ==
  /\ relay = "handle"
  /\ batching
  /\ LET q1 == Enqueue(q, hand, age[hand])
     IN  IF HasRoom(q)
         THEN q' = q1 /\ out' = out
         ELSE /\ q' = Enqueue(Release(q1), hand, age[hand])
              /\ out' = out \cup ReleaseFrames(q1)
  /\ relay' = "top"
  /\ hand' = None
  /\ UNCHANGED <<batching, stop, main, sent, backlog, flusher, got, age>>

\* Not batching: the frame is emitted at once.
RelayForward ==
  /\ relay = "handle"
  /\ ~ batching
  /\ out' = out \cup {hand}
  /\ relay' = "top"
  /\ hand' = None
  /\ UNCHANGED <<q, batching, stop, main, sent, backlog, flusher, got, age>>

-----------------------------------------------------------------------------
FlusherTop ==
  /\ flusher = "top"
  /\ flusher' = IF stop THEN "done" ELSE "poll"
  /\ UNCHANGED <<q, batching, stop, main, sent, backlog, relay, hand, out, got, age>>

\* Under the lock: release the batch if it is due.
FlusherPoll ==
  /\ flusher = "poll"
  /\ flusher' = "top"
  /\ IF batching /\ ShouldRelease(q)
     THEN q' = Release(q) /\ out' = out \cup ReleaseFrames(q)
     ELSE UNCHANGED <<q, out>>
  /\ UNCHANGED <<batching, stop, main, sent, backlog, relay, hand, got, age>>

-----------------------------------------------------------------------------
Older(a) == IF a < Wait THEN a + 1 ELSE a

InRelay == Held(q) \cup (IF hand = None THEN {} ELSE {hand})

\* The clock advances: the batch and every frame in the relay get older.
Tick ==
  /\ \E f \in InRelay : age[f] < Wait
  /\ q' = [q EXCEPT !.first = IF @ = NoBatch THEN @ ELSE Older(@)]
  /\ age' = [f \in Frames |-> IF f \in InRelay THEN Older(age[f]) ELSE age[f]]
  /\ UNCHANGED <<batching, stop, main, sent, backlog, relay, hand, flusher, out, got>>

\* Everything has ended.
Finished ==
  /\ main = "done" /\ relay = "done" /\ flusher = "done"
  /\ UNCHANGED vars

Shutdown == MainFlush \/ MainWake \/ MainJoin

Relay == RelayTop \/ RelayReceive \/ RelayEnqueue \/ RelayForward

Flusher == FlusherTop \/ FlusherPoll

Next ==
  \/ MainSend \/ MainStop \/ Shutdown
  \/ Relay \/ RelayAcceptFails
  \/ Flusher \/ Tick \/ Finished

\* The scheduler runs every thread that can run, and the clock advances. The
\* next flow and the decision to stop are owed to nobody.
Fairness == WF_vars(Shutdown) /\ WF_vars(Relay) /\ WF_vars(Flusher) /\ WF_vars(Tick)

Spec == Init /\ [][Next]_vars /\ Fairness

-----------------------------------------------------------------------------
\* Types, and: the queue never exceeds the size batch_init fixed, and after
\* every critical section its counters agree with its slots (batch.c keeps
\* count, first_arrival_ms and the totals apart from used[]).
TypeOK ==
  /\ q \in Queue /\ QueueConsistent(q)
  /\ batching \in BOOLEAN /\ stop \in BOOLEAN
  /\ main \in {"send", "flush", "wake", "join", "done"}
  /\ sent \in 0 .. NFlows
  /\ backlog \in Seq(Frames \cup {Short})
  /\ relay \in {"top", "accept", "handle", "done"}
  /\ flusher \in {"top", "poll", "done"}
  /\ hand \in Frames \cup {None}
  /\ out \subseteq Frames /\ got \subseteq Frames
  /\ age \in [Frames -> 0 .. Wait]

\* Every frame the relay received is in its hand, queued or emitted, and in one
\* place only: the full-queue path of relay_thread, which ignores the result of
\* its second batch_enqueue, drops nothing.
NothingLost ==
  /\ got = InRelay \cup out
  /\ out \cap InRelay = {}
  /\ hand \notin Held(q)

Overdue == \E f \in Held(q) : age[f] >= Wait

\* Release on either a full batch or the wait deadline (batch.h), whichever is
\* first: a batch is due as soon as the oldest frame in it has waited wait_ms, no
\* later arrival postpones that, and until shutdown frames leave in no other case.
LeavesWhenDue ==
  /\ [](Overdue => ShouldRelease(q))
  /\ [][ (\E f \in Held(q) : f \in out') /\ ~ stop => q.count = MaxFrames \/ Overdue ]_vars

\* The relay with its threads behaves as the pool: bounded, every frame leaves
\* at most once, and a batch leaves as a whole.
RefinesPool == Pool!Spec

\* A queued frame is emitted, or the relay is being shut down: the deadline is
\* acted upon even if no further frame ever arrives.
HeldFramesLeave == \A f \in Frames : f \in Held(q) ~> (f \in out \/ stop)

\* After g_stop run_mode returns and the flusher ends, whatever becomes of the
\* relay. The relay ends unless it is in accept with no connection waiting: one
\* connection is enough, the waking one or any other, and nothing it does between
\* brings it back to accept. (The waking dial may fail, and then it stays there.)
ShutdownEnds ==
  /\ stop ~> (main = "done" /\ flusher = "done")
  /\ (stop /\ (relay = "accept" => backlog # <<>>)) ~> relay = "done"

\* measure.c:255, "Drain anything still queued": once all threads have ended no
\* frame is left in the queue.
DrainedAtExit == main = "done" /\ relay = "done" => Held(q) = {}
=============================================================================
