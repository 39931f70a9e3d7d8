------------------------------ MODULE BatchPool ------------------------------
(***************************************************************************)
(* What a batching relay promises (batch.h, DESIGN CONSTRAINTS), without   *)
(* slots, counters, deadlines or threads: a bounded pool. A frame is taken *)
(* in once; when anything leaves the pool, everything leaves it together,  *)
(* so that the members of a batch cannot be told apart by when they left.  *)
(***************************************************************************)
EXTENDS Naturals, FiniteSets

CONSTANTS Frames, Size

VARIABLES pool, gone

vars == <<pool, gone>>

Init == pool = {} /\ gone = {}

\* A new frame is taken in; a full pool leaves first.
Take(f) ==
  /\ f \in Frames \ (pool \cup gone)
  /\ IF Cardinality(pool) < Size
     THEN pool' = pool \cup {f} /\ gone' = gone
     ELSE pool' = {f} /\ gone' = gone \cup pool

\* The whole pool leaves.
Leave == pool' = {} /\ gone' = gone \cup pool

\* A relay that does not batch: a new frame leaves at once.
Pass(f) ==
  /\ pool = {}
  /\ f \in Frames \ gone
  /\ pool' = {} /\ gone' = gone \cup {f}

Next == Leave \/ \E f \in Frames : Take(f) \/ Pass(f)

Spec == Init /\ [][Next]_vars
=============================================================================
