------------------------------ MODULE ReplaySet ------------------------------
(***************************************************************************)
(* What a relay's replay filter promises (onionx.h, "REPLAY PROTECTION"),  *)
(* without its hash table: within one epoch the filter is a set of message *)
(* ids, an id is fresh exactly when it is not in the set, and the set is   *)
(* emptied, with the next epoch, by the admission that fills it.           *)
(*                                                                         *)
(* ReplayWindow is the table that implements this; OnionPath uses the      *)
(* operators below for the filter of each relay.                           *)
(***************************************************************************)
EXTENDS Naturals, FiniteSets

CONSTANTS
  Ids,        \* the message ids that can be presented
  Window,     \* OX_REPLAY_WINDOW, the number of slots
  EpochMod    \* epochs are counted modulo this (2^32 for a uint32_t)


VARIABLES
  seen,       \* the ids admitted since the set was last emptied
  epoch,      \* the epoch the set belongs to
  reply       \* the last answer given, NoReply right after a reset

vars == <<seen, epoch, reply>>

Epochs == 0 .. EpochMod - 1

NextEpoch(e) == (e + 1) % EpochMod

\* The value of reply when the filter was reset and has answered nothing.
NoReply == <<>>

\* The answer "id is fresh" (TRUE) or "id is a replay" (FALSE).
Answer(id, fresh) == <<id, fresh>>

Replies == {NoReply} \cup (Ids \X BOOLEAN)

-----------------------------------------------------------------------------
\* Admitting one more id fills the table.
Fills(s) == Cardinality(s) + 1 >= Window

\* The set after a fresh id was admitted to s.
Record(s, id) == IF Fills(s) THEN {} ELSE s \cup {id}

-----------------------------------------------------------------------------
Init ==
  /\ seen = {}
  /\ epoch \in Epochs
  /\ reply = NoReply

Admit(id) ==
  /\ id \notin seen
  /\ seen' = Record(seen, id)
  /\ epoch' = IF Fills(seen) THEN NextEpoch(epoch) ELSE epoch
  /\ reply' = Answer(id, TRUE)

Reject(id) ==
  /\ id \in seen
  /\ reply' = Answer(id, FALSE)
  /\ UNCHANGED <<seen, epoch>>

Rotate(e) ==
  /\ seen' = {}
  /\ epoch' = e
  /\ reply' = NoReply

Next ==
  \/ \E id \in Ids : Admit(id) \/ Reject(id)
  \/ \E e \in Epochs : Rotate(e)

Spec == Init /\ [][Next]_vars
=============================================================================
