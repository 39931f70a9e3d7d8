----------------------------- MODULE ReplayWindow -----------------------------
(***************************************************************************)
(* The replay filter of a relay as onionx.c implements it: a table of      *)
(* OX_REPLAY_WINDOW slots, indexed by the first bytes of the id and        *)
(* searched by linear probing; the admission that fills the last slot      *)
(* empties the table and moves to the next epoch.                          *)
(*                                                                         *)
(* used[s] together with ids[s] is one function: slot[s] is the stored id, *)
(* or Empty when used[s] is zero (the code never reads ids[s] then).       *)
(***************************************************************************)
EXTENDS Integers, FiniteSets

CONSTANTS
  Ids,        \* the message ids a peeled layer can carry
  Window,     \* OX_REPLAY_WINDOW
  Home,       \* Home[id]: the slot its first four bytes select
  EpochMod,   \* the epoch is counted modulo this (2^32 for uint32_t)
  Empty       \* marks an unused slot

Slots == 0 .. Window - 1

ASSUME WindowAssumption == Window \in Nat \ {0}
ASSUME EpochAssumption == EpochMod \in Nat \ {0}
ASSUME HomeAssumption == Home \in [Ids -> Slots]
ASSUME EmptyAssumption == Empty \notin Ids

VARIABLES
  slot,       \* ids[] and used[]
  count,      \* number of slots in use
  epoch,
  reply       \* what the last ox_replay_check returned, for which id

vars == <<slot, count, epoch, reply>>

Used == {s \in Slots : slot[s] # Empty}

\* The ids held by the table: what the table stands for.
Seen == {slot[s] : s \in Used}

RS == INSTANCE ReplaySet WITH seen <- Seen

\* The slot looked at in iteration i of the probe loop.
Probe(id, i) == (Home[id] + i) % Window

\* Seeded fault: the stored id is compared in the home slot only.
StopsAtHomeOnly(id, i) ==
  /\ slot[Probe(id, i)] \in {Empty} \cup (IF i = 0 THEN {id} ELSE {})
  /\ \A j \in 0 .. i - 1 : slot[Probe(id, j)] # Empty /\ (j = 0 => slot[Probe(id, 0)] # id)

\* Iteration i is the first that meets a free slot or the id itself.
StopsAt(id, i) ==
  /\ slot[Probe(id, i)] \in {Empty, id}
  /\ \A j \in 0 .. i - 1 : slot[Probe(id, j)] \notin {Empty, id}

-----------------------------------------------------------------------------
\* ox_replay_init: any caller-chosen epoch.
Init ==
  /\ slot = [s \in Slots |-> Empty]
  /\ count = 0
  /\ epoch \in 0 .. EpochMod - 1
  /\ reply = RS!NoReply

\* Seeded fault: the reset forgets the occupancy counter.
ResetKeepsCount(e) ==
  /\ slot' = [s \in Slots |-> Empty]
  /\ count' = count
  /\ epoch' = e

\* ox_replay_reset.
Reset(e) ==
  /\ slot' = [s \in Slots |-> Empty]
  /\ count' = 0
  /\ epoch' = e

\* Seeded fault: the id goes to the next slot never used, not to s.
InsertAtCount(id, s) ==
  IF count + 1 >= Window
  THEN Reset(RS!NextEpoch(epoch))
  ELSE /\ slot' = [slot EXCEPT ![count] = id]
       /\ count' = count + 1
       /\ epoch' = epoch

\* The id is stored in the free slot s; a full table is reset at once.
Insert(id, s) ==
  IF count + 1 >= Window
  THEN Reset(RS!NextEpoch(epoch))
  ELSE /\ slot' = [slot EXCEPT ![s] = id]
       /\ count' = count + 1
       /\ epoch' = epoch

\* ox_replay_check returns 1: the probe met a free slot first.
CheckFresh(id) ==
  /\ \E i \in Slots :
        /\ StopsAt(id, i)
        /\ slot[Probe(id, i)] = Empty
        /\ Insert(id, Probe(id, i))
  /\ reply' = RS!Answer(id, TRUE)

\* ox_replay_check returns 0: the probe met the id before any free slot, or it
\* ran through the whole table without meeting either.
CheckReplay(id) ==
  /\ \A i \in Slots : StopsAt(id, i) => slot[Probe(id, i)] = id
  /\ reply' = RS!Answer(id, FALSE)
  /\ UNCHANGED <<slot, count, epoch>>

\* A caller ends the session: ox_replay_reset with the epoch of its choice.
Rotate(e) ==
  /\ Reset(e)
  /\ reply' = RS!NoReply

Next ==
  \/ \E id \in Ids : CheckFresh(id) \/ CheckReplay(id)
  \/ \E e \in 0 .. EpochMod - 1 : Rotate(e)

Spec == Init /\ [][Next]_vars

-----------------------------------------------------------------------------
\* Every variable has its type, and at rest the table is never full: the last
\* free slot is never left occupied by ox_replay_check.
TypeOK ==
  /\ slot \in [Slots -> Ids \cup {Empty}]
  /\ count \in 0 .. Window - 1
  /\ epoch \in 0 .. EpochMod - 1
  /\ reply \in RS!Replies

\* The counter that triggers the rotation is the number of occupied slots.
CountIsOccupancy == count = Cardinality(Used)

\* The search for the id stored in slot s ends at s.
SearchEndsAt(s) == \E i \in Slots : Probe(slot[s], i) = s /\ StopsAt(slot[s], i)

\* Every stored id is where a search for it ends: from its home slot on, no
\* slot before its own is free or holds the same id. This is what makes linear
\* probing find it again, and what makes a stored id unique.
ProbeChainsUnbroken == \A s \in Used : SearchEndsAt(s)

\* The table behaves as the set: within an epoch no id is admitted twice, none
\* is refused that was not admitted before, and the epoch ends exactly when the
\* table is full (onionx.h, "rejects duplicates").
RefinesReplaySet == RS!Spec
=============================================================================
