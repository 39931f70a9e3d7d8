-------------------------- MODULE ReplayWindow_proofs --------------------------
(***************************************************************************)
(* Proofs about the replay table, for every table size, every set of ids   *)
(* and every hash function.                                                *)
(*                                                                         *)
(* The inductive invariant is IInv: the type invariant, the occupancy      *)
(* count, and the unbroken probe chains.  The count keeps at least one     *)
(* slot free, so a search always ends; the chains make it end at the right *)
(* place.  Together they say that the table's answer is membership in      *)
(* Seen, which is the refinement of ReplaySet.                             *)
(***************************************************************************)
EXTENDS ReplayWindow, FiniteSetTheorems, WellFoundedInduction, TLAPS

\* A non-empty set of naturals has a least element.
LEMMA LeastNatural ==
  ASSUME NEW T, T \subseteq Nat, T # {}
  PROVE  \E m \in T : \A k \in T : m <= k
<1>1. PICK m \in T : \A k \in T : ~ (<<k, m>> \in OpToRel(<, Nat))
  BY NatLessThanWellFounded, WFMin
<1>2. \A k \in T : ~ (k < m)
  BY <1>1 DEF OpToRel
<1>. QED  BY <1>2

IInv == TypeOK /\ CountIsOccupancy /\ ProbeChainsUnbroken

-----------------------------------------------------------------------------
\* The probe stays inside the table.
LEMMA ProbeInSlots ==
  ASSUME NEW id \in Ids, NEW i \in Slots
  PROVE  Probe(id, i) \in Slots
BY WindowAssumption, HomeAssumption DEF Probe, Slots

\* Window iterations visit every slot.
LEMMA ProbeReachesAll ==
  ASSUME NEW id \in Ids, NEW s \in Slots
  PROVE  \E i \in Slots : Probe(id, i) = s
<1> DEFINE h == Home[id]
<1>1. h \in Slots /\ h \in Int /\ s \in Int /\ Window \in Nat /\ Window > 0
  BY WindowAssumption, HomeAssumption DEF Slots
<1>2. CASE s >= h
  <2>1. s - h \in Slots /\ h + (s - h) = s
    BY <1>1, <1>2 DEF Slots
  <2>2. s % Window = s
    BY <1>1 DEF Slots
  <2>. QED  BY <2>1, <2>2 DEF Probe
<1>3. CASE s < h
  <2>1. s - h + Window \in Slots /\ h + (s - h + Window) = s + Window
    BY <1>1, <1>3 DEF Slots
  <2>2. (s + Window) % Window = s
    BY <1>1 DEF Slots
  <2>. QED  BY <2>1, <2>2 DEF Probe
<1>. QED  BY <1>1, <1>2, <1>3

\* At most one iteration is the first to meet a free slot or the id.
LEMMA StopUnique ==
  ASSUME NEW id \in Ids, NEW i \in Slots, NEW k \in Slots,
         StopsAt(id, i), StopsAt(id, k)
  PROVE  i = k
BY WindowAssumption DEF StopsAt, Slots

\* The set of used slots is a finite part of the table, and is not the whole
\* table while the counter is below its size.
LEMMA UsedFinite ==
  /\ IsFiniteSet(Slots)
  /\ Cardinality(Slots) = Window
  /\ IsFiniteSet(Used)
<1>1. IsFiniteSet(Slots) /\ Cardinality(Slots) = Window
  BY FS_Interval, WindowAssumption DEF Slots
<1>2. Used \in SUBSET Slots
  BY DEF Used
<1>. QED  BY <1>1, <1>2, FS_Subset, Zenon

LEMMA FreeSlotExists ==
  ASSUME TypeOK, CountIsOccupancy
  PROVE  \E s \in Slots : slot[s] = Empty
<1>1. SUFFICES ASSUME Used = Slots PROVE FALSE
  BY DEF Used
<1>2. Cardinality(Used) = Window
  BY <1>1, UsedFinite
<1>. QED  BY <1>2, WindowAssumption DEF TypeOK, CountIsOccupancy

\* A stored id is found: the search for it stops where it is stored.
LEMMA StoredIsFound ==
  ASSUME IInv, NEW id \in Ids, id \in Seen, NEW i \in Slots, StopsAt(id, i)
  PROVE  slot[Probe(id, i)] = id
<1>1. PICK s \in Used : slot[s] = id
  BY DEF Seen
<1>2. PICK k \in Slots : Probe(id, k) = s /\ StopsAt(id, k)
  BY <1>1 DEF IInv, ProbeChainsUnbroken, SearchEndsAt
<1>. QED  BY <1>1, <1>2, StopUnique

\* A search that ends at a free slot is for an id the table does not hold.
LEMMA FreshIsNew ==
  ASSUME IInv, NEW id \in Ids, NEW i \in Slots,
         StopsAt(id, i), slot[Probe(id, i)] = Empty
  PROVE  id \notin Seen
BY StoredIsFound, EmptyAssumption

\* A search that does not end at a free slot is for an id the table holds:
\* there is a free slot somewhere, so the search ended before it.
LEMMA ReplayIsSeen ==
  ASSUME IInv, NEW id \in Ids,
         \A i \in Slots : StopsAt(id, i) => slot[Probe(id, i)] = id
  PROVE  id \in Seen
<1> DEFINE Meets(n) == n \in Slots /\ slot[Probe(id, n)] \in {Empty, id}
           M == {n \in Nat : Meets(n)}
<1>1. PICK n \in Nat : Meets(n)
  <2>1. PICK s \in Slots : slot[s] = Empty
    BY FreeSlotExists DEF IInv
  <2>2. PICK i \in Slots : Probe(id, i) = s
    BY ProbeReachesAll
  <2>. QED  BY <2>1, <2>2, WindowAssumption DEF Slots
<1>2. PICK m \in M : \A k \in M : m <= k
  <2>1. M \in SUBSET Nat /\ M # {}
    BY <1>1
  <2>. HIDE DEF M
  <2>. QED  BY <2>1, LeastNatural
<1>3. m \in Slots /\ slot[Probe(id, m)] \in {Empty, id}
  BY <1>2
<1>4. ASSUME NEW j \in 0 .. m - 1
      PROVE  slot[Probe(id, j)] \notin {Empty, id}
  <2>1. j \in Slots /\ j \in Nat /\ j < m
    BY <1>3, WindowAssumption DEF Slots
  <2>. QED  BY <2>1, <1>2
<1>5. StopsAt(id, m)
  BY <1>3, <1>4 DEF StopsAt
<1>6. slot[Probe(id, m)] = id /\ Probe(id, m) \in Slots
  BY <1>3, <1>5, ProbeInSlots
<1>. QED  BY <1>6, EmptyAssumption DEF Seen, Used

-----------------------------------------------------------------------------
(***************************************************************************)
(* The invariant is inductive.                                             *)
(***************************************************************************)

LEMMA EpochStep ==
  ASSUME epoch \in 0 .. EpochMod - 1
  PROVE  RS!NextEpoch(epoch) \in 0 .. EpochMod - 1
BY EpochAssumption DEF RS!NextEpoch

LEMMA RepliesTyped ==
  /\ RS!NoReply \in RS!Replies
  /\ \A id \in Ids, b \in BOOLEAN : RS!Answer(id, b) \in RS!Replies
BY DEF RS!NoReply, RS!Answer, RS!Replies

\* An emptied table satisfies the invariant.
LEMMA ResetEstablishes ==
  ASSUME NEW e \in 0 .. EpochMod - 1, Reset(e),
         reply' \in RS!Replies
  PROVE  IInv' /\ Seen' = {}
<1>1. TypeOK'
  BY WindowAssumption DEF TypeOK, Reset
<1>2. Used' = {} /\ Seen' = {}
  BY DEF Reset, Used, Seen
<1>3. CountIsOccupancy'
  BY <1>2, FS_EmptySet DEF CountIsOccupancy, Reset
<1>4. ProbeChainsUnbroken'
  BY <1>2 DEF ProbeChainsUnbroken
<1>. QED  BY <1>1, <1>2, <1>3, <1>4 DEF IInv

\* Filling the free slot at which the search for id stopped keeps every chain.
LEMMA InsertPreservesChains ==
  ASSUME IInv, NEW id \in Ids, NEW i \in Slots,
         StopsAt(id, i), slot[Probe(id, i)] = Empty,
         slot' = [slot EXCEPT ![Probe(id, i)] = id]
  PROVE  /\ ProbeChainsUnbroken'
         /\ Used' = Used \cup {Probe(id, i)}
         /\ Probe(id, i) \notin Used
         /\ Seen' = Seen \cup {id}
<1> DEFINE p == Probe(id, i)
<1>1. p \in Slots /\ slot \in [Slots -> Ids \cup {Empty}]
  BY ProbeInSlots DEF IInv, TypeOK
<1>2. Used' = Used \cup {p} /\ p \notin Used
  BY <1>1, EmptyAssumption DEF Used
<1>3. slot'[p] = id /\ \A s \in Slots \ {p} : slot'[s] = slot[s]
  BY <1>1
<1>4. Seen' = Seen \cup {id}
  BY <1>1, <1>2, <1>3 DEF Seen, Used
<1>5. ASSUME NEW s \in Used'
      PROVE  SearchEndsAt(s)'
  <2>1. CASE s = p
    <3>1. \A j \in 0 .. i - 1 : Probe(id, j) \in Slots /\ Probe(id, j) # p
      <4>1. ASSUME NEW j \in 0 .. i - 1 PROVE j \in Slots
        BY WindowAssumption DEF Slots
      <4>. QED  BY <4>1, ProbeInSlots DEF StopsAt
    <3>2. \A j \in 0 .. i - 1 : slot'[Probe(id, j)] \notin {Empty, id}
      BY <3>1, <1>3 DEF StopsAt
    <3>. QED  BY <2>1, <3>2, <1>3 DEF SearchEndsAt, StopsAt, Probe
  <2>2. CASE s # p
    <3>1. s \in Used /\ slot'[s] = slot[s] /\ slot[s] \in Ids
      BY <2>2, <1>1, <1>2, <1>3 DEF Used
    <3>2. PICK k \in Slots : Probe(slot[s], k) = s /\ StopsAt(slot[s], k)
      BY <3>1 DEF IInv, ProbeChainsUnbroken, SearchEndsAt
    <3>3. \A j \in 0 .. k - 1 : Probe(slot[s], j) \in Slots /\ Probe(slot[s], j) # p
      <4>1. ASSUME NEW j \in 0 .. k - 1 PROVE j \in Slots
        BY WindowAssumption DEF Slots
      <4>. QED  BY <4>1, <3>1, <3>2, ProbeInSlots DEF StopsAt
    <3>4. \A j \in 0 .. k - 1 : slot'[Probe(slot[s], j)] \notin {Empty, slot[s]}
      BY <3>2, <3>3, <1>3 DEF StopsAt
    <3>. QED  BY <3>1, <3>2, <3>4 DEF SearchEndsAt, StopsAt, Probe
  <2>. QED  BY <2>1, <2>2
<1>. QED  BY <1>2, <1>4, <1>5 DEF ProbeChainsUnbroken

LEMMA InitInvariant == Init => IInv
<1>1. SUFFICES ASSUME Init PROVE IInv
  OBVIOUS
<1>2. Used = {}
  BY <1>1 DEF Init, Used
<1>3. TypeOK
  BY <1>1, WindowAssumption DEF Init, TypeOK, RS!Replies
<1>4. CountIsOccupancy
  BY <1>1, <1>2, FS_EmptySet DEF Init, CountIsOccupancy
<1>5. ProbeChainsUnbroken
  BY <1>2 DEF ProbeChainsUnbroken
<1>. QED  BY <1>3, <1>4, <1>5 DEF IInv

\* Storing an id without filling the table preserves the invariant.
LEMMA InsertPreserves ==
  ASSUME IInv, NEW id \in Ids, CheckFresh(id)
  PROVE  IInv'
<1>0. reply' \in RS!Replies
  BY RepliesTyped DEF CheckFresh
<1>1. PICK i \in Slots :
        StopsAt(id, i) /\ slot[Probe(id, i)] = Empty /\ Insert(id, Probe(id, i))
  BY DEF CheckFresh
<1>2. CASE count + 1 >= Window
  <2>1. Reset(RS!NextEpoch(epoch))
    BY <1>1, <1>2 DEF Insert
  <2>2. reply' \in RS!Replies
    BY <1>0
  <2>3. RS!NextEpoch(epoch) \in 0 .. EpochMod - 1
    BY EpochStep DEF IInv, TypeOK
  <2>. QED  BY <2>1, <2>2, <2>3, ResetEstablishes
<1>3. CASE ~ (count + 1 >= Window)
  <2>1. /\ slot' = [slot EXCEPT ![Probe(id, i)] = id]
        /\ count' = count + 1
        /\ epoch' = epoch
    BY <1>1, <1>3 DEF Insert
  <2>2. /\ ProbeChainsUnbroken'
        /\ Used' = Used \cup {Probe(id, i)}
        /\ Probe(id, i) \notin Used
    BY <1>1, <2>1, InsertPreservesChains
  <2>3. CountIsOccupancy'
    BY <2>1, <2>2, UsedFinite, FS_AddElement DEF CountIsOccupancy, IInv
  <2>4. TypeOK'
    BY <1>0, <1>3, <2>1, ProbeInSlots, WindowAssumption DEF TypeOK, IInv
  <2>. QED  BY <2>2, <2>3, <2>4 DEF IInv
<1>. QED  BY <1>2, <1>3

LEMMA NextInvariant == IInv /\ [Next]_vars => IInv'
<1>1. SUFFICES ASSUME IInv, [Next]_vars PROVE IInv'
  OBVIOUS
<1>2. ASSUME NEW id \in Ids, CheckFresh(id) PROVE IInv'
  BY <1>1, <1>2, InsertPreserves
<1>3. ASSUME UNCHANGED <<slot, count, epoch>>,
             reply' \in RS!Replies
      PROVE  IInv'
  BY <1>1, <1>3 DEF IInv, TypeOK, CountIsOccupancy, ProbeChainsUnbroken, SearchEndsAt,
                    StopsAt, Probe, Used
<1>4. ASSUME NEW id \in Ids, CheckReplay(id) PROVE IInv'
  BY <1>3, <1>4, RepliesTyped DEF CheckReplay
<1>5. ASSUME NEW e \in 0 .. EpochMod - 1, Rotate(e) PROVE IInv'
  BY <1>5, ResetEstablishes, RepliesTyped DEF Rotate
<1>6. CASE UNCHANGED vars
  BY <1>1, <1>3, <1>6 DEF vars, IInv, TypeOK
<1>. QED  BY <1>1, <1>2, <1>4, <1>5, <1>6 DEF Next

\* In every reachable state the variables have their types, the counter is the
\* occupancy, and every stored id is where a search for it ends.
THEOREM Invariance == Spec => [](TypeOK /\ CountIsOccupancy /\ ProbeChainsUnbroken)
<1>1. Spec => []IInv
  BY InitInvariant, NextInvariant, PTL DEF Spec
<1>. QED  BY <1>1, PTL DEF IInv

-----------------------------------------------------------------------------
(***************************************************************************)
(* The refinement of ReplaySet.                                            *)
(***************************************************************************)

\* The table holds as many ids as it has used slots: no id is stored twice.
LEMMA SeenSize ==
  ASSUME IInv
  PROVE  IsFiniteSet(Seen) /\ Cardinality(Seen) = count
<1> DEFINE f == [s \in Used |-> slot[s]]
<1>1. \A s, t \in Used : slot[s] = slot[t] => s = t
  <2>1. SUFFICES ASSUME NEW s \in Used, NEW t \in Used, slot[s] = slot[t] PROVE s = t
    OBVIOUS
  <2>2. slot[s] \in Ids
    BY DEF IInv, TypeOK, Used
  <2>3. PICK i \in Slots : Probe(slot[s], i) = s /\ StopsAt(slot[s], i)
    BY DEF IInv, ProbeChainsUnbroken, SearchEndsAt
  <2>4. PICK k \in Slots : Probe(slot[t], k) = t /\ StopsAt(slot[t], k)
    BY DEF IInv, ProbeChainsUnbroken, SearchEndsAt
  <2>. QED  BY <2>1, <2>2, <2>3, <2>4, StopUnique
<1>2. f \in Surjection(Used, Seen)
  BY DEF Seen, Surjection
<1>3. f \in Injection(Used, Seen)
  BY <1>1, <1>2 DEF Injection, Surjection, IsInjective
<1>. HIDE DEF f
<1>. QED  BY <1>2, <1>3, UsedFinite, FS_Surjection DEF IInv, CountIsOccupancy

\* The instance's operator is the operator of FiniteSets.
LEMMA SameCardinality == \A S : RS!Cardinality(S) = Cardinality(S)
BY Zenon DEF RS!Cardinality, Cardinality

\* A fresh answer of the table is an Admit of the set.
LEMMA FreshAdmits ==
  ASSUME IInv, IInv', NEW id \in Ids, CheckFresh(id)
  PROVE  RS!Admit(id)
<1>1. PICK i \in Slots :
        StopsAt(id, i) /\ slot[Probe(id, i)] = Empty /\ Insert(id, Probe(id, i))
  BY DEF CheckFresh
<1>2. id \notin Seen /\ Cardinality(Seen) = count /\ reply' = RS!Answer(id, TRUE)
  BY <1>1, FreshIsNew, SeenSize DEF CheckFresh
<1>3. CASE count + 1 >= Window
  <2>1. Reset(RS!NextEpoch(epoch))
    BY <1>1, <1>3 DEF Insert
  <2>2. Seen' = {}
    BY <2>1 DEF Seen, Used, Reset
  <2>3. epoch' = RS!NextEpoch(epoch)
    BY <2>1 DEF Reset
  <2>. QED  BY <1>2, <1>3, <2>2, <2>3, SameCardinality DEF RS!Admit, RS!Record, RS!Fills
<1>4. CASE ~ (count + 1 >= Window)
  <2>1. slot' = [slot EXCEPT ![Probe(id, i)] = id] /\ epoch' = epoch
    BY <1>1, <1>4 DEF Insert
  <2>2. Seen' = Seen \cup {id}
    BY <1>1, <2>1, InsertPreservesChains
  <2>. QED  BY <1>2, <1>4, <2>1, <2>2, SameCardinality DEF RS!Admit, RS!Record, RS!Fills
<1>. QED  BY <1>3, <1>4

\* Every behaviour of the table is a behaviour of the bounded set: within an
\* epoch no id is admitted twice, no new id is refused, and the epoch ends
\* exactly when the table fills.
THEOREM Refinement == Spec => RefinesReplaySet
<1>1. Init => RS!Init
  <2>1. Init => Seen = {}
    BY DEF Init, Seen, Used
  <2>. QED  BY <2>1 DEF Init, RS!Init, RS!Epochs
<1>2. IInv /\ IInv' /\ [Next]_vars => [RS!Next]_(RS!vars)
  <2>1. SUFFICES ASSUME IInv, IInv', [Next]_vars PROVE [RS!Next]_(RS!vars)
    OBVIOUS
  <2>2. ASSUME NEW id \in Ids, CheckFresh(id) PROVE RS!Next
    BY <2>1, <2>2, FreshAdmits DEF RS!Next
  <2>3. ASSUME NEW id \in Ids, CheckReplay(id) PROVE RS!Next
    <3>1. id \in Seen
      BY <2>1, <2>3, ReplayIsSeen DEF CheckReplay
    <3>2. Seen' = Seen
      BY <2>3 DEF CheckReplay, Seen, Used
    <3>. QED  BY <2>3, <3>1, <3>2 DEF CheckReplay, RS!Next, RS!Reject
  <2>4. ASSUME NEW e \in 0 .. EpochMod - 1, Rotate(e) PROVE RS!Next
    <3>1. Seen' = {}
      BY <2>4 DEF Rotate, Reset, Seen, Used
    <3>. QED  BY <2>4, <3>1 DEF Rotate, Reset, RS!Next, RS!Rotate, RS!Epochs
  <2>5. CASE UNCHANGED vars
    BY <2>5 DEF vars, RS!vars, Seen, Used
  <2>. QED  BY <2>1, <2>2, <2>3, <2>4, <2>5 DEF Next
<1>3. Spec => []IInv
  BY InitInvariant, NextInvariant, PTL DEF Spec
<1>. QED  BY <1>1, <1>2, <1>3, PTL DEF RefinesReplaySet, RS!Spec, Spec
=============================================================================
