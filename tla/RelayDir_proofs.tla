---------------------------- MODULE RelayDir_proofs ----------------------------
(***************************************************************************)
(* Proofs about the pinned directory, for every set of names, keys, times  *)
(* and generations and every size of the array.                            *)
(*                                                                         *)
(* OnlyPinnedKeys is not inductive: it speaks of the last answer only. The *)
(* strengthening PinsWereAsked ties every pin in the array to a call of    *)
(* rd_pin_add.                                                             *)
(***************************************************************************)
EXTENDS RelayDir, WellFoundedInduction, SequenceTheorems, TLAPS

\* A non-empty set of naturals has a least element.
LEMMA LeastNatural ==
  ASSUME NEW T, T \subseteq Nat, T # {}
  PROVE  \E m \in T : \A k \in T : m <= k
<1>1. PICK m \in T : \A k \in T : ~ (<<k, m>> \in OpToRel(<, Nat))
  BY NatLessThanWellFounded, WFMin
<1>2. \A k \in T : ~ (k < m)
  BY <1>1 DEF OpToRel
<1>. QED  BY <1>2

PinsWereAsked ==
  \A i \in DOMAIN pins :
    \E p \in asked : Label[p[1]] = pins[i].addr /\ Fingerprint[p[2]] = pins[i].fingerprint

IInv == TypeOK /\ PinsWereAsked /\ OnlyPinnedKeys

-----------------------------------------------------------------------------
\* The search returns the first match when there is one.
LEMMA FoundIsFirst ==
  ASSUME pins \in Seq(Pins), NEW l, Matches(l) # {}
  PROVE  /\ Found(l) \in Matches(l)
         /\ \A j \in Matches(l) : Found(l) <= j
<1>1. Matches(l) \subseteq Nat
  BY LenProperties DEF Matches
<1>2. \E i \in Matches(l) : \A j \in Matches(l) : i <= j
  BY <1>1, LeastNatural, Zenon
<1>. QED  BY <1>2 DEF Found

\* The verdict "ok" in terms of the tests it has passed.
LEMMA VerdictOk ==
  ASSUME NEW e, NEW now, NEW required, Verdict(e, now, required) = "ok"
  PROVE  /\ Matches(e.addr) # {}
         /\ Fingerprint[e.public_key] = pins[Found(e.addr)].fingerprint
         /\ ~ (e.generation < pins[Found(e.addr)].min_generation)
BY DEF Verdict

\* Every verdict is one of the result codes.
LEMMA VerdictTyped ==
  ASSUME NEW e, NEW now, NEW required
  PROVE  Verdict(e, now, required) \in Codes
BY DEF Verdict, Codes

\* What an accepted entry does to the array.
LEMMA AcceptStep ==
  ASSUME pins \in Seq(Pins), NEW e \in Entries, Matches(e.addr) # {},
         pins' = [pins EXCEPT ![Found(e.addr)].min_generation = e.generation]
  PROVE  /\ pins' \in Seq(Pins)
         /\ Len(pins') = Len(pins)
         /\ DOMAIN pins' = DOMAIN pins
         /\ \A i \in DOMAIN pins : /\ pins'[i].addr = pins[i].addr
                                   /\ pins'[i].fingerprint = pins[i].fingerprint
         /\ \A i \in DOMAIN pins : i # Found(e.addr) => pins'[i] = pins[i]
         /\ pins'[Found(e.addr)].min_generation = e.generation
<1> DEFINE k == Found(e.addr)
<1>1. k \in DOMAIN pins
  BY FoundIsFirst DEF Matches
<1>2. pins[k] \in Pins /\ e.generation \in Generations
  BY <1>1, ElementOfSeq DEF Entries
<1>3. [pins[k] EXCEPT !.min_generation = e.generation] \in Pins
  BY <1>2 DEF Pins
<1>4. pins' = [pins EXCEPT ![k] = [pins[k] EXCEPT !.min_generation = e.generation]]
  OBVIOUS
<1>5. pins' \in Seq(Pins) /\ Len(pins') = Len(pins)
  BY <1>1, <1>3, <1>4, ExceptSeq
<1>. QED  BY <1>1, <1>2, <1>4, <1>5 DEF Pins

\* What a new pin does to the array.
LEMMA AppendStep ==
  ASSUME pins \in Seq(Pins), NEW x \in Pins, pins' = Append(pins, x)
  PROVE  /\ pins' \in Seq(Pins)
         /\ Len(pins') = Len(pins) + 1
         /\ DOMAIN pins' = DOMAIN pins \cup {Len(pins) + 1}
         /\ Len(pins) + 1 \notin DOMAIN pins
         /\ \A i \in DOMAIN pins : pins'[i] = pins[i]
         /\ pins'[Len(pins) + 1] = x
<1>1. pins' \in Seq(Pins) /\ Len(pins') = Len(pins) + 1
  BY AppendProperties
<1>2. Len(pins) \in Nat /\ DOMAIN pins = 1 .. Len(pins) /\ DOMAIN pins' = 1 .. Len(pins) + 1
  BY <1>1, LenProperties
<1>. QED  BY <1>1, <1>2, AppendProperties

\* The map read off the array changes only where the first match changes.
LEMMA AppendMap ==
  ASSUME pins \in Seq(Pins), NEW x \in Pins, pins' = Append(pins, x), NEW l
  PROVE  /\ Matches(l)' = IF l = x.addr THEN Matches(l) \cup {Len(pins) + 1} ELSE Matches(l)
         /\ Matches(l) # {} => Found(l)' = Found(l)
         /\ Matches(l) = {} /\ l = x.addr => Found(l)' = Len(pins) + 1
<1>1. Matches(l)' = IF l = x.addr THEN Matches(l) \cup {Len(pins) + 1} ELSE Matches(l)
  BY AppendStep DEF Matches
<1>2. ASSUME Matches(l) # {} PROVE Found(l)' = Found(l)
  <2>1. Found(l) \in Matches(l) /\ \A j \in Matches(l) : Found(l) <= j
    BY <1>2, FoundIsFirst
  <2>2. Matches(l) \subseteq 1 .. Len(pins) /\ Len(pins) \in Nat
    BY LenProperties DEF Matches
  <2>3. Found(l)' \in Matches(l)' /\ \A j \in Matches(l)' : Found(l)' <= j
    <3>1. Found(l) \in Matches(l)' /\ \A j \in Matches(l)' : Found(l) <= j
      BY <1>1, <2>1, <2>2
    <3>. QED  BY <3>1 DEF Found
  <2>4. Found(l)' <= Found(l) /\ Found(l) <= Found(l)'
    BY <1>1, <2>1, <2>2, <2>3
  <2>. QED  BY <1>1, <2>1, <2>2, <2>3, <2>4
<1>3. ASSUME Matches(l) = {}, l = x.addr PROVE Found(l)' = Len(pins) + 1
  <2>1. Matches(l)' = {Len(pins) + 1} /\ Len(pins) \in Nat
    BY <1>1, <1>3, LenProperties
  <2>. QED  BY <2>1 DEF Found
<1>. QED  BY <1>1, <1>2, <1>3

-----------------------------------------------------------------------------
(***************************************************************************)
(* The invariant.                                                          *)
(***************************************************************************)

LEMMA InitInvariant == Init => IInv
<1>1. <<>> \in Seq(Pins) /\ Len(<<>>) = 0 /\ DOMAIN <<>> = {}
  BY EmptySeq
<1>. QED  BY <1>1, DirectoryAssumption
          DEF Init, IInv, TypeOK, PinsWereAsked, OnlyPinnedKeys, Bare, Result, NoIdentity, Codes

LEMMA PinAddInvariant ==
  ASSUME IInv, NEW name \in Names, NEW key \in Keys, PinAdd(name, key)
  PROVE  IInv'
<1> DEFINE x == [addr |-> Label[name], fingerprint |-> Fingerprint[key],
                 min_generation |-> 0]
<1>1. CASE Len(pins) >= MaxEntries
  <2>1. pins' = pins /\ asked' = asked /\ reply' = Bare("full")
    BY <1>1 DEF PinAdd
  <2>2. TypeOK'
    BY <2>1, DirectoryAssumption DEF IInv, TypeOK, Bare, Result, Codes
  <2>3. PinsWereAsked' /\ OnlyPinnedKeys'
    BY <2>1 DEF IInv, PinsWereAsked, OnlyPinnedKeys, Bare, Result
  <2>. QED  BY <2>2, <2>3 DEF IInv
<1>2. CASE ~ (Len(pins) >= MaxEntries)
  <2>1. x \in Pins
    BY DirectoryAssumption DEF Pins
  <2>2. /\ pins' = Append(pins, x)
        /\ asked' = asked \cup {<<name, key>>}
        /\ reply' = Bare("ok")
    BY <1>2, Zenon DEF PinAdd
  <2>3. x.addr = Label[name] /\ x.fingerprint = Fingerprint[key]
    OBVIOUS
  <2>. HIDE DEF x
  <2>4. pins' \in Seq(Pins) /\ Len(pins') = Len(pins) + 1 /\ Len(pins) \in Nat
    BY <2>1, <2>2, AppendStep, LenProperties DEF IInv, TypeOK
  <2>5. TypeOK'
    <3>1. Len(pins') <= MaxEntries
      BY <1>2, <2>4, DirectoryAssumption
    <3>2. <<name, key>> \in Names \X Keys
      OBVIOUS
    <3>3. reply' \in [code : Codes, identity : {NoIdentity} \cup Identities, generation : Generations]
      BY <2>2, DirectoryAssumption DEF Bare, Result, Codes
    <3>. QED  BY <2>2, <2>4, <3>1, <3>2, <3>3 DEF IInv, TypeOK
  <2>6. PinsWereAsked'
    <3>1. SUFFICES ASSUME NEW i \in DOMAIN pins'
                   PROVE  \E p \in asked' : /\ Label[p[1]] = pins'[i].addr
                                            /\ Fingerprint[p[2]] = pins'[i].fingerprint
      BY DEF PinsWereAsked
    <3>2. CASE i \in DOMAIN pins
      BY <2>1, <2>2, <3>2, AppendStep DEF IInv, TypeOK, PinsWereAsked
    <3>3. CASE i = Len(pins) + 1
      <4>1. pins'[i].addr = Label[name] /\ pins'[i].fingerprint = Fingerprint[key]
        BY <2>1, <2>2, <2>3, <3>3, AppendStep DEF IInv, TypeOK
      <4>2. <<name, key>> \in asked' /\ <<name, key>>[1] = name /\ <<name, key>>[2] = key
        BY <2>2
      <4>. QED  BY <4>1, <4>2
    <3>. QED  BY <2>1, <2>2, <3>2, <3>3, AppendStep DEF IInv, TypeOK
  <2>7. OnlyPinnedKeys'
    BY <2>2 DEF OnlyPinnedKeys, Bare, Result, NoIdentity
  <2>. QED  BY <2>5, <2>6, <2>7 DEF IInv
<1>. QED  BY <1>1, <1>2

LEMMA ValidateInvariant ==
  ASSUME IInv, NEW e \in Entries, NEW now \in Times, NEW required \in SUBSET Roles,
         Validate(e, now, required)
  PROVE  IInv'
<1>1. CASE Verdict(e, now, required) = "ok"
  <2>1. /\ pins' = [pins EXCEPT ![Found(e.addr)].min_generation = e.generation]
        /\ reply' = Result("ok", Identity(e), e.generation)
        /\ asked' = asked
    BY <1>1 DEF Validate
  <2>2. /\ Matches(e.addr) # {}
        /\ Fingerprint[e.public_key] = pins[Found(e.addr)].fingerprint
    BY <1>1, VerdictOk
  <2>3. /\ pins' \in Seq(Pins) /\ Len(pins') = Len(pins) /\ DOMAIN pins' = DOMAIN pins
        /\ \A i \in DOMAIN pins : /\ pins'[i].addr = pins[i].addr
                                  /\ pins'[i].fingerprint = pins[i].fingerprint
    BY <2>1, <2>2, AcceptStep DEF IInv, TypeOK
  <2>4. Identity(e) \in Identities /\ e.generation \in Generations
    BY DEF Identity, Identities, Entries
  <2>5. TypeOK'
    BY <2>1, <2>3, <2>4 DEF IInv, TypeOK, Result, Codes
  <2>6. PinsWereAsked'
    BY <2>1, <2>3 DEF IInv, PinsWereAsked
  <2>7. OnlyPinnedKeys'
    <3>1. Found(e.addr) \in DOMAIN pins /\ pins[Found(e.addr)].addr = e.addr
      BY <2>2, FoundIsFirst DEF IInv, TypeOK, Matches
    <3>2. PICK p \in asked : /\ Label[p[1]] = pins[Found(e.addr)].addr
                             /\ Fingerprint[p[2]] = pins[Found(e.addr)].fingerprint
      BY <3>1 DEF IInv, PinsWereAsked
    <3>3. p[2] \in Keys /\ e.public_key \in Keys
      BY <3>2 DEF IInv, TypeOK, Entries
    <3>4. p[2] = e.public_key
      BY <2>2, <3>2, <3>3, DirectoryAssumption
    <3>5. reply'.identity.addr = e.addr /\ reply'.identity.public_key = e.public_key
      BY <2>1 DEF Result, Identity
    <3>. QED  BY <2>1, <3>1, <3>2, <3>4, <3>5 DEF OnlyPinnedKeys
  <2>. QED  BY <2>5, <2>6, <2>7 DEF IInv
<1>2. CASE Verdict(e, now, required) # "ok"
  <2>1. pins' = pins /\ asked' = asked /\ reply' = Bare(Verdict(e, now, required))
    BY <1>2 DEF Validate
  <2>2. TypeOK'
    BY <2>1, VerdictTyped, DirectoryAssumption DEF IInv, TypeOK, Bare, Result
  <2>3. PinsWereAsked'
    BY <2>1 DEF IInv, PinsWereAsked
  <2>4. OnlyPinnedKeys'
    BY <2>1 DEF OnlyPinnedKeys, Bare, Result
  <2>. QED  BY <2>2, <2>3, <2>4 DEF IInv
<1>. QED  BY <1>1, <1>2

LEMMA NextInvariant == IInv /\ [Next]_vars => IInv'
<1>1. SUFFICES ASSUME IInv, [Next]_vars PROVE IInv'
  OBVIOUS
<1>2. CASE PinsetInit
  <2>1. Init'
    BY <1>2 DEF PinsetInit, Init
  <2>. QED  BY <2>1, InitInvariant, PTL
<1>3. CASE \E name \in Names, key \in Keys : PinAdd(name, key)
  BY <1>1, <1>3, PinAddInvariant
<1>4. CASE \E e \in Entries, now \in Times, required \in SUBSET Roles :
             Validate(e, now, required)
  BY <1>1, <1>4, ValidateInvariant
<1>5. CASE UNCHANGED vars
  BY <1>1, <1>5 DEF vars, IInv, TypeOK, PinsWereAsked, OnlyPinnedKeys
<1>. QED  BY <1>1, <1>2, <1>3, <1>4, <1>5 DEF Next

\* The directory of pins never holds more than RD_MAX_ENTRIES, and everything
\* keeps its type.
THEOREM TypesHold == Spec => []TypeOK
<1>1. Spec => []IInv
  BY InitInvariant, NextInvariant, PTL DEF Spec
<1>. QED  BY <1>1, PTL DEF IInv

\* No trust on first use: every key that rd_validate hands out was pinned by
\* the caller for that address, whatever the directory entries say.
THEOREM PinnedKeysOnly == Spec => []OnlyPinnedKeys
<1>1. Spec => []IInv
  BY InitInvariant, NextInvariant, PTL DEF Spec
<1>. QED  BY <1>1, PTL DEF IInv

-----------------------------------------------------------------------------
(***************************************************************************)
(* The refinement of PinStore.                                             *)
(***************************************************************************)

LEMMA EmptyStore ==
  /\ Init => Store!Init
  /\ PinsetInit => Store!Forget
<1>1. pins = <<>> => \A l : Matches(l) = {}
  BY DEF Matches
<1>2. pins' = <<>> => \A l : Matches(l)' = {}
  BY DEF Matches
<1>3. Init => Vouched = NoIdentity
  BY DEF Init, Bare, Result, Vouched
<1>4. PinsetInit => Vouched' = NoIdentity
  BY DEF PinsetInit, Bare, Result, Vouched
<1>. QED  BY <1>1, <1>2, <1>3, <1>4
          DEF Init, PinsetInit, Store!Init, Store!Forget, Trusted, Floor

LEMMA PinAddStore ==
  ASSUME IInv, NEW name \in Names, NEW key \in Keys, PinAdd(name, key)
  PROVE  Store!Next \/ UNCHANGED Store!vars
<1> DEFINE x == [addr |-> Label[name], fingerprint |-> Fingerprint[key],
                 min_generation |-> 0]
           a == Label[name]
<1>v. Vouched' = NoIdentity
  BY DEF PinAdd, Bare, Result, Vouched
<1>1. CASE Len(pins) >= MaxEntries
  <2>1. pins' = pins
    BY <1>1 DEF PinAdd
  <2>. QED  BY <1>v, <2>1 DEF Store!Next, Store!Refuse, Trusted, Floor, Matches, Found
<1>2. CASE ~ (Len(pins) >= MaxEntries)
  <2>1. x \in Pins /\ a \in Labels /\ Fingerprint[key] \in Fingerprints
    BY DirectoryAssumption DEF Pins
  <2>2. pins' = Append(pins, x)
    BY <1>2 DEF PinAdd
  <2>3. x.addr = a /\ x.fingerprint = Fingerprint[key] /\ x.min_generation = 0
    OBVIOUS
  <2>. HIDE DEF x
  <2>4. \A l : /\ l # a => Matches(l)' = Matches(l)
               /\ l = a => Matches(l)' = Matches(l) \cup {Len(pins) + 1}
               /\ Matches(l) # {} => Found(l)' = Found(l)
               /\ Matches(l) = {} /\ l = a => Found(l)' = Len(pins) + 1
    BY <2>1, <2>2, <2>3, AppendMap DEF IInv, TypeOK
  <2>5. \A l : Matches(l) # {} => /\ Found(l) \in DOMAIN pins
                                  /\ pins'[Found(l)] = pins[Found(l)]
    BY <2>1, <2>2, FoundIsFirst, AppendStep DEF Matches, IInv, TypeOK
  <2>6. pins'[Len(pins) + 1] = x
    BY <2>1, <2>2, AppendStep DEF IInv, TypeOK
  <2>7. \A l \in Labels \ {a} : Trusted'[l] = Trusted[l] /\ Floor'[l] = Floor[l]
    BY <2>4, <2>5 DEF Trusted, Floor
  <2>8. CASE Matches(a) # {}
    <3>1. Trusted'[a] = Trusted[a] /\ Floor'[a] = Floor[a]
      BY <2>1, <2>4, <2>5, <2>8 DEF Trusted, Floor
    <3>2. Trusted' = Trusted /\ Floor' = Floor
      BY <2>7, <3>1 DEF Trusted, Floor
    <3>. QED  BY <1>v, <3>2 DEF Store!Next, Store!Refuse
  <2>9. CASE Matches(a) = {}
    <3>1. Trusted[a] = NoPin /\ Floor[a] = 0
      BY <2>1, <2>9 DEF Trusted, Floor
    <3>2. Trusted'[a] = Fingerprint[key] /\ Floor'[a] = 0
      BY <2>1, <2>3, <2>4, <2>6, <2>9 DEF Trusted, Floor
    <3>3. Trusted' = [Trusted EXCEPT ![a] = Fingerprint[key]] /\ Floor' = Floor
      BY <2>7, <3>1, <3>2 DEF Trusted, Floor
    <3>4. Store!Pin(a, Fingerprint[key])
      BY <1>v, <3>1, <3>3 DEF Store!Pin
    <3>. QED  BY <2>1, <3>4 DEF Store!Next
  <2>. QED  BY <2>8, <2>9
<1>. QED  BY <1>1, <1>2

LEMMA ValidateStore ==
  ASSUME IInv, NEW e \in Entries, NEW now \in Times, NEW required \in SUBSET Roles,
         Validate(e, now, required)
  PROVE  Store!Next \/ UNCHANGED Store!vars
<1> DEFINE a == e.addr
<1>1. CASE Verdict(e, now, required) # "ok"
  <2>1. pins' = pins /\ reply' = Bare(Verdict(e, now, required))
    BY <1>1 DEF Validate
  <2>2. Vouched' = NoIdentity
    BY <2>1 DEF Bare, Result, Vouched
  <2>. QED  BY <2>1, <2>2 DEF Store!Next, Store!Refuse, Trusted, Floor, Matches, Found
<1>2. CASE Verdict(e, now, required) = "ok"
  <2>1. pins' = [pins EXCEPT ![Found(a)].min_generation = e.generation]
    BY <1>2 DEF Validate
  <2>2. /\ Matches(a) # {}
        /\ ~ (e.generation < pins[Found(a)].min_generation)
        /\ a \in Labels /\ e.generation \in Generations
    BY <1>2, VerdictOk DEF Entries
  <2>3. /\ DOMAIN pins' = DOMAIN pins
        /\ \A i \in DOMAIN pins : /\ pins'[i].addr = pins[i].addr
                                  /\ pins'[i].fingerprint = pins[i].fingerprint
        /\ \A i \in DOMAIN pins : i # Found(a) => pins'[i] = pins[i]
        /\ pins'[Found(a)].min_generation = e.generation
    BY <2>1, <2>2, AcceptStep DEF IInv, TypeOK
  <2>4. \A l : Matches(l)' = Matches(l) /\ Found(l)' = Found(l)
    <3>1. \A l : Matches(l)' = Matches(l)
      BY <2>3 DEF Matches
    <3>. QED  BY <3>1 DEF Found
  <2>5. \A l : Matches(l) # {} => Found(l) \in DOMAIN pins /\ pins[Found(l)].addr = l
    BY FoundIsFirst DEF Matches, IInv, TypeOK
  <2>6. Trusted' = Trusted
    BY <2>3, <2>4, <2>5 DEF Trusted
  <2>7. \A l \in Labels \ {a} : Floor'[l] = Floor[l]
    <3>1. \A l \in Labels \ {a} : Matches(l) # {} => Found(l) # Found(a)
      BY <2>2, <2>5
    <3>. QED  BY <2>3, <2>4, <2>5, <3>1 DEF Floor
  <2>8. Floor' = [Floor EXCEPT ![a] = e.generation]
    BY <2>2, <2>3, <2>4, <2>7 DEF Floor
  <2>9. Trusted[a] # NoPin /\ e.generation >= Floor[a]
    <3>1. pins[Found(a)] \in Pins
      BY <2>2, <2>5, ElementOfSeq, LenProperties DEF IInv, TypeOK
    <3>2. /\ pins[Found(a)].fingerprint \in Fingerprints
          /\ pins[Found(a)].min_generation \in Nat /\ e.generation \in Nat
      BY <2>2, <3>1, DirectoryAssumption DEF Pins
    <3>. QED  BY <2>2, <3>2, DirectoryAssumption DEF Trusted, Floor
  <2>10. Vouched' = [label |-> a, fingerprint |-> Trusted[a], generation |-> e.generation]
    <3>1. reply' = Result("ok", Identity(e), e.generation)
      BY <1>2 DEF Validate
    <3>2. Identity(e) # NoIdentity
      BY DEF Identity, NoIdentity
    <3>3. Trusted[a] = Fingerprint[e.public_key]
      BY <1>2, <2>2, VerdictOk DEF Trusted
    <3>. QED  BY <3>1, <3>2, <3>3 DEF Result, Identity, Vouched
  <2>11. Store!Accept(a, e.generation)
    BY <2>6, <2>8, <2>9, <2>10 DEF Store!Accept
  <2>. QED  BY <2>2, <2>11 DEF Store!Next
<1>. QED  BY <1>1, <1>2

\* The array of pins implements the map: the first pin of a label decides for
\* good, an accepted entry has the label's key and a generation not below the
\* last accepted one, and a refused entry changes neither keys nor floors.
THEOREM Refinement == Spec => RefinesPinStore
<1>1. IInv /\ [Next]_vars => [Store!Next]_(Store!vars)
  <2>1. SUFFICES ASSUME IInv, [Next]_vars PROVE [Store!Next]_(Store!vars)
    OBVIOUS
  <2>2. CASE PinsetInit
    BY <2>2, EmptyStore DEF Store!Next
  <2>3. CASE \E name \in Names, key \in Keys : PinAdd(name, key)
    BY <2>1, <2>3, PinAddStore
  <2>4. CASE \E e \in Entries, now \in Times, required \in SUBSET Roles :
               Validate(e, now, required)
    BY <2>1, <2>4, ValidateStore
  <2>5. CASE UNCHANGED vars
    BY <2>5 DEF vars, Store!vars, Trusted, Floor, Vouched, Matches, Found
  <2>. QED  BY <2>1, <2>2, <2>3, <2>4, <2>5 DEF Next
<1>2. Spec => []IInv
  BY InitInvariant, NextInvariant, PTL DEF Spec
<1>. QED  BY <1>1, <1>2, EmptyStore, PTL DEF RefinesPinStore, Store!Spec, Spec
=============================================================================
