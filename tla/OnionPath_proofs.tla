--------------------------- MODULE OnionPath_proofs ---------------------------
(***************************************************************************)
(* Proofs about messages on their way through relays, for every set of     *)
(* relays, messages and paths, every window and every size; about the      *)
(* onion simulation, for every number of relays and length of payload; and *)
(* about the frames that hide a length, for every choice of buckets and    *)
(* payloads.                                                               *)
(*                                                                         *)
(* OncePerEpoch is not inductive: a delivery needs the exit's window not   *)
(* to hold the message's id, so the invariant Counted says by how much the *)
(* deliveries are bounded with the id in the window and without it.        *)
(* IdsUnrelated needs that a window holds only ids of its own relay.       *)
(* AcceptedIsPassedOn needs that what airbchan_send let pass has room at   *)
(* every hop, and that a layer is peeled at the relay of its hop only.     *)
(***************************************************************************)
EXTENDS OnionPath, OnionSimulation, PrivFrame, TLAPS, SequenceTheorems, WellFoundedInduction

\* airbchan_send has put the message on its way.
Going(m) == sent[m] # Unsent /\ sent[m].code = "ok"

Attempts == [path : Paths, len : Lengths, code : Codes]

Shapes ==
  /\ sent \in [Messages -> {Unsent} \cup Attempts]
  /\ seen \in [Relays -> SUBSET (Messages \X Nat)]
  /\ epoch \in [Relays -> Nat \ {0}]
  /\ delivered \in [Messages -> Nat]

\* What is in the network was sent.
NetIsSent ==
  \A e \in net :
     LET m == e.onion.message  hop == e.onion.hop IN
     /\ m \in Messages /\ hop \in Nat \ {0}
     /\ Going(m)

\* A window holds ids of layers for its own relay.
SeenIsOwn ==
  \A r \in Relays, m \in Messages, hop \in Nat :
     HopId(m, hop) \in seen[r] => sent[m] # Unsent /\ Path(m)[hop] = r

ExitId(m) == HopId(m, Len(Path(m)))

\* What remains of a message depends on whether its exit still knows it.
Counted ==
  \A m \in Messages :
     IF ~ Going(m) THEN delivered[m] = 0
     ELSE /\ Exit(m) \in Relays
          /\ IF ExitId(m) \in seen[Exit(m)]
             THEN delivered[m] <= epoch[Exit(m)]
             ELSE delivered[m] <= epoch[Exit(m)] - 1

IInv == Shapes /\ NetIsSent /\ SeenIsOwn /\ Counted

-----------------------------------------------------------------------------
\* airbchan_send puts the outermost layer of one message on its way, or
\* nothing.
LEMMA SendEffect ==
  ASSUME NEW m \in Messages, NEW path \in Paths, NEW len \in Lengths,
         Shapes, Send(m, path, len)
  PROVE  /\ sent[m] = Unsent
         /\ sent'[m] \in Attempts /\ sent'[m] # Unsent /\ sent'[m].path = path
         /\ \A k \in Messages : k # m => sent'[k] = sent[k]
         /\ sent' \in [Messages -> {Unsent} \cup Attempts]
         /\ \A e \in net' : e \in net \/ (e = Envelope(path[1], Onion(m, 1)) /\ sent'[m].code = "ok")
         /\ sent'[m].code = "ok" => Len(path) >= 1
         /\ UNCHANGED <<seen, epoch, accepted, cut, delivered>>
<1>1. PICK code \in {SendCode(path, len), "send"} :
        /\ sent' = [sent EXCEPT ![m] = [path |-> path, len |-> len, code |-> code]]
        /\ net' = IF code = "ok" THEN net \cup {Envelope(path[1], Onion(m, 1))} ELSE net
  BY DEF Send
<1>2. code \in Codes /\ (code = "ok" => Len(path) >= 1)
  <2>1. SendCode(path, len) \in Codes
    BY DEF SendCode, Codes
  <2>2. path \in Seq(Relays)
    BY PathAssumption
  <2>3. SendCode(path, len) = "ok" => ~ (Len(path) < 1)
    BY DEF SendCode
  <2>4. Len(path) \in Nat
    BY <2>2
  <2>5. CASE code = SendCode(path, len)
    <3>1. code = "ok" => Len(path) >= 1
      BY <2>3, <2>4, <2>5
    <3>. QED  BY <2>1, <2>5, <3>1
  <2>6. CASE code = "send"
    BY <2>6 DEF Codes
  <2>. QED  BY <2>5, <2>6
<1>3. sent'[m] = [path |-> path, len |-> len, code |-> code]
  BY <1>1 DEF Shapes
<1>4. sent'[m] \in Attempts /\ sent'[m].path = path /\ sent'[m].code = code
  BY <1>2, <1>3 DEF Attempts
<1>5. sent'[m] # Unsent
  BY <1>4, PathAssumption DEF Attempts
<1>6. \A k \in Messages : k # m => sent'[k] = sent[k]
  BY <1>1 DEF Shapes
<1>7. sent' \in [Messages -> {Unsent} \cup Attempts]
  BY <1>1, <1>3, <1>4 DEF Shapes
<1>8. \A e \in net' : e \in net \/ (e = Envelope(path[1], Onion(m, 1)) /\ sent'[m].code = "ok")
  <2>1. CASE code = "ok"
    BY <1>1, <1>4, <2>1
  <2>2. CASE code # "ok"
    BY <1>1, <2>2
  <2>. QED  BY <2>1, <2>2
<1>. QED
  BY <1>2, <1>4, <1>5, <1>6, <1>7, <1>8 DEF Send

\* What a relay does when it accepts an envelope, in the middle or at the exit.
Accepts(r, e) ==
  LET m == e.onion.message  hop == e.onion.hop IN
  /\ sent' = sent /\ accepted' = accepted \cup {<<m, hop>>}
  /\ Path(m)[hop] = r /\ HopId(m, hop) \notin seen[r]
  /\ \/ /\ seen' = [seen EXCEPT ![r] = {}]
        /\ epoch' = [epoch EXCEPT ![r] = @ + 1]
     \/ /\ seen' = [seen EXCEPT ![r] = @ \cup {HopId(m, hop)}]
        /\ epoch' = epoch
  /\ \A f \in net' :
       f \in net \/ (f.onion.message = m /\ f.onion.hop = hop + 1)

LEMMA AcceptEffect ==
  ASSUME NEW r \in Relays, NEW e \in net, Shapes, Forward(r, e) \/ Deliver(r, e)
  PROVE  /\ Accepts(r, e)
         /\ \/ delivered' = delivered
            \/ /\ e.onion.hop = Len(Path(e.onion.message))
               /\ delivered' = [delivered EXCEPT ![e.onion.message] = @ + 1]
<1> DEFINE m == e.onion.message
           hop == e.onion.hop
<1>1. Opens(r, e) /\ Peel(r, e)
  BY DEF Forward, Deliver
<1>2. Path(m)[hop] = r /\ HopId(m, hop) \notin seen[r]
  BY <1>1 DEF Opens
<1>3. sent' = sent /\ accepted' = accepted \cup {<<m, hop>>}
  BY <1>1 DEF Peel
<1>4. \/ /\ seen' = [seen EXCEPT ![r] = {}]
         /\ epoch' = [epoch EXCEPT ![r] = @ + 1]
      \/ /\ seen' = [seen EXCEPT ![r] = @ \cup {HopId(m, hop)}]
         /\ epoch' = epoch
  <2>1. CASE Filter!Fills(seen[r])
    BY <1>1, <2>1 DEF Peel, Filter!Record, Shapes
  <2>2. CASE ~ Filter!Fills(seen[r])
    BY <1>1, <2>2 DEF Peel, Filter!Record, Shapes
  <2>. QED  BY <2>1, <2>2
<1>5. \A f \in net' : f \in net \/ (f.onion.message = m /\ f.onion.hop = hop + 1)
  <2>1. CASE Forward(r, e)
    <3>1. net' \subseteq net \cup {Envelope(Path(m)[hop + 1], Onion(m, hop + 1))}
      BY <2>1 DEF Forward
    <3>. QED  BY <3>1 DEF Envelope, Onion
  <2>2. CASE Deliver(r, e)
    BY <2>2 DEF Deliver
  <2>. QED  BY <2>1, <2>2
<1>6. \/ delivered' = delivered
      \/ (hop = Len(Path(m)) /\ delivered' = [delivered EXCEPT ![m] = @ + 1])
  BY DEF Forward, Deliver
<1>. QED  BY <1>2, <1>3, <1>4, <1>5, <1>6 DEF Accepts

-----------------------------------------------------------------------------
LEMMA IInvInit ==
  ASSUME Init
  PROVE  IInv
<1>1. Shapes
  BY DEF Init, Shapes
<1>2. NetIsSent /\ SeenIsOwn
  BY DEF Init, NetIsSent, SeenIsOwn
<1>3. Counted
  BY DEF Init, Counted, Going
<1>. QED  BY <1>1, <1>2, <1>3 DEF IInv

LEMMA IInvSend ==
  ASSUME IInv, NEW m \in Messages, NEW path \in Paths, NEW len \in Lengths, Send(m, path, len)
  PROVE  IInv'
<1>1. /\ sent[m] = Unsent
      /\ sent'[m] \in Attempts /\ sent'[m] # Unsent /\ sent'[m].path = path
      /\ \A k \in Messages : k # m => sent'[k] = sent[k]
      /\ sent' \in [Messages -> {Unsent} \cup Attempts]
      /\ \A e \in net' : e \in net \/ (e = Envelope(path[1], Onion(m, 1)) /\ sent'[m].code = "ok")
      /\ sent'[m].code = "ok" => Len(path) >= 1
      /\ UNCHANGED <<seen, epoch, accepted, cut, delivered>>
  BY SendEffect DEF IInv
<1>2. Shapes'
  BY <1>1 DEF IInv, Shapes
<1>3. \A k \in Messages : sent[k] # Unsent => sent'[k] = sent[k]
  BY <1>1
<1>4. NetIsSent'
  <2> SUFFICES ASSUME NEW e \in net'
               PROVE  /\ e.onion.message \in Messages /\ e.onion.hop \in Nat \ {0}
                      /\ Going(e.onion.message)'
    BY <1>1 DEF NetIsSent
  <2>1. CASE e \in net
    BY <1>3, <2>1 DEF IInv, NetIsSent, Going
  <2>2. CASE e = Envelope(path[1], Onion(m, 1)) /\ sent'[m].code = "ok"
    BY <1>1, <2>2 DEF Envelope, Onion, Going
  <2>. QED  BY <1>1, <2>1, <2>2
<1>5. SeenIsOwn'
  BY <1>1, <1>3 DEF IInv, SeenIsOwn, Path
<1>7. Counted'
  <2> SUFFICES ASSUME NEW k \in Messages, Going(k)'
               PROVE  /\ Exit(k)' \in Relays
                      /\ IF ExitId(k)' \in seen[Exit(k)']
                         THEN delivered[k] <= epoch[Exit(k)']
                         ELSE delivered[k] <= epoch[Exit(k)'] - 1
    <3>1. \A k \in Messages : ~ Going(k)' => delivered'[k] = 0
      BY <1>1, <1>3 DEF IInv, Counted, Going
    <3>. QED  BY <1>1, <3>1 DEF Counted
  <2>1. CASE k = m
    <3>1. delivered[k] = 0
      BY <1>1, <2>1 DEF IInv, Counted, Going
    <3>2. Exit(k)' \in Relays
      <4>1. path \in Seq(Relays) /\ Len(path) >= 1
        BY <1>1, <2>1, PathAssumption DEF Going
      <4>2. path[Len(path)] \in Relays
        BY <4>1
      <4>. QED  BY <1>1, <2>1, <4>2 DEF Exit, Path
    <3>3. epoch[Exit(k)'] \in Nat \ {0}
      BY <3>2 DEF IInv, Shapes
    <3>. QED  BY <3>1, <3>2, <3>3
  <2>2. CASE k # m
    <3>1. sent'[k] = sent[k]
      BY <1>1, <2>2
    <3>2. Exit(k)' = Exit(k) /\ ExitId(k)' = ExitId(k)
      BY <3>1 DEF Exit, ExitId, Path
    <3>. QED  BY <1>1, <3>1, <3>2 DEF IInv, Counted, Going
  <2>. QED  BY <2>1, <2>2
<1>. QED  BY <1>2, <1>4, <1>5, <1>7 DEF IInv

LEMMA IInvAccept ==
  ASSUME IInv, NEW r \in Relays, NEW e \in net, Forward(r, e) \/ Deliver(r, e)
  PROVE  IInv'
<1> DEFINE m == e.onion.message
           hop == e.onion.hop
<1>1. Accepts(r, e)
  BY AcceptEffect DEF IInv
<1>2. m \in Messages /\ hop \in Nat \ {0} /\ Going(m)
  BY DEF IInv, NetIsSent
<1>3. delivered' = delivered
      \/ (hop = Len(Path(m)) /\ delivered' = [delivered EXCEPT ![m] = @ + 1])
  BY AcceptEffect DEF IInv
<1> HIDE DEF m, hop
<1>4. sent' = sent /\ accepted' = accepted \cup {<<m, hop>>}
      /\ Path(m)[hop] = r /\ HopId(m, hop) \notin seen[r]
  BY <1>1 DEF Accepts, m, hop
<1>5. \/ /\ seen' = [seen EXCEPT ![r] = {}]
         /\ epoch' = [epoch EXCEPT ![r] = @ + 1]
      \/ /\ seen' = [seen EXCEPT ![r] = @ \cup {HopId(m, hop)}]
         /\ epoch' = epoch
  BY <1>1 DEF Accepts, m, hop
<1>6. HopId(m, hop) \in Messages \X Nat
  BY <1>2 DEF HopId
<1>7. Shapes'
  <2>1. seen' \in [Relays -> SUBSET (Messages \X Nat)] /\ epoch' \in [Relays -> Nat \ {0}]
    BY <1>5, <1>6 DEF IInv, Shapes
  <2>2. delivered' \in [Messages -> Nat]
    BY <1>2, <1>3 DEF IInv, Shapes
  <2>. QED  BY <1>4, <2>1, <2>2 DEF IInv, Shapes
<1>8. NetIsSent'
  <2> SUFFICES ASSUME NEW f \in net'
               PROVE  /\ f.onion.message \in Messages /\ f.onion.hop \in Nat \ {0}
                      /\ Going(f.onion.message)
    BY <1>4 DEF NetIsSent, Going
  <2>1. CASE f \in net
    BY <2>1 DEF IInv, NetIsSent
  <2>2. CASE f.onion.message = m /\ f.onion.hop = hop + 1
    BY <1>2, <2>2
  <2>. QED  BY <1>1, <2>1, <2>2 DEF Accepts, m, hop
<1>9. SeenIsOwn'
  <2> SUFFICES ASSUME NEW q \in Relays, NEW k \in Messages, NEW h \in Nat, HopId(k, h) \in seen'[q]
               PROVE  sent[k] # Unsent /\ Path(k)[h] = q
    BY <1>4 DEF SeenIsOwn, Path
  <2>1. CASE HopId(k, h) \in seen[q]
    BY <2>1 DEF IInv, SeenIsOwn
  <2>2. CASE q = r /\ HopId(k, h) = HopId(m, hop)
    <3>1. k = m /\ h = hop
      BY <2>2 DEF HopId
    <3>. QED  BY <1>2, <1>4, <2>2, <3>1 DEF Going
  <2>. QED  BY <1>5, <2>1, <2>2 DEF IInv, Shapes
<1>11. Counted'
  <2> SUFFICES ASSUME NEW k \in Messages
               PROVE  IF ~ Going(k) THEN delivered'[k] = 0
                      ELSE /\ Exit(k) \in Relays
                           /\ IF ExitId(k) \in seen'[Exit(k)]
                              THEN delivered'[k] <= epoch'[Exit(k)]
                              ELSE delivered'[k] <= epoch'[Exit(k)] - 1
    BY <1>4 DEF Counted, Going, Exit, ExitId, Path
  <2>1. CASE ~ Going(k)
    <3>1. delivered[k] = 0 /\ k # m
      BY <1>2, <2>1 DEF IInv, Counted
    <3>2. delivered'[k] = delivered[k]
      BY <1>2, <1>3, <3>1 DEF IInv, Shapes
    <3>. QED  BY <2>1, <3>1, <3>2
  <2>2. CASE Going(k)
    <3> DEFINE x == Exit(k)
    <3>1. /\ x \in Relays
          /\ IF ExitId(k) \in seen[x] THEN delivered[k] <= epoch[x] ELSE delivered[k] <= epoch[x] - 1
      BY <2>2 DEF IInv, Counted
    <3>2. /\ delivered[k] \in Nat /\ epoch[x] \in Nat \ {0}
          /\ delivered'[k] \in Nat /\ epoch'[x] \in Nat \ {0}
      BY <1>7, <3>1 DEF IInv, Shapes
    <3>3. \/ delivered'[k] = delivered[k]
          \/ /\ delivered'[k] = delivered[k] + 1
             /\ x = r /\ ExitId(k) = HopId(m, hop)
      <4>1. CASE delivered' = delivered
        BY <4>1
      <4>2. CASE hop = Len(Path(m)) /\ delivered' = [delivered EXCEPT ![m] = @ + 1]
        <5>1. CASE k = m
          BY <1>2, <1>4, <4>2, <5>1 DEF IInv, Shapes, Exit, ExitId
        <5>2. CASE k # m
          BY <4>2, <5>2 DEF IInv, Shapes
        <5>. QED  BY <5>1, <5>2
      <4>. QED  BY <1>3, <4>1, <4>2
    <3>4. CASE x # r
      <4>1. seen'[x] = seen[x] /\ epoch'[x] = epoch[x]
        BY <1>5, <3>1, <3>4 DEF IInv, Shapes
      <4>2. delivered'[k] = delivered[k]
        BY <3>3, <3>4
      <4>. QED  BY <2>2, <3>1, <4>1, <4>2
    <3>5. CASE x = r /\ seen'[r] = {} /\ epoch'[r] = epoch[r] + 1
      <4>1. delivered'[k] <= epoch[x]
        BY <1>4, <3>1, <3>2, <3>3, <3>5
      <4>2. delivered'[k] <= epoch'[x] - 1
        BY <3>2, <3>5, <4>1
      <4>. QED  BY <2>2, <3>1, <3>5, <4>2
    <3>6. CASE x = r /\ seen'[r] = seen[r] \cup {HopId(m, hop)} /\ epoch'[r] = epoch[r]
      <4>1. CASE ExitId(k) = HopId(m, hop)
        <5>1. delivered[k] <= epoch[x] - 1
          BY <1>4, <3>1, <3>6, <4>1
        <5>2. delivered'[k] <= epoch'[x]
          BY <3>2, <3>3, <3>6, <5>1
        <5>. QED  BY <2>2, <3>1, <3>6, <4>1, <5>2
      <4>2. CASE ExitId(k) # HopId(m, hop)
        <5>1. delivered'[k] = delivered[k]
          BY <3>3, <4>2
        <5>2. ExitId(k) \in seen'[x] <=> ExitId(k) \in seen[x]
          BY <3>6, <4>2
        <5>. QED  BY <2>2, <3>1, <3>6, <5>1, <5>2
      <4>. QED  BY <4>1, <4>2
    <3>. QED  BY <1>5, <3>4, <3>5, <3>6 DEF IInv, Shapes
  <2>. QED  BY <2>1, <2>2
<1>. QED  BY <1>7, <1>8, <1>9, <1>11 DEF IInv

LEMMA IInvInductive ==
  ASSUME IInv, [Next]_vars
  PROVE  IInv'
<1>1. CASE \E m \in Messages, path \in Paths, len \in Lengths : Send(m, path, len)
  BY <1>1, IInvSend
<1>2. CASE \E r \in Relays, e \in net : Forward(r, e) \/ Deliver(r, e)
  BY <1>2, IInvAccept
<1>3. CASE UNCHANGED vars
  <2> USE <1>3 DEF vars, IInv
  <2>1. Shapes'
    BY DEF Shapes
  <2>2. NetIsSent' /\ SeenIsOwn'
    BY DEF NetIsSent, SeenIsOwn, Going, Path
  <2>3. Counted'
    BY DEF Counted, Going, Exit, ExitId, Path
  <2>. QED  BY <2>1, <2>2, <2>3
<1>. QED
  BY <1>1, <1>2, <1>3 DEF Next, Handle, Refuse

-----------------------------------------------------------------------------
\* However the network repeats and misroutes envelopes, a message comes out at
\* its exit at most once in each epoch of the exit's window.
THEOREM DeliveredOncePerEpoch == Spec => []OncePerEpoch
<1>1. IInv => OncePerEpoch
  <2> SUFFICES ASSUME IInv, NEW m \in Messages, delivered[m] > 0
               PROVE  delivered[m] <= epoch[Exit(m)]
    BY DEF OncePerEpoch
  <2>1. Going(m)
    BY DEF IInv, Counted
  <2>2. delivered[m] \in Nat /\ epoch[Exit(m)] \in Nat
    BY <2>1 DEF IInv, Counted, Shapes
  <2>. QED  BY <2>1, <2>2 DEF IInv, Counted
<1>. QED  BY <1>1, IInvInit, IInvInductive, PTL DEF Spec

\* The windows of two relays have no id in common, even on a path that visits
\* a relay twice.
THEOREM WindowsUnrelated == Spec => []IdsUnrelated
<1>1. IInv => IdsUnrelated
  <2> SUFFICES ASSUME IInv, NEW r1 \in Relays, NEW r2 \in Relays, r1 # r2,
                      NEW id \in seen[r1] \cap seen[r2]
               PROVE  FALSE
    BY DEF IdsUnrelated
  <2>1. PICK m \in Messages, hop \in Nat : id = HopId(m, hop)
    BY DEF IInv, Shapes, HopId
  <2>. QED  BY <2>1 DEF IInv, SeenIsOwn
<1>. QED  BY <1>1, IInvInit, IInvInductive, PTL DEF Spec
-----------------------------------------------------------------------------
\* What airbchan_send has let pass fits at every hop, for the sizes it compares
\* are those of the outermost layer, and the onion only shrinks.
Room(m) ==
  /\ Len(Path(m)) \in 1 .. MaxHops
  /\ sent[m].len + LengthPrefix <= Target(Len(Path(m)))
  /\ Fits(OnionSize(Len(Path(m)), 1))

HaveRoom == \A m \in Messages : Going(m) => Room(m)

\* An envelope is for the relay of its hop.
NetInPath ==
  \A e \in net :
     LET m == e.onion.message  hop == e.onion.hop IN
     hop \in 1 .. Len(Path(m)) /\ e = Envelope(Path(m)[hop], Onion(m, hop))

PeeledBounded ==
  /\ accepted \subseteq Messages \X (1 .. MaxHops)
  /\ cut \subseteq accepted
  /\ seen \in [Relays -> SUBSET (Messages \X (1 .. MaxHops))]
  /\ epoch \in [Relays -> 1 .. MaxEpoch]

AcceptedIsGoing ==
  \A m \in Messages, hop \in 1 .. MaxHops :
     <<m, hop>> \in accepted => Going(m) /\ hop \in 1 .. Len(Path(m))

PInv == HaveRoom /\ NetInPath /\ PeeledBounded /\ AcceptedIsGoing /\ AcceptedIsPassedOn

LEMMA SentFits ==
  ASSUME NEW path \in Paths, NEW len \in Lengths, SendCode(path, len) = "ok"
  PROVE  /\ Len(path) \in 1 .. MaxHops
         /\ len + LengthPrefix <= Target(Len(path))
         /\ Fits(OnionSize(Len(path), 1))
<1>1. Len(path) \in Nat /\ len \in Nat
  BY PathAssumption
<1>2. /\ ~ (Len(path) < 1) /\ ~ (Len(path) > MaxHops)
      /\ ~ (len + LengthPrefix > Target(Len(path))) /\ Fits(OnionSize(Len(path), 1))
  BY DEF SendCode
<1>3. Target(Len(path)) \in Int /\ len + LengthPrefix \in Int
  BY <1>1, SizeAssumption DEF Target
<1>. QED  BY <1>1, <1>2, <1>3, SizeAssumption

\* One layer less is no larger.
LEMMA OnionShrinks ==
  ASSUME NEW hops \in Nat, NEW hop \in 1 .. hops, hop < hops, Fits(OnionSize(hops, 1))
  PROVE  Fits(OnionSize(hops, hop + 1))
<1> DEFINE rest == hops - hop
<1>1. rest \in Nat /\ hop \in Nat /\ hops = rest + hop
  OBVIOUS
<1>2. HopOverhead \in Nat /\ EnvelopePlain \in Nat
  BY SizeAssumption
<1>3. hops * HopOverhead \in Int /\ rest * HopOverhead \in Int /\ hop * HopOverhead \in Nat
  BY <1>1, <1>2
<1> HIDE DEF rest
<1>4. hops * HopOverhead = rest * HopOverhead + hop * HopOverhead
  BY <1>1, <1>2
<1>5. rest * HopOverhead <= hops * HopOverhead
  BY <1>3, <1>4
<1>6. (hops - 1 + 1) = hops /\ hops - (hop + 1) + 1 = rest
  BY <1>1
<1>7. EnvelopePlain - 2 - hops * HopOverhead + hops * HopOverhead + 2 <= EnvelopePlain
  BY <1>6 DEF Fits, OnionSize, Target
<1>8. EnvelopePlain - 2 - hops * HopOverhead + rest * HopOverhead + 2 <= EnvelopePlain
  BY <1>2, <1>3, <1>5, <1>7
<1>. QED  BY <1>6, <1>8 DEF Fits, OnionSize, Target

LEMMA PInvInit ==
  ASSUME Init
  PROVE  PInv
<1>1. HaveRoom /\ NetInPath /\ AcceptedIsGoing /\ AcceptedIsPassedOn
  BY DEF Init, HaveRoom, Going, NetInPath, AcceptedIsGoing, AcceptedIsPassedOn
<1>2. PeeledBounded
  BY SizeAssumption DEF Init, PeeledBounded
<1>. QED  BY <1>1, <1>2 DEF PInv

LEMMA PInvSend ==
  ASSUME IInv, PInv, NEW m \in Messages, NEW path \in Paths, NEW len \in Lengths, Send(m, path, len)
  PROVE  PInv'
<1>1. /\ sent[m] = Unsent
      /\ \A k \in Messages : k # m => sent'[k] = sent[k]
      /\ UNCHANGED <<seen, epoch, accepted, cut, delivered>>
  BY SendEffect DEF IInv
<1>2. PICK code \in {SendCode(path, len), "send"} :
        /\ sent' = [sent EXCEPT ![m] = [path |-> path, len |-> len, code |-> code]]
        /\ net' = IF code = "ok" THEN net \cup {Envelope(path[1], Onion(m, 1))} ELSE net
  BY DEF Send
<1>3. sent'[m] = [path |-> path, len |-> len, code |-> code]
  BY <1>2 DEF IInv, Shapes
<1>4. code = "ok" => SendCode(path, len) = "ok"
  BY <1>2
<1>5. \A k \in Messages : Going(k) => k # m /\ sent'[k] = sent[k]
  BY <1>1 DEF Going
<1>6. HaveRoom'
  <2> SUFFICES ASSUME NEW k \in Messages, Going(k)'  PROVE Room(k)'
    BY DEF HaveRoom
  <2>1. CASE k = m
    <3>1. code = "ok"
      BY <1>3, <2>1 DEF Going
    <3>. QED  BY <1>3, <1>4, <2>1, <3>1, SentFits DEF Room, Path
  <2>2. CASE k # m
    BY <1>1, <2>2 DEF PInv, HaveRoom, Going, Room, Path
  <2>. QED  BY <2>1, <2>2
<1>7. NetInPath'
  <2> SUFFICES ASSUME NEW e \in net'
               PROVE  /\ e.onion.hop \in 1 .. Len(Path(e.onion.message)')
                      /\ e = Envelope(Path(e.onion.message)'[e.onion.hop],
                                      Onion(e.onion.message, e.onion.hop))
    BY DEF NetInPath, Path
  <2>1. CASE e \in net
    BY <1>5, <2>1 DEF PInv, NetInPath, IInv, NetIsSent, Path
  <2>2. CASE code = "ok" /\ e = Envelope(path[1], Onion(m, 1))
    <3>1. Len(path) \in 1 .. MaxHops
      BY <1>4, <2>2, SentFits
    <3>2. 1 \in 1 .. Len(path)
      BY <3>1, SizeAssumption
    <3>3. e.onion.message = m /\ e.onion.hop = 1
      BY <2>2 DEF Envelope, Onion
    <3>4. Path(m)' = path
      BY <1>3 DEF Path
    <3>. QED  BY <2>2, <3>2, <3>3, <3>4
  <2>. QED  BY <1>2, <2>1, <2>2
<1>8. PeeledBounded'
  BY <1>1 DEF PInv, PeeledBounded
<1>9. AcceptedIsPassedOn'
  <2> SUFFICES ASSUME NEW k \in Messages, NEW hop \in 1 .. MaxHops, <<k, hop>> \in accepted \ cut
               PROVE  IF hop < Len(Path(k)')
                      THEN Envelope(Path(k)'[hop + 1], Onion(k, hop + 1)) \in net'
                      ELSE delivered[k] > 0
    BY <1>1 DEF AcceptedIsPassedOn, Path
  <2>1. Going(k)
    BY DEF PInv, AcceptedIsGoing
  <2>2. net \subseteq net'
    BY <1>2
  <2>. QED  BY <1>5, <2>1, <2>2 DEF PInv, AcceptedIsPassedOn, Path
<1>10. AcceptedIsGoing'
  BY <1>1, <1>5 DEF PInv, AcceptedIsGoing, Going, Path
<1>. QED  BY <1>6, <1>7, <1>8, <1>9, <1>10 DEF PInv

LEMMA PInvAccept ==
  ASSUME IInv, PInv, NEW r \in Relays, NEW e \in net, Forward(r, e) \/ Deliver(r, e)
  PROVE  PInv'
<1> DEFINE m == e.onion.message
           hop == e.onion.hop
           next == Envelope(Path(m)[hop + 1], Onion(m, hop + 1))
<1>1. Accepts(r, e) /\ Peel(r, e)
  BY AcceptEffect DEF IInv, Forward, Deliver
<1>2. m \in Messages /\ Going(m) /\ hop \in 1 .. Len(Path(m)) /\ Room(m)
  BY DEF IInv, NetIsSent, PInv, NetInPath, HaveRoom
<1>3. hop \in 1 .. MaxHops /\ Len(Path(m)) \in Nat
  BY <1>2, SizeAssumption DEF Room
<1>4. \/ /\ hop < Len(Path(m)) /\ delivered' = delivered
         /\ \/ net' = net \cup {next} /\ cut' = cut
            \/ net' = net /\ cut' = cut \cup {<<m, hop>>}
      \/ /\ hop = Len(Path(m)) /\ cut' = cut
         /\ net' = net /\ delivered' = [delivered EXCEPT ![m] = @ + 1]
  <2>1. CASE Forward(r, e)
    <3>1. hop < Len(Path(m)) /\ delivered' = delivered
          /\ IF Fits(OnionSize(Len(Path(m)), hop + 1))
             THEN \/ net' = net \cup {next} /\ cut' = cut
                  \/ cut' = cut \cup {<<m, hop>>} /\ net' = net
             ELSE UNCHANGED <<net, cut>>
      BY <2>1 DEF Forward
    <3>2. Fits(OnionSize(Len(Path(m)), 1))
      BY <1>2 DEF Room
    <3>3. Fits(OnionSize(Len(Path(m)), hop + 1))
      BY <1>2, <1>3, <3>1, <3>2, OnionShrinks
    <3>. QED  BY <3>1, <3>3
  <2>2. CASE Deliver(r, e)
    <3>1. hop = Len(Path(m)) /\ net' = net /\ cut' = cut
          /\ delivered' = IF sent[m].len + LengthPrefix <= Target(hop)
                          THEN [delivered EXCEPT ![m] = @ + 1] ELSE delivered
      BY <2>2 DEF Deliver
    <3>2. sent[m].len + LengthPrefix <= Target(Len(Path(m)))
      BY <1>2 DEF Room
    <3>. QED  BY <3>1, <3>2
  <2>. QED  BY <2>1, <2>2
<1>5. sent' = sent /\ accepted' = accepted \cup {<<m, hop>>}
  BY <1>1 DEF Accepts
<1>6. next.onion.message = m /\ next.onion.hop = hop + 1
  BY DEF Envelope, Onion
<1>7. \A k \in Messages : delivered[k] \in Nat /\ delivered'[k] >= delivered[k]
  <2>1. delivered \in [Messages -> Nat]
    BY DEF IInv, Shapes
  <2>. QED  BY <1>2, <1>4, <2>1
<1>8. hop = Len(Path(m)) => delivered'[m] > 0
  <2>1. delivered \in [Messages -> Nat]
    BY DEF IInv, Shapes
  <2>. QED  BY <1>2, <1>3, <1>4, <2>1
<1>9. PeeledBounded'
  <2>1. seen' \in [Relays -> SUBSET (Messages \X (1 .. MaxHops))]
    <3>1. HopId(m, hop) \in Messages \X (1 .. MaxHops)
      BY <1>2, <1>3 DEF HopId
    <3>2. seen' = [seen EXCEPT ![r] = {}] \/ seen' = [seen EXCEPT ![r] = @ \cup {HopId(m, hop)}]
      BY <1>1 DEF Accepts
    <3>. QED  BY <3>1, <3>2 DEF PInv, PeeledBounded
  <2>2. epoch' \in [Relays -> 1 .. MaxEpoch]
    <3>1. epoch \in [Relays -> 1 .. MaxEpoch] /\ MaxEpoch \in Nat
      BY SizeAssumption DEF PInv, PeeledBounded
    <3>2. CASE Filter!Fills(seen[r])
      <4>1. epoch[r] < MaxEpoch /\ epoch' = [epoch EXCEPT ![r] = @ + 1]
        BY <1>1, <3>1, <3>2 DEF Peel
      <4>2. epoch[r] + 1 \in 1 .. MaxEpoch
        BY <3>1, <4>1
      <4>. QED  BY <3>1, <4>1, <4>2
    <3>3. CASE ~ Filter!Fills(seen[r])
      BY <1>1, <3>1, <3>3 DEF Peel
    <3>. QED  BY <3>2, <3>3
  <2>3. accepted' \subseteq Messages \X (1 .. MaxHops)
    BY <1>2, <1>3, <1>5 DEF PInv, PeeledBounded
  <2>4. cut' \subseteq accepted'
    BY <1>4, <1>5 DEF PInv, PeeledBounded
  <2>. QED  BY <2>1, <2>2, <2>3, <2>4 DEF PeeledBounded
<1> HIDE DEF m, hop, next
<1>10. HaveRoom'
  BY <1>5 DEF PInv, HaveRoom, Going, Room, Path
<1>11. NetInPath'
  <2> SUFFICES ASSUME NEW f \in net'
               PROVE  /\ f.onion.hop \in 1 .. Len(Path(f.onion.message))
                      /\ f = Envelope(Path(f.onion.message)[f.onion.hop],
                                      Onion(f.onion.message, f.onion.hop))
    BY <1>5 DEF NetInPath, Path
  <2>1. CASE f \in net
    BY <2>1 DEF PInv, NetInPath
  <2>2. CASE f = next /\ hop < Len(Path(m))
    <3>1. hop + 1 \in 1 .. Len(Path(m))
      BY <1>2, <1>3, <2>2
    <3>2. next = Envelope(Path(m)[hop + 1], Onion(m, hop + 1))
      BY DEF next, m, hop
    <3>. QED  BY <1>6, <2>2, <3>1, <3>2
  <2>. QED  BY <1>4, <2>1, <2>2
<1>12. AcceptedIsGoing'
  <2> SUFFICES ASSUME NEW k \in Messages, NEW h \in 1 .. MaxHops, <<k, h>> \in accepted'
               PROVE  Going(k) /\ h \in 1 .. Len(Path(k))
    BY <1>5 DEF AcceptedIsGoing, Going, Path
  <2>1. CASE <<k, h>> \in accepted
    BY <2>1 DEF PInv, AcceptedIsGoing
  <2>2. CASE k = m /\ h = hop
    BY <1>2, <2>2
  <2>. QED  BY <1>5, <2>1, <2>2
<1>13. AcceptedIsPassedOn'
  <2> SUFFICES ASSUME NEW k \in Messages, NEW h \in 1 .. MaxHops, <<k, h>> \in (accepted \ cut)'
               PROVE  IF h < Len(Path(k))
                      THEN Envelope(Path(k)[h + 1], Onion(k, h + 1)) \in net'
                      ELSE delivered'[k] > 0
    BY <1>5 DEF AcceptedIsPassedOn, Path
  <2>1. CASE <<k, h>> \in accepted
    <3>. <<k, h>> \notin cut
      BY <1>4
    <3>1. IF h < Len(Path(k))
          THEN Envelope(Path(k)[h + 1], Onion(k, h + 1)) \in net
          ELSE delivered[k] > 0
      BY <2>1 DEF PInv, AcceptedIsPassedOn
    <3>2. delivered[k] > 0 => delivered'[k] > 0
      <4>1. delivered[k] \in Nat /\ delivered'[k] >= delivered[k]
        BY <1>7
      <4>2. delivered'[k] \in Nat
        BY IInvAccept DEF IInv, Shapes
      <4>. QED  BY <4>1, <4>2
    <3>3. net \subseteq net'
      BY <1>4
    <3>. QED  BY <3>1, <3>2, <3>3
  <2>2. CASE k = m /\ h = hop
    <3>1. next = Envelope(Path(m)[hop + 1], Onion(m, hop + 1))
      BY DEF next, m, hop
    <3>2. hop < Len(Path(m)) => next \in net'
      BY <1>3, <1>4, <2>2
    <3>3. ~ (hop < Len(Path(m))) => hop = Len(Path(m))
      BY <1>2, <1>3
    <3>. QED  BY <1>8, <2>2, <3>1, <3>2, <3>3
  <2>. QED  BY <1>5, <2>1, <2>2
<1>. QED  BY <1>9, <1>10, <1>11, <1>12, <1>13 DEF PInv

LEMMA PInvInductive ==
  ASSUME IInv, PInv, [Next]_vars
  PROVE  PInv'
<1>1. CASE \E m \in Messages, path \in Paths, len \in Lengths : Send(m, path, len)
  BY <1>1, PInvSend
<1>2. CASE \E r \in Relays, e \in net : Forward(r, e) \/ Deliver(r, e)
  BY <1>2, PInvAccept
<1>3. CASE UNCHANGED vars
  BY <1>3 DEF vars, PInv, HaveRoom, NetInPath, PeeledBounded, AcceptedIsGoing, AcceptedIsPassedOn,
              Going, Room, Path
<1>. QED
  BY <1>1, <1>2, <1>3 DEF Next, Handle, Refuse

LEMMA BothInvariants == Spec => [](IInv /\ PInv)
<1>1. Init => IInv /\ PInv
  BY IInvInit, PInvInit
<1>2. IInv /\ PInv /\ [Next]_vars => (IInv /\ PInv)'
  BY IInvInductive, PInvInductive
<1>. QED  BY <1>1, <1>2, PTL DEF Spec

\* What a relay has peeled never gets stuck there for want of room: the rest of
\* the onion fits the envelope of the next link, and the exit finds the payload
\* (airbchan.c:61, 140, 191).
THEOREM PeeledIsPassedOn == Spec => []AcceptedIsPassedOn
<1>1. IInv /\ PInv => AcceptedIsPassedOn
  BY DEF PInv
<1>. QED  BY <1>1, BothInvariants, PTL

\* The types, and that no envelope in the network is for a hop beyond MaxHops.
THEOREM TypesHold == Spec => []TypeOK
<1>1. IInv /\ PInv => TypeOK
  <2> SUFFICES ASSUME IInv, PInv  PROVE TypeOK
    OBVIOUS
  <2>1. net \subseteq Envelopes
    <3> SUFFICES ASSUME NEW e \in net  PROVE e \in Envelopes
      OBVIOUS
    <3> DEFINE m == e.onion.message
               hop == e.onion.hop
    <3>1. m \in Messages /\ Going(m) /\ hop \in 1 .. Len(Path(m)) /\ e = Envelope(Path(m)[hop], Onion(m, hop))
      BY DEF IInv, NetIsSent, PInv, NetInPath
    <3>2. Len(Path(m)) \in 1 .. MaxHops
      BY <3>1 DEF PInv, HaveRoom, Room
    <3>3. hop \in 1 .. MaxHops
      BY <3>1, <3>2, SizeAssumption
    <3>4. Path(m) \in Seq(Relays)
      BY <3>1, PathAssumption DEF IInv, Shapes, Attempts, Going, Path
    <3>5. Path(m)[hop] \in Relays
      BY <3>1, <3>4
    <3> HIDE DEF m, hop
    <3>. QED  BY <3>1, <3>3, <3>5 DEF Envelopes
  <2>2. sent \in [Messages -> {Unsent} \cup [path : Paths, len : Lengths, code : Codes]]
        /\ delivered \in [Messages -> Nat]
    BY DEF IInv, Shapes, Attempts
  <2>. QED  BY <2>1, <2>2 DEF TypeOK, PInv, PeeledBounded
<1>. QED  BY <1>1, BothInvariants, PTL

-----------------------------------------------------------------------------
(* The onion simulation. No recursion is needed to say what the onion is:  *)
(* the tag of a layer holds the ciphertext it vouches for, so that each    *)
(* layer can be told by the tags of itself and of the next one in.         *)

\* The packet as relay i finds it: what the tag of layer i vouches for, and
\* after the last layer the payload.
PacketAt(i) == IF i = relays THEN eiu ELSE onion.tags[i].of

\* What the layers from i on add to the payload.
LengthAt(i) == eiu.len + LayerHeader * (relays - i)

Wrapped(i) ==
  /\ onion.tags[i] = TagOf(RelayKey(i), HopNonce(i), RelayCap(i),
                           Cipher(RelayKey(i), HopNonce(i), Layer(i, PacketAt(i + 1))))
  /\ PacketAt(i).len = LengthAt(i)

Circuit ==
  /\ relays \in 0 .. MaxRelays /\ eiu = EiuText(eiu.len) /\ eiu.len \in Nat
  /\ onion.layers = relays
  /\ onion = [payload |-> onion.payload, layers |-> onion.layers, hop |-> onion.hop, tags |-> onion.tags]
  /\ onion.tags = [i \in 0 .. MaxRelays - 1 |-> onion.tags[i]]

\* What the first n relays have peeled.
Walk(n) == [i \in 1 .. n |-> [relay |-> i - 1, next |-> IF i = relays THEN NoHop ELSE i]]

AtStart == stage = "init" => relays = 0 /\ layer = 0

Wrapping ==
  stage = "wrap" =>
    /\ Circuit /\ layer \in -1 .. relays - 1
    /\ peeled = <<>> /\ arrival = Nothing /\ outcome = Running
    /\ onion.payload = PacketAt(layer + 1) /\ PacketAt(layer + 1).len = LengthAt(layer + 1)
    /\ LengthAt(layer + 1) <= BufferSize
    /\ \A i \in layer + 1 .. relays - 1 : Wrapped(i)

\* The relay whose layer the packet shows: the last one keeps it.
Shown == IF layer = relays /\ relays # 0 THEN relays - 1 ELSE layer

Travelling ==
  stage = "hop" =>
    /\ Circuit /\ layer \in 0 .. relays /\ LengthAt(0) <= BufferSize
    /\ \A i \in 0 .. relays - 1 : Wrapped(i)
    /\ onion.payload = PacketAt(Shown)
    /\ layer < relays => onion.hop = layer
    /\ peeled = Walk(layer)
    /\ arrival = IF layer = relays /\ relays # 0 THEN eiu ELSE Nothing
    /\ outcome = Running

Ended ==
  stage = "done" =>
    /\ relays \in 0 .. MaxRelays /\ layer \in -1 .. MaxRelays /\ eiu.len \in Nat
    /\ \/ outcome = -1 /\ LengthAt(0) > BufferSize /\ peeled = <<>>
       \/ /\ outcome = 0 /\ LengthAt(0) <= BufferSize /\ peeled = Walk(relays)
          /\ arrival = IF relays = 0 THEN Nothing ELSE eiu

CircuitInv ==
  /\ stage \in {"init", "wrap", "hop", "done"}
  /\ stage \in {"init"} => outcome = Running /\ peeled = <<>> /\ arrival = Nothing
  /\ AtStart /\ Wrapping /\ Travelling /\ Ended

-----------------------------------------------------------------------------
LEMMA SimulationNumbers ==
  /\ MaxRelays \in Nat /\ BufferSize \in Nat /\ LayerHeader \in Nat \ {0} /\ MaxChecks \in Nat
  /\ RelayArguments \subseteq Nat /\ EiuLengths \subseteq Nat
BY SimulationAssumption

\* Layers only add bytes.
LEMMA LayersAdd ==
  ASSUME NEW e \in Nat, NEW n \in Nat, NEW i \in 0 .. n
  PROVE  /\ e + LayerHeader * (n - i) \in Nat
         /\ e <= e + LayerHeader * (n - i)
         /\ e + LayerHeader * (n - i) <= e + LayerHeader * (n - 0)
         /\ i < n => /\ LayerHeader + (e + LayerHeader * (n - (i + 1))) = e + LayerHeader * (n - i)
                     /\ LayerHeader <= e + LayerHeader * (n - i)
<1>1. LayerHeader \in Nat \ {0}
  BY SimulationNumbers
<1>. DEFINE a == LayerHeader * (n - i)
            b == LayerHeader * i
<1>2. a \in Nat /\ b \in Nat
  BY <1>1
<1>3. LayerHeader * (n - 0) = a + b
  BY <1>1
<1>4. ASSUME i < n
      PROVE  LayerHeader * (n - (i + 1)) \in Nat /\ a = LayerHeader + LayerHeader * (n - (i + 1))
  <2>1. n - (i + 1) \in Nat /\ n - i = (n - (i + 1)) + 1
    BY <1>4
  <2>. DEFINE m == n - (i + 1)
  <2>2. m \in Nat /\ a = LayerHeader * (m + 1)
    BY <2>1
  <2>. HIDE DEF m, a
  <2>3. a = LayerHeader + LayerHeader * m /\ LayerHeader * m \in Nat
    BY <1>1, <2>2
  <2>. QED  BY <2>3 DEF m
<1>. HIDE DEF a, b
<1>5. e + a \in Nat /\ e <= e + a /\ e + a <= e + LayerHeader * (n - 0)
  BY <1>2, <1>3
<1>6. ASSUME i < n
      PROVE  /\ LayerHeader + (e + LayerHeader * (n - (i + 1))) = e + a
             /\ LayerHeader <= e + a
  <2>. DEFINE c == LayerHeader * (n - (i + 1))
  <2>1. c \in Nat /\ a = LayerHeader + c
    BY <1>4, <1>6
  <2>. HIDE DEF c
  <2>2. LayerHeader + (e + c) = e + a /\ LayerHeader <= e + a
    BY <1>1, <2>1
  <2>. QED  BY <2>2 DEF c
<1>. QED  BY <1>5, <1>6 DEF a

LEMMA CircuitInitKeeps ==
  ASSUME CircuitInv, NEW n \in RelayArguments, NEW length \in EiuLengths, CircuitInit(n, length)
  PROVE  CircuitInv'
<1>1. /\ stage = "init" /\ relays' = CircuitRelays(n) /\ eiu' = EiuText(length) /\ layer' = relays' - 1
      /\ onion' = [payload |-> EiuText(length), layers |-> relays', hop |-> 0, tags |-> [i \in 0 .. MaxRelays - 1 |-> <<>>]]
      /\ UNCHANGED <<peeled, arrival, filter, checks>>
      /\ IF length > BufferSize THEN stage' = "done" /\ outcome' = -1
         ELSE stage' = "wrap" /\ UNCHANGED outcome
  BY DEF CircuitInit
<1>2. length \in Nat /\ n \in Nat /\ BufferSize \in Nat /\ MaxRelays \in Nat
  BY SimulationNumbers
<1>3. eiu'.len = length /\ eiu' = EiuText(eiu'.len)
  BY <1>1 DEF EiuText
<1>4. relays' \in 0 .. MaxRelays
  BY <1>1, <1>2 DEF CircuitRelays
<1>5. /\ layer' + 1 = relays' /\ relays' - (layer' + 1) = 0
      /\ layer' \in -1 .. relays' - 1 /\ layer' \in -1 .. MaxRelays /\ layer' + 1 .. relays' - 1 = {}
  <2>. DEFINE l == layer'
              r == relays'
  <2>1. r \in 0 .. MaxRelays /\ l = r - 1
    BY <1>1, <1>4
  <2>2. l \in Int /\ r \in Int /\ MaxRelays \in Nat
    BY <1>2, <2>1
  <2>. HIDE DEF l, r
  <2>3. /\ l + 1 = r /\ r - (l + 1) = 0
        /\ l \in -1 .. r - 1 /\ l \in -1 .. MaxRelays /\ l + 1 .. r - 1 = {}
    BY <2>1, <2>2
  <2>. QED  BY <2>3 DEF l, r
<1>6. PacketAt(layer + 1)' = eiu' /\ LengthAt(layer + 1)' = length
  <2>1. LengthAt(layer + 1)' = length + LayerHeader * (relays' - (layer' + 1))
    BY <1>3 DEF LengthAt
  <2>2. relays' - (layer' + 1) = 0
    BY <1>5
  <2>3. LayerHeader * 0 = 0 /\ length + 0 = length
    BY <1>2, SimulationNumbers
  <2>4. LengthAt(layer + 1)' = length
    BY <2>1, <2>2, <2>3
  <2>5. PacketAt(layer + 1)' = eiu'
    BY <1>5 DEF PacketAt
  <2>. QED  BY <2>4, <2>5
<1>7. peeled = <<>> /\ arrival = Nothing /\ outcome = Running
  BY <1>1 DEF CircuitInv
<1>8. CASE length > BufferSize
  <2>1. 0 \in 0 .. relays' /\ relays' \in Nat
    BY <1>4, <1>2
  <2>2. length <= length + LayerHeader * (relays' - 0) /\ length + LayerHeader * (relays' - 0) \in Nat
    BY <1>2, <2>1, LayersAdd
  <2>3. LengthAt(0)' = length + LayerHeader * (relays' - 0)
    BY <1>3 DEF LengthAt
  <2>4. LengthAt(0)' > BufferSize
    BY <1>2, <1>8, <2>2, <2>3
  <2>5. layer' \in -1 .. MaxRelays
    BY <1>5
  <2>6. stage' = "done" /\ outcome' = -1 /\ peeled' = <<>>
    BY <1>1, <1>7, <1>8
  <2>7. Ended'
    BY <1>2, <1>3, <1>4, <2>4, <2>5, <2>6 DEF Ended
  <2>. QED  BY <2>6, <2>7 DEF CircuitInv, AtStart, Wrapping, Travelling
<1>9. CASE ~ (length > BufferSize)
  <2>1. stage' = "wrap" /\ outcome' = Running /\ peeled' = <<>> /\ arrival' = Nothing
    BY <1>1, <1>7, <1>9
  <2>2. Circuit'
    BY <1>1, <1>2, <1>3, <1>4 DEF Circuit
  <2>3. onion'.payload = PacketAt(layer + 1)'
    BY <1>1, <1>6
  <2>4. PacketAt(layer + 1)'.len = LengthAt(layer + 1)' /\ LengthAt(layer + 1)' <= BufferSize
    BY <1>2, <1>3, <1>6, <1>9
  <2>5. layer' + 1 .. relays' - 1 = {}
    BY <1>5
  <2>6. Wrapping'
    BY <1>5, <2>1, <2>2, <2>3, <2>4, <2>5 DEF Wrapping
  <2>. QED  BY <2>1, <2>6 DEF CircuitInv, AtStart, Travelling, Ended
<1>. QED  BY <1>8, <1>9

LEMMA WrapLayerKeeps ==
  ASSUME CircuitInv, WrapLayer
  PROVE  CircuitInv'
<1>. DEFINE text == Layer(layer, onion.payload)
            cipher == Cipher(RelayKey(layer), HopNonce(layer), text)
            tag == TagOf(RelayKey(layer), HopNonce(layer), RelayCap(layer), cipher)
<1>1. /\ stage = "wrap" /\ layer >= 0
      /\ UNCHANGED <<relays, eiu, peeled, arrival, filter, checks>>
      /\ IF text.len > BufferSize
         THEN stage' = "done" /\ outcome' = -1 /\ UNCHANGED <<onion, layer>>
         ELSE /\ onion' = [onion EXCEPT !.payload = cipher, !.tags[layer] = tag]
              /\ layer' = layer - 1
              /\ UNCHANGED <<stage, outcome>>
  BY DEF WrapLayer
<1>2. Wrapping
  BY DEF CircuitInv
<1>3. /\ Circuit /\ layer \in -1 .. relays - 1
      /\ peeled = <<>> /\ arrival = Nothing /\ outcome = Running
      /\ onion.payload = PacketAt(layer + 1) /\ PacketAt(layer + 1).len = LengthAt(layer + 1)
      /\ \A i \in layer + 1 .. relays - 1 : Wrapped(i)
  BY <1>1, <1>2 DEF Wrapping
<1>4. /\ relays \in 0 .. MaxRelays /\ MaxRelays \in Nat /\ BufferSize \in Nat /\ eiu.len \in Nat
      /\ layer \in 0 .. relays - 1 /\ layer \in Nat /\ relays \in Nat /\ layer < relays /\ layer \in 0 .. relays
  BY <1>1, <1>3, SimulationNumbers DEF Circuit
<1>5. /\ LayerHeader + LengthAt(layer + 1) = LengthAt(layer)
      /\ LengthAt(layer) \in Nat /\ LengthAt(layer) <= LengthAt(0)
      /\ LengthAt(0) \in Nat
  <2>1. 0 \in 0 .. relays
    BY <1>4
  <2>. QED  BY <1>4, <2>1, LayersAdd DEF LengthAt
<1>6. text.len = LengthAt(layer)
  BY <1>3, <1>5 DEF Layer
<1>7. CASE text.len > BufferSize
  <2>1. stage' = "done" /\ outcome' = -1 /\ UNCHANGED <<relays, eiu, peeled, layer>>
    BY <1>1, <1>7
  <2>2. LengthAt(0)' = LengthAt(0) /\ LengthAt(0) > BufferSize
    <3>1. LengthAt(0)' = LengthAt(0)
      BY <2>1 DEF LengthAt
    <3>2. LengthAt(layer) > BufferSize
      BY <1>6, <1>7
    <3>. QED  BY <1>4, <1>5, <3>1, <3>2
  <2>3. layer' \in -1 .. MaxRelays
    BY <1>4, <2>1
  <2>4. Ended'
    BY <1>3, <1>4, <2>1, <2>2, <2>3 DEF Ended
  <2>. QED  BY <2>1, <2>4 DEF CircuitInv, AtStart, Wrapping, Travelling
<1>8. CASE ~ (text.len > BufferSize)
  <2>1. /\ onion' = [onion EXCEPT !.payload = cipher, !.tags[layer] = tag]
        /\ layer' = layer - 1 /\ layer' + 1 = layer
        /\ UNCHANGED <<stage, outcome, relays, eiu, peeled, arrival>>
    BY <1>1, <1>4, <1>8
  <2>. HIDE DEF text, cipher, tag
  <2>2. /\ onion'.payload = cipher /\ onion'.layers = onion.layers /\ onion'.hop = onion.hop
        /\ onion'.tags = [onion.tags EXCEPT ![layer] = tag]
        /\ onion' = [payload |-> onion'.payload, layers |-> onion'.layers, hop |-> onion'.hop, tags |-> onion'.tags]
    <3>1. onion = [payload |-> onion.payload, layers |-> onion.layers, hop |-> onion.hop, tags |-> onion.tags]
      BY <1>3 DEF Circuit
    <3>. QED  BY <2>1, <3>1
  <2>3. /\ onion'.tags[layer] = tag
        /\ \A i \in 0 .. MaxRelays - 1 : i # layer => onion'.tags[i] = onion.tags[i]
        /\ onion'.tags = [i \in 0 .. MaxRelays - 1 |-> onion'.tags[i]]
    <3>1. layer \in 0 .. MaxRelays - 1
      BY <1>4
    <3>2. onion.tags = [i \in 0 .. MaxRelays - 1 |-> onion.tags[i]]
      BY <1>3 DEF Circuit
    <3>. QED  BY <2>2, <3>1, <3>2
  <2>4. Circuit'
    BY <1>3, <2>1, <2>2, <2>3 DEF Circuit
  <2>5. \A i \in layer + 1 .. relays : PacketAt(i)' = PacketAt(i)
    <3>1. ASSUME NEW i \in layer + 1 .. relays, i # relays
          PROVE  onion'.tags[i] = onion.tags[i]
      <4>1. i \in 0 .. MaxRelays - 1 /\ i # layer
        BY <1>4, <3>1
      <4>. QED  BY <2>3, <4>1
    <3>. QED  BY <2>1, <3>1 DEF PacketAt
  <2>6. tag = TagOf(RelayKey(layer), HopNonce(layer), RelayCap(layer), cipher) /\ tag.of = cipher
    BY DEF tag, TagOf
  <2>7. cipher = Cipher(RelayKey(layer), HopNonce(layer), Layer(layer, PacketAt(layer + 1)))
        /\ cipher.len = LengthAt(layer)
    BY <1>3, <1>6 DEF cipher, text, Cipher
  <2>8. PacketAt(layer + 1)' = cipher
    <3>1. layer' + 1 = layer /\ layer # relays /\ relays' = relays
      BY <1>4, <2>1
    <3>. QED  BY <2>3, <2>6, <3>1 DEF PacketAt
  <2>9. \A i \in Int : LengthAt(i)' = LengthAt(i)
    BY <2>1 DEF LengthAt
  <2>10. \A i \in 0 .. relays : \A p : Layer(i, p)' = Layer(i, p)
    BY <2>1 DEF Layer
  <2>. HIDE DEF cipher, tag
  <2>11. ASSUME NEW i \in layer' + 1 .. relays' - 1
         PROVE  Wrapped(i)'
    <3>1. i \in layer .. relays - 1 /\ i \in 0 .. relays /\ i + 1 \in layer + 1 .. relays /\ i \in Int
      BY <1>4, <2>1
    <3>2. PacketAt(i + 1)' = PacketAt(i + 1)
      BY <2>5, <3>1
    <3>3. CASE i = layer
      <4>1. onion'.tags[i] = TagOf(RelayKey(i), HopNonce(i), RelayCap(i),
                                   Cipher(RelayKey(i), HopNonce(i), Layer(i, PacketAt(i + 1))))
        BY <2>3, <2>6, <2>7, <3>3
      <4>2. PacketAt(i)' = cipher
        BY <1>4, <2>1, <2>3, <2>6, <3>3 DEF PacketAt
      <4>3. PacketAt(i)'.len = LengthAt(i)'
        BY <2>7, <2>9, <3>1, <3>3, <4>2
      <4>. QED  BY <2>1, <2>10, <3>1, <3>2, <4>1, <4>3 DEF Wrapped, Layer
    <3>4. CASE i # layer
      <4>1. i \in layer + 1 .. relays - 1 /\ i \in layer + 1 .. relays /\ i \in 0 .. MaxRelays - 1
        BY <1>4, <3>1, <3>4
      <4>2. Wrapped(i) /\ onion'.tags[i] = onion.tags[i] /\ PacketAt(i)' = PacketAt(i)
        BY <1>3, <2>3, <2>5, <3>4, <4>1
      <4>. QED  BY <2>1, <2>9, <3>1, <3>2, <4>2 DEF Wrapped, Layer
    <3>. QED  BY <3>3, <3>4
  <2>12. PacketAt(layer + 1)' = cipher /\ LengthAt(layer + 1)' = LengthAt(layer)
    <3>1. LengthAt(layer + 1)' = LengthAt(layer)
      BY <2>1 DEF LengthAt
    <3>. QED  BY <2>8, <3>1
  <2>13. layer' \in -1 .. relays' - 1 /\ LengthAt(layer) <= BufferSize
    BY <1>4, <1>5, <1>6, <1>8, <2>1 DEF text
  <2>14. Wrapping'
    BY <1>3, <2>1, <2>2, <2>4, <2>7, <2>11, <2>12, <2>13 DEF Wrapping
  <2>. QED  BY <1>1, <2>1, <2>14 DEF CircuitInv, AtStart, Travelling, Ended
<1>. QED  BY <1>7, <1>8

\* The packet moves, and no layer of it changes.
LEMMA LayersStay ==
  ASSUME Circuit, \A i \in 0 .. relays - 1 : Wrapped(i), UNCHANGED <<relays, eiu>>,
         NEW p, NEW h, onion' = [onion EXCEPT !.hop = h, !.payload = p]
  PROVE  /\ Circuit' /\ \A i \in 0 .. relays - 1 : Wrapped(i)'
         /\ \A i \in 0 .. relays : PacketAt(i)' = PacketAt(i)
         /\ LengthAt(0)' = LengthAt(0)
         /\ onion'.hop = h /\ onion'.payload = p
<1>1. onion = [payload |-> onion.payload, layers |-> onion.layers, hop |-> onion.hop, tags |-> onion.tags]
  BY DEF Circuit
<1>2. /\ onion'.payload = p /\ onion'.hop = h /\ onion'.layers = onion.layers /\ onion'.tags = onion.tags
      /\ onion' = [payload |-> onion'.payload, layers |-> onion'.layers, hop |-> onion'.hop, tags |-> onion'.tags]
  BY <1>1
<1>3. Circuit'
  BY <1>2 DEF Circuit
<1>4. \A i : PacketAt(i)' = PacketAt(i) /\ LengthAt(i)' = LengthAt(i)
  BY <1>2 DEF PacketAt, LengthAt
<1>5. \A i, q : Layer(i, q)' = Layer(i, q)
  BY DEF Layer
<1>6. ASSUME NEW i \in 0 .. relays - 1
      PROVE  Wrapped(i)'
  <2>1. PacketAt(i + 1)' = PacketAt(i + 1)
    BY <1>4
  <2>. QED  BY <1>2, <1>4, <2>1 DEF Wrapped, Layer
<1>. QED  BY <1>2, <1>3, <1>4, <1>6

LEMMA WrapDoneKeeps ==
  ASSUME CircuitInv, WrapDone
  PROVE  CircuitInv'
<1>1. /\ stage = "wrap" /\ layer < 0 /\ layer' = 0 /\ stage' = "hop"
      /\ UNCHANGED <<relays, eiu, peeled, arrival, outcome>>
      /\ onion' = [onion EXCEPT !.hop = 0]
  BY DEF WrapDone
<1>2. /\ Circuit /\ layer \in -1 .. relays - 1
      /\ peeled = <<>> /\ arrival = Nothing /\ outcome = Running
      /\ onion.payload = PacketAt(layer + 1) /\ LengthAt(layer + 1) <= BufferSize
      /\ \A i \in layer + 1 .. relays - 1 : Wrapped(i)
  BY <1>1 DEF CircuitInv, Wrapping
<1>3. relays \in Nat
  BY <1>2, SimulationNumbers DEF Circuit
<1>4. layer + 1 = 0
  BY <1>1, <1>2, <1>3
<1>5. onion.payload = PacketAt(0) /\ LengthAt(0) <= BufferSize /\ \A i \in 0 .. relays - 1 : Wrapped(i)
  BY <1>2, <1>4
<1>6. onion' = [onion EXCEPT !.hop = 0, !.payload = onion.payload]
  <2>1. onion = [payload |-> onion.payload, layers |-> onion.layers, hop |-> onion.hop, tags |-> onion.tags]
    BY <1>2 DEF Circuit
  <2>. QED  BY <1>1, <2>1
<1>7. /\ Circuit' /\ \A i \in 0 .. relays - 1 : Wrapped(i)'
      /\ \A i \in 0 .. relays : PacketAt(i)' = PacketAt(i)
      /\ LengthAt(0)' = LengthAt(0) /\ onion'.hop = 0 /\ onion'.payload = onion.payload
  BY <1>1, <1>2, <1>5, <1>6, LayersStay
<1>8. Shown' = 0 /\ layer' \in 0 .. relays'
  BY <1>1, <1>3 DEF Shown
<1>9. onion'.payload = PacketAt(0)' /\ 0 \in 0 .. relays
  BY <1>3, <1>5, <1>7
<1>10. peeled' = Walk(0)' /\ arrival' = Nothing /\ outcome' = Running
  BY <1>1, <1>2 DEF Walk
<1>11. ~ (layer' = relays' /\ relays' # 0)
  BY <1>1
<1>12. onion'.payload = PacketAt(Shown)'
  BY <1>8, <1>9 DEF PacketAt
<1>13. peeled' = Walk(layer)'
  BY <1>1, <1>10 DEF Walk
<1>14. Travelling'
  BY <1>1, <1>5, <1>7, <1>8, <1>10, <1>11, <1>12, <1>13 DEF Travelling
<1>. QED  BY <1>1, <1>14 DEF CircuitInv, AtStart, Wrapping, Ended

\* One more relay has peeled.
LEMMA PathGrows ==
  ASSUME NEW n \in Nat
  PROVE  Append(Walk(n), [relay |-> n, next |-> IF n + 1 = relays THEN NoHop ELSE n + 1]) = Walk(n + 1)
<1>. DEFINE at(i) == [relay |-> i - 1, next |-> IF i = relays THEN NoHop ELSE i]
<1>1. at(n + 1) = [relay |-> n, next |-> IF n + 1 = relays THEN NoHop ELSE n + 1]
  BY (n + 1) - 1 = n
<1>2. Walk(n) = [i \in 1 .. n |-> at(i)] /\ Walk(n + 1) = [i \in 1 .. n + 1 |-> at(i)]
  BY DEF Walk
<1>. HIDE DEF at
<1>3. Append([i \in 1 .. n |-> at(i)], at(n + 1)) = [i \in 1 .. n + 1 |-> at(i)]
  OBVIOUS
<1>. QED  BY <1>1, <1>2, <1>3

\* The relay whose turn it is finds its layer intact.
LEMMA LayerOpens ==
  ASSUME Travelling, stage = "hop", layer < relays
  PROVE  /\ layer \in 0 .. relays - 1
         /\ Unwrap(layer, onion) = <<Layer(layer, PacketAt(layer + 1))>>
<1>1. /\ Circuit /\ layer \in 0 .. relays /\ LengthAt(0) <= BufferSize
      /\ \A i \in 0 .. relays - 1 : Wrapped(i)
      /\ onion.payload = PacketAt(Shown) /\ onion.hop = layer /\ onion.layers = relays
  BY DEF Travelling, Circuit
<1>2. relays \in Nat /\ layer \in Nat /\ layer \in 0 .. relays - 1 /\ eiu.len \in Nat /\ layer # relays
  BY <1>1, SimulationNumbers DEF Circuit
<1>3. Wrapped(layer) /\ onion.payload = PacketAt(layer)
  BY <1>1, <1>2 DEF Shown
<1>. DEFINE text == Layer(layer, PacketAt(layer + 1))
            sealed == Cipher(RelayKey(layer), HopNonce(layer), text)
<1>4. onion.tags[layer] = TagOf(RelayKey(layer), HopNonce(layer), RelayCap(layer), sealed)
  BY <1>3 DEF Wrapped
<1>. HIDE DEF text
<1>5. onion.tags[layer].of = sealed
  BY <1>4 DEF TagOf
<1>6. onion.payload = sealed
  BY <1>2, <1>3, <1>5 DEF PacketAt
<1>7. sealed.is = <<RelayKey(layer), HopNonce(layer), text>>
  BY DEF Cipher
<1>8. sealed.len = LengthAt(layer)
  BY <1>3, <1>6 DEF Wrapped
<1>. HIDE DEF sealed
<1>9. LayerHeader <= LengthAt(layer) /\ LengthAt(layer) \in Nat
  BY <1>1, <1>2, LayersAdd DEF LengthAt
<1>10. ~ (sealed.len < LayerHeader \/ onion.hop >= onion.layers)
  BY <1>1, <1>2, <1>8, <1>9, SimulationNumbers
<1>11. sealed.is[1] = RelayKey(layer) /\ sealed.is[2] = HopNonce(layer) /\ sealed.is[3] = text
  BY <1>7
<1>12. Unwrap(layer, onion) = <<text>>
  BY <1>1, <1>4, <1>6, <1>10, <1>11 DEF Unwrap, sealed
<1>. QED  BY <1>2, <1>12 DEF text

LEMMA HopKeeps ==
  ASSUME CircuitInv, Hop
  PROVE  CircuitInv'
<1>. DEFINE text == Layer(layer, PacketAt(layer + 1))
<1>1. stage = "hop" /\ layer < relays /\ UNCHANGED <<relays, eiu, filter, checks>>
  BY DEF Hop
<1>2. Travelling
  BY DEF CircuitInv
<1>3. /\ Circuit /\ layer \in 0 .. relays - 1 /\ LengthAt(0) <= BufferSize
      /\ \A i \in 0 .. relays - 1 : Wrapped(i)
      /\ peeled = Walk(layer) /\ onion.hop = layer /\ outcome = Running
      /\ arrival = IF layer = relays /\ relays # 0 THEN eiu ELSE Nothing
      /\ onion.payload = PacketAt(Shown)
  BY <1>1, <1>2, LayerOpens DEF Travelling
<1>4. relays \in Nat /\ layer \in Nat /\ layer + 1 \in 0 .. relays /\ layer # relays
  BY <1>3, SimulationNumbers DEF Circuit
<1>5. Unwrap(layer, onion) = <<text>>
  BY <1>1, <1>2, LayerOpens
<1>6. /\ text.cap = RelayCap(layer) /\ text.inner = PacketAt(layer + 1)
      /\ text.next = IF layer = relays - 1 THEN NoHop ELSE layer + 1
  BY DEF Layer
<1>7. text.next = NoHop <=> layer + 1 = relays
  BY <1>4, <1>6 DEF NoHop
<1>8. text.next = NoHop => text.inner = eiu
  BY <1>6, <1>7 DEF PacketAt
<1>9. arrival = Nothing
  BY <1>3, <1>4
<1>10. /\ peeled' = Append(peeled, [relay |-> layer, next |-> text.next])
       /\ IF text.next = NoHop
          THEN arrival' = text.inner /\ UNCHANGED onion
          ELSE /\ onion' = [onion EXCEPT !.hop = @ + 1, !.payload = text.inner]
               /\ UNCHANGED arrival
       /\ layer' = layer + 1
       /\ UNCHANGED <<stage, outcome>>
  <2>. HIDE DEF text
  <2>1. <<text>> # <<>> /\ <<text>>[1] = text
    OBVIOUS
  <2>. QED  BY <1>5, <1>6, <1>8, <2>1 DEF Hop
<1>11. peeled' = Walk(layer + 1)
  <2>1. text.next = IF layer + 1 = relays THEN NoHop ELSE layer + 1
    BY <1>4, <1>6
  <2>. QED  BY <1>3, <1>4, <1>10, <2>1, PathGrows
<1>12. peeled' = Walk(layer)'
  BY <1>1, <1>10, <1>11 DEF Walk
<1>. HIDE DEF text
<1>13. CASE layer + 1 = relays
  <2>1. text.next = NoHop /\ arrival' = eiu /\ UNCHANGED onion
    BY <1>7, <1>8, <1>10, <1>13
  <2>2. onion' = [onion EXCEPT !.hop = onion.hop, !.payload = onion.payload]
    <3>1. onion = [payload |-> onion.payload, layers |-> onion.layers, hop |-> onion.hop, tags |-> onion.tags]
      BY <1>3 DEF Circuit
    <3>. QED  BY <2>1, <3>1
  <2>3. /\ Circuit' /\ \A i \in 0 .. relays - 1 : Wrapped(i)'
        /\ \A i \in 0 .. relays : PacketAt(i)' = PacketAt(i)
        /\ LengthAt(0)' = LengthAt(0) /\ onion'.payload = onion.payload
    BY <1>1, <1>3, <2>2, LayersStay
  <2>4. layer' = relays' /\ relays' # 0 /\ layer' \in 0 .. relays'
    BY <1>1, <1>4, <1>10, <1>13
  <2>5. Shown' = Shown
    <3>1. Shown = layer /\ Shown' = relays' - 1
      BY <1>4, <2>4 DEF Shown
    <3>. QED  BY <1>1, <1>4, <1>13, <3>1
  <2>6. PacketAt(Shown)' = PacketAt(Shown)
    BY <1>1, <2>1, <2>5 DEF PacketAt
  <2>7. Travelling'
    BY <1>1, <1>3, <1>10, <1>12, <2>1, <2>3, <2>4, <2>6 DEF Travelling
  <2>. QED  BY <1>1, <1>10, <2>7 DEF CircuitInv, AtStart, Wrapping, Ended
<1>14. CASE layer + 1 # relays
  <2>1. onion' = [onion EXCEPT !.hop = layer + 1, !.payload = text.inner] /\ arrival' = Nothing
    BY <1>3, <1>7, <1>9, <1>10, <1>14
  <2>2. /\ Circuit' /\ \A i \in 0 .. relays - 1 : Wrapped(i)'
        /\ \A i \in 0 .. relays : PacketAt(i)' = PacketAt(i)
        /\ LengthAt(0)' = LengthAt(0) /\ onion'.hop = layer + 1 /\ onion'.payload = text.inner
    BY <1>1, <1>3, <2>1, LayersStay
  <2>3. layer' = layer + 1 /\ layer' \in 0 .. relays' /\ layer' # relays'
    BY <1>1, <1>4, <1>10, <1>14
  <2>4. Shown' = layer'
    BY <2>3 DEF Shown
  <2>5. onion'.tags = onion.tags
    <3>1. onion = [payload |-> onion.payload, layers |-> onion.layers, hop |-> onion.hop, tags |-> onion.tags]
      BY <1>3 DEF Circuit
    <3>. QED  BY <2>1, <3>1
  <2>6. PacketAt(Shown)' = PacketAt(layer + 1)
    BY <1>1, <2>3, <2>4, <2>5 DEF PacketAt
  <2>7. onion'.payload = PacketAt(Shown)'
    BY <1>6, <2>2, <2>6
  <2>8. Travelling'
    BY <1>1, <1>3, <1>10, <1>12, <2>1, <2>2, <2>3, <2>7 DEF Travelling
  <2>. QED  BY <1>1, <1>10, <2>8 DEF CircuitInv, AtStart, Wrapping, Ended
<1>. QED  BY <1>13, <1>14

LEMMA SimulationEndKeeps ==
  ASSUME CircuitInv, SimulationEnd
  PROVE  CircuitInv'
<1>1. /\ stage = "hop" /\ layer = relays /\ stage' = "done" /\ outcome' = 0
      /\ UNCHANGED <<relays, eiu, layer, onion, peeled, arrival>>
  BY DEF SimulationEnd
<1>2. /\ Circuit /\ LengthAt(0) <= BufferSize /\ peeled = Walk(relays)
      /\ arrival = IF relays = 0 THEN Nothing ELSE eiu
  BY <1>1 DEF CircuitInv, Travelling
<1>3. relays \in 0 .. MaxRelays /\ relays \in -1 .. MaxRelays /\ eiu.len \in Nat
  BY <1>2, SimulationNumbers DEF Circuit
<1>4. LengthAt(0)' = LengthAt(0) /\ Walk(relays)' = Walk(relays)
  BY <1>1 DEF LengthAt, Walk
<1>5. Ended'
  BY <1>1, <1>2, <1>3, <1>4 DEF Ended
<1>. QED  BY <1>1, <1>5 DEF CircuitInv, AtStart, Wrapping, Travelling

LEMMA CircuitRests ==
  ASSUME CircuitInv, UNCHANGED <<relays, eiu, stage, layer, onion, peeled, arrival, outcome>>
  PROVE  CircuitInv'
BY DEF CircuitInv, AtStart, Wrapping, Travelling, Ended, Circuit, Wrapped, PacketAt, LengthAt, Layer, Walk, Shown

-----------------------------------------------------------------------------
Check == [nonce : Nonces, replay : BOOLEAN]
Slots == {SlotOf[n] : n \in Nonces}

\* The checks among the first n of cs whose nonces go to slot s.
Of(cs, s, n) == {j \in 1 .. n : SlotOf[cs[j].nonce] = s}

\* A slot holds the nonce that was checked last of those that go there.
Holds(nonce, cs, of) ==
  IF of = {} THEN nonce = FreeSlot
  ELSE Max(of) \in of /\ (\A j \in of : j <= Max(of)) /\ nonce = cs[Max(of)].nonce

Filtered ==
  /\ checks \in Seq(Check) /\ Len(checks) <= MaxChecks
  /\ filter = [s \in Slots |-> filter[s]]
  /\ \A s \in Slots : Holds(filter[s], checks, Of(checks, s, Len(checks)))

Remembers(cs, i) ==
  LET same == Of(cs, SlotOf[cs[i].nonce], i - 1) IN
  /\ same # {} => Max(same) \in same
  /\ cs[i].replay <=> same # {} /\ cs[Max(same)].nonce = cs[i].nonce

FilterInv == Filtered /\ \A i \in DOMAIN checks : Remembers(checks, i)

LEMMA MaxIs ==
  ASSUME NEW S \in SUBSET Int, NEW m \in S, \A y \in S : y <= m
  PROVE  Max(S) = m
<1>1. Max(S) \in S /\ \A y \in S : Max(S) >= y
  BY DEF Max
<1>2. Max(S) \in Int /\ m \in Int
  BY <1>1
<1>. QED  BY <1>1, <1>2

LEMMA FilterChecked ==
  ASSUME FilterInv, NEW n \in Nonces, FilterCheck(n)
  PROVE  FilterInv'
<1>. DEFINE N == Len(checks)
            t == SlotOf[n]
            c == [nonce |-> n, replay |-> filter[t] = n]
<1>1. /\ checks \in Seq(Check) /\ N \in Nat /\ N < MaxChecks /\ MaxChecks \in Nat
      /\ filter' = [filter EXCEPT ![t] = n] /\ checks' = Append(checks, c)
      /\ filter = [s \in Slots |-> filter[s]] /\ t \in Slots
      /\ \A i \in DOMAIN checks : Remembers(checks, i)
  BY SimulationNumbers DEF FilterInv, Filtered, FilterCheck, Slots
<1>2. c \in Check
  BY DEF Check
<1>. HIDE DEF c
<1>3. /\ checks' \in Seq(Check) /\ Len(checks') = N + 1
      /\ DOMAIN checks = 1 .. N /\ DOMAIN checks' = 1 .. N + 1
      /\ \A j \in 1 .. N : checks'[j] = checks[j]
      /\ checks'[N + 1] = c
  BY <1>1, <1>2
<1>4. c.nonce = n /\ c.replay = (filter[t] = n)
  BY DEF c
<1>5. Len(checks') <= MaxChecks
  BY <1>1, <1>3
<1>6. filter' = [s \in Slots |-> filter'[s]] /\ filter'[t] = n
      /\ \A s \in Slots : s # t => filter'[s] = filter[s]
  BY <1>1
<1>. HIDE DEF N
<1>7. ASSUME NEW s, NEW k \in 0 .. N
      PROVE  Of(checks', s, k) = Of(checks, s, k)
  <2>1. \A j \in 1 .. k : checks'[j] = checks[j]
    BY <1>1, <1>3
  <2>. QED  BY <2>1 DEF Of
<1>8. ASSUME NEW s \in Slots, s # t
      PROVE  Of(checks', s, N + 1) = Of(checks, s, N)
  <2>1. \A j \in 1 .. N : checks'[j].nonce = checks[j].nonce
    BY <1>3
  <2>2. SlotOf[checks'[N + 1].nonce] # s
    BY <1>3, <1>4, <1>8 DEF t
  <2>3. 1 .. N + 1 = (1 .. N) \cup {N + 1}
    BY <1>1
  <2>. QED  BY <2>1, <2>2, <2>3 DEF Of
<1>9. /\ N + 1 \in Of(checks', t, N + 1) /\ Of(checks', t, N + 1) \subseteq 1 .. N + 1
      /\ Max(Of(checks', t, N + 1)) = N + 1
  <2>1. N + 1 \in Of(checks', t, N + 1) /\ Of(checks', t, N + 1) \subseteq 1 .. N + 1
    BY <1>1, <1>3, <1>4 DEF Of, t
  <2>2. /\ \A y \in Of(checks', t, N + 1) : y <= N + 1
        /\ Of(checks', t, N + 1) \in SUBSET Int
    BY <1>1, <2>1
  <2>. QED  BY <2>1, <2>2, MaxIs
<1>10. Holds(filter'[t], checks', Of(checks', t, N + 1))
  <2>1. /\ Of(checks', t, N + 1) # {} /\ \A j \in Of(checks', t, N + 1) : j <= N + 1
    BY <1>1, <1>9
  <2>. QED  BY <1>3, <1>4, <1>6, <1>9, <2>1 DEF Holds
<1>11. ASSUME NEW s \in Slots, s # t
       PROVE  Holds(filter'[s], checks', Of(checks', s, N + 1))
  <2>. DEFINE of == Of(checks, s, N)
  <2>1. Holds(filter[s], checks, of) /\ of \subseteq 1 .. N
    BY DEF FilterInv, Filtered, Of, N
  <2>2. Of(checks', s, N + 1) = of /\ filter'[s] = filter[s]
    BY <1>6, <1>8, <1>11
  <2>3. \A j \in of : checks'[j] = checks[j]
    BY <1>3, <2>1
  <2>. HIDE DEF of
  <2>. QED  BY <2>1, <2>2, <2>3 DEF Holds
<1>12. Filtered'
  <2>1. \A s \in Slots : Holds(filter'[s], checks', Of(checks', s, N + 1))
    BY <1>10, <1>11
  <2>. QED  BY <1>3, <1>5, <1>6, <2>1 DEF Filtered, Slots
<1>13. ASSUME NEW i \in 1 .. N
       PROVE  Remembers(checks', i)
  <2>. DEFINE same == Of(checks, SlotOf[checks[i].nonce], i - 1)
  <2>1. Remembers(checks, i) /\ i - 1 \in 0 .. N /\ checks'[i] = checks[i]
    BY <1>1, <1>3
  <2>2. Of(checks', SlotOf[checks'[i].nonce], i - 1) = same
    BY <1>7, <2>1
  <2>3. same # {} => Max(same) \in same /\ checks'[Max(same)] = checks[Max(same)]
    BY <1>1, <1>3, <2>1 DEF Remembers, Of
  <2>. HIDE DEF same
  <2>4. /\ same # {} => Max(same) \in same
        /\ checks[i].replay <=> same # {} /\ checks[Max(same)].nonce = checks[i].nonce
    BY <2>1 DEF Remembers, same
  <2>5. checks'[i].replay <=> same # {} /\ checks'[Max(same)].nonce = checks'[i].nonce
    BY <2>1, <2>3, <2>4
  <2>. QED  BY <2>2, <2>4, <2>5 DEF Remembers
<1>14. Remembers(checks', N + 1)
  <2>. DEFINE of == Of(checks, t, N)
  <2>1. Of(checks', SlotOf[checks'[N + 1].nonce], (N + 1) - 1) = of
    <3>1. SlotOf[checks'[N + 1].nonce] = t /\ (N + 1) - 1 = N /\ N \in 0 .. N
      BY <1>1, <1>3, <1>4 DEF t
    <3>. QED  BY <1>7, <3>1
  <2>2. Holds(filter[t], checks, of) /\ of \subseteq 1 .. N
    BY <1>1 DEF FilterInv, Filtered, Of, N
  <2>3. n # FreeSlot
    BY SimulationAssumption DEF FreeSlot
  <2>. HIDE DEF of
  <2>4. of # {} => Max(of) \in of /\ checks'[Max(of)] = checks[Max(of)]
    BY <1>3, <2>2 DEF Holds
  <2>5. filter[t] = n <=> of # {} /\ checks[Max(of)].nonce = n
    BY <2>2, <2>3 DEF Holds
  <2>6. checks'[N + 1].replay <=> of # {} /\ checks'[Max(of)].nonce = checks'[N + 1].nonce
    BY <1>3, <1>4, <2>4, <2>5
  <2>. QED  BY <2>1, <2>4, <2>6 DEF Remembers
<1>15. \A i \in DOMAIN checks' : Remembers(checks', i)
  <2>1. 1 .. N + 1 = (1 .. N) \cup {N + 1}
    BY <1>1
  <2>. QED  BY <1>3, <1>13, <1>14, <2>1
<1>. QED  BY <1>12, <1>15 DEF FilterInv

LEMMA FilterRests ==
  ASSUME FilterInv, UNCHANGED <<filter, checks>>
  PROVE  FilterInv'
BY DEF FilterInv, Filtered

LEMMA SimulationHolds == SimulationSpec => [](CircuitInv /\ FilterInv)
<1>1. SimulationInit => CircuitInv /\ FilterInv
  <2>. SUFFICES ASSUME SimulationInit PROVE CircuitInv /\ FilterInv
    OBVIOUS
  <2>1. CircuitInv
    BY DEF SimulationInit, CircuitInv, AtStart, Wrapping, Travelling, Ended
  <2>2. checks = <<>> /\ checks \in Seq(Check) /\ Len(checks) = 0 /\ DOMAIN checks = {}
    BY DEF SimulationInit
  <2>3. filter = [s \in Slots |-> FreeSlot]
    BY DEF SimulationInit, Slots
  <2>4. \A s \in Slots : Of(checks, s, Len(checks)) = {}
    BY <2>2 DEF Of
  <2>5. \A s \in Slots : Holds(filter[s], checks, Of(checks, s, Len(checks)))
    BY <2>3, <2>4 DEF Holds
  <2>6. FilterInv
    BY <2>2, <2>3, <2>5, SimulationNumbers DEF FilterInv, Filtered
  <2>. QED  BY <2>1, <2>6
<1>2. CircuitInv /\ FilterInv /\ [SimulationNext]_simulation => CircuitInv' /\ FilterInv'
  <2>. SUFFICES ASSUME CircuitInv, FilterInv, [SimulationNext]_simulation
                PROVE  CircuitInv' /\ FilterInv'
    OBVIOUS
  <2>1. CASE \E n \in RelayArguments, length \in EiuLengths : CircuitInit(n, length)
    <3>1. UNCHANGED <<filter, checks>>
      BY <2>1 DEF CircuitInit
    <3>. QED  BY <2>1, <3>1, CircuitInitKeeps, FilterRests
  <2>2. CASE WrapLayer
    <3>1. UNCHANGED <<filter, checks>>
      BY <2>2 DEF WrapLayer
    <3>. QED  BY <2>2, <3>1, WrapLayerKeeps, FilterRests
  <2>3. CASE WrapDone
    <3>1. UNCHANGED <<filter, checks>>
      BY <2>3 DEF WrapDone
    <3>. QED  BY <2>3, <3>1, WrapDoneKeeps, FilterRests
  <2>4. CASE Hop
    <3>1. UNCHANGED <<filter, checks>>
      BY <2>4 DEF Hop
    <3>. QED  BY <2>4, <3>1, HopKeeps, FilterRests
  <2>5. CASE SimulationEnd
    <3>1. UNCHANGED <<filter, checks>>
      BY <2>5 DEF SimulationEnd
    <3>. QED  BY <2>5, <3>1, SimulationEndKeeps, FilterRests
  <2>6. CASE \E n \in Nonces : FilterCheck(n)
    <3>1. UNCHANGED <<relays, eiu, stage, layer, onion, peeled, arrival, outcome>>
      BY <2>6 DEF FilterCheck
    <3>. QED  BY <2>6, <3>1, CircuitRests, FilterChecked
  <2>7. CASE UNCHANGED simulation
    <3>1. UNCHANGED <<relays, eiu, stage, layer, onion, peeled, arrival, outcome>> /\ UNCHANGED <<filter, checks>>
      BY <2>7 DEF simulation
    <3>. QED  BY <3>1, CircuitRests, FilterRests
  <2>. QED  BY <2>1, <2>2, <2>3, <2>4, <2>5, <2>6, <2>7 DEF SimulationNext, SimulationOver
<1>. QED  BY <1>1, <1>2, PTL DEF SimulationSpec

LEMMA PathLength ==
  ASSUME NEW n \in Nat
  PROVE  Len(Walk(n)) = n
BY DEF Walk

LEMMA PacketsFit ==
  ASSUME CircuitInv, stage \in {"wrap", "hop"}
  PROVE  onion.payload.len \in 0 .. BufferSize
<1>1. CASE stage = "wrap"
  <2>1. /\ layer + 1 \in 0 .. relays /\ relays \in Nat /\ eiu.len \in Nat /\ BufferSize \in Nat
        /\ onion.payload.len = LengthAt(layer + 1) /\ LengthAt(layer + 1) <= BufferSize
    BY <1>1, SimulationNumbers DEF CircuitInv, Wrapping, Circuit
  <2>2. LengthAt(layer + 1) \in Nat
    BY <2>1, LayersAdd DEF LengthAt
  <2>. QED  BY <2>1, <2>2
<1>2. CASE stage = "hop"
  <2>1. /\ Circuit /\ layer \in 0 .. relays /\ LengthAt(0) <= BufferSize
        /\ \A i \in 0 .. relays - 1 : Wrapped(i)
        /\ onion.payload = PacketAt(Shown)
    BY <1>2 DEF CircuitInv, Travelling
  <2>2. relays \in Nat /\ eiu.len \in Nat /\ BufferSize \in Nat
    BY <2>1, SimulationNumbers DEF Circuit
  <2>3. Shown \in 0 .. relays /\ 0 \in 0 .. relays
    BY <2>1, <2>2 DEF Shown
  <2>4. LengthAt(Shown) \in Nat /\ LengthAt(Shown) <= LengthAt(0) /\ LengthAt(0) \in Nat /\ eiu.len <= LengthAt(0)
    BY <2>2, <2>3, LayersAdd DEF LengthAt
  <2>5. CASE Shown = relays
    <3>1. onion.payload.len = eiu.len
      BY <2>1, <2>5 DEF PacketAt
    <3>. QED  BY <2>1, <2>2, <2>4, <3>1
  <2>6. CASE Shown # relays
    <3>1. Shown \in 0 .. relays - 1
      BY <2>2, <2>3, <2>6
    <3>2. PacketAt(Shown).len = LengthAt(Shown)
      BY <2>1, <3>1 DEF Wrapped
    <3>. QED  BY <2>1, <2>2, <2>4, <3>2
  <2>. QED  BY <2>5, <2>6
<1>. QED  BY <1>1, <1>2

\* Every layer that onion_wrap seals, and every packet a relay holds, is within
\* its buffer, and no relay peels twice (onion.c's packets are of a fixed size).
THEOREM PacketsStayInTheirBuffer == SimulationSpec => []SimulationTypes
<1>1. CircuitInv /\ FilterInv => SimulationTypes
  <2>. SUFFICES ASSUME CircuitInv, FilterInv PROVE SimulationTypes
    OBVIOUS
  <2>1. stage \in {"init", "wrap", "hop", "done"}
    BY DEF CircuitInv
  <2>2. MaxRelays \in Nat
    BY SimulationNumbers
  <2>3. /\ relays \in 0 .. MaxRelays /\ layer \in -1 .. MaxRelays
        /\ outcome \in {-1, 0, Running} /\ Len(peeled) <= relays
    <3>1. CASE stage = "init"
      BY <2>2, <3>1 DEF CircuitInv, AtStart
    <3>2. CASE stage = "wrap"
      <4>1. Circuit /\ layer \in -1 .. relays - 1 /\ peeled = <<>> /\ outcome = Running
        BY <3>2 DEF CircuitInv, Wrapping
      <4>2. relays \in 0 .. MaxRelays
        BY <4>1 DEF Circuit
      <4>. QED  BY <2>2, <4>1, <4>2
    <3>3. CASE stage = "hop"
      <4>1. Circuit /\ layer \in 0 .. relays /\ peeled = Walk(layer) /\ outcome = Running
        BY <3>3 DEF CircuitInv, Travelling
      <4>2. relays \in 0 .. MaxRelays /\ layer \in Nat
        BY <2>2, <4>1 DEF Circuit
      <4>3. Len(peeled) = layer
        BY <4>1, <4>2, PathLength
      <4>. QED  BY <2>2, <4>1, <4>2, <4>3
    <3>4. CASE stage = "done"
      <4>1. /\ relays \in 0 .. MaxRelays /\ layer \in -1 .. MaxRelays /\ outcome \in {-1, 0}
            /\ peeled = <<>> \/ peeled = Walk(relays)
        BY <3>4 DEF CircuitInv, Ended
      <4>2. relays \in Nat
        BY <2>2, <4>1
      <4>3. Len(Walk(relays)) = relays /\ Len(<<>>) = 0
        BY <4>2, PathLength
      <4>. QED  BY <4>1, <4>2, <4>3
    <3>. QED  BY <2>1, <3>1, <3>2, <3>3, <3>4
  <2>4. Len(checks) <= MaxChecks
    BY DEF FilterInv, Filtered
  <2>. QED  BY <2>1, <2>3, <2>4, PacketsFit DEF SimulationTypes
<1>. QED  BY <1>1, SimulationHolds, PTL

\* onion_simulate succeeds exactly if a layer for every relay fits, and then
\* every relay of the path has peeled its own; replay_filter_check knows what
\* was last asked about in each slot. For every number of relays, payload,
\* nonce and hash.
THEOREM PayloadsArriveLayerByLayer == SimulationSpec => []SimulationDelivers
<1>1. CircuitInv /\ FilterInv => SimulationDelivers
  <2>. SUFFICES ASSUME CircuitInv, FilterInv PROVE SimulationDelivers
    OBVIOUS
  <2>1. ASSUME stage = "done"
        PROVE  /\ outcome = 0 <=> eiu.len + LayerHeader * relays <= BufferSize
               /\ outcome = 0 =>
                    /\ peeled = [n \in 1 .. relays |->
                                   [relay |-> n - 1, next |-> IF n = relays THEN NoHop ELSE n]]
                    /\ arrival = IF relays = 0 THEN Nothing ELSE eiu
    <3>1. /\ relays \in 0 .. MaxRelays /\ eiu.len \in Nat
          /\ \/ outcome = -1 /\ LengthAt(0) > BufferSize
             \/ /\ outcome = 0 /\ LengthAt(0) <= BufferSize /\ peeled = Walk(relays)
                /\ arrival = IF relays = 0 THEN Nothing ELSE eiu
      BY <2>1 DEF CircuitInv, Ended
    <3>2. relays \in Nat /\ BufferSize \in Nat /\ LayerHeader \in Nat
      BY <3>1, SimulationNumbers
    <3>3. LengthAt(0) = eiu.len + LayerHeader * relays /\ LengthAt(0) \in Nat
      <4>1. relays - 0 = relays /\ 0 \in 0 .. relays
        BY <3>2
      <4>. QED  BY <3>1, <3>2, <4>1, LayersAdd DEF LengthAt
    <3>4. outcome = 0 <=> LengthAt(0) <= BufferSize
      <4>. HIDE DEF LengthAt
      <4>. QED  BY <3>1, <3>2, <3>3
    <3>. QED  BY <3>1, <3>3, <3>4 DEF Walk
  <2>2. ASSUME NEW i \in DOMAIN checks
        PROVE  LET same == {j \in 1 .. i - 1 : SlotOf[checks[j].nonce] = SlotOf[checks[i].nonce]} IN
               checks[i].replay <=> same # {} /\ checks[Max(same)].nonce = checks[i].nonce
    BY DEF FilterInv, Remembers, Of
  <2>. QED  BY <2>1, <2>2 DEF SimulationDelivers
<1>. QED  BY <1>1, SimulationHolds, PTL

-----------------------------------------------------------------------------
(* Frames that hide a length. The bytes on their way are those of the      *)
(* frames, one after the other, from a place c on; all that a reception    *)
(* may rely on is what c is: the end of a frame, until no whole frame is   *)
(* left to come. Frames are never accepted elsewhere, because a sealed     *)
(* byte tells its frame and its place.                                     *)

\* A non-empty set of naturals has a least element.
LEMMA LeastNatural ==
  ASSUME NEW T, T \subseteq Nat, T # {}
  PROVE  \E m \in T : \A k \in T : m <= k
<1>1. PICK m \in T : \A k \in T : ~ (<<k, m>> \in OpToRel(<, Nat))
  BY NatLessThanWellFounded, WFMin
<1>2. \A k \in T : ~ (k < m)
  BY <1>1 DEF OpToRel
<1>. QED  BY <1>2

WireByte == [frame : Nat, part : {"prefix", "sealed"}, at : Nat]

Size(bucket) == PrefixSize + OuterLength(bucket)

LEMMA Sizes ==
  /\ NonceSize \in Nat \ {0} /\ TagSize \in Nat \ {0} /\ InnerHeader \in Nat /\ PrefixSize = 2
  /\ ToSet(Buckets) \subseteq Nat \ {0} /\ Buckets[1] \in Nat \ {0}
  /\ PayloadLengths \subseteq Nat /\ Wrong \subseteq Nat
<1>1. /\ Buckets \in Seq(Nat \ {0}) /\ Len(Buckets) \in Nat /\ Len(Buckets) # 0
  BY PrivFrameAssumption
<1>2. ToSet(Buckets) \subseteq Nat \ {0} /\ Buckets[1] \in Nat \ {0}
  BY <1>1 DEF ToSet
<1>. QED  BY <1>2, PrivFrameAssumption DEF PrefixSize

LEMMA OuterLengths ==
  ASSUME NEW bucket \in Nat
  PROVE  /\ OuterLength(bucket) \in Nat /\ OuterLength(bucket) > 1
         /\ OuterLength(bucket) = NonceSize + bucket + TagSize
         /\ Size(bucket) \in Nat /\ Size(bucket) = 2 + OuterLength(bucket)
BY Sizes DEF OuterLength, Size

LEMMA SizeFacts ==
  ASSUME NEW b \in Nat
  PROVE  Size(b) \in Nat /\ Size(b) >= 3 /\ Size(b) = 2 + OuterLength(b) /\ 3 \in 3 .. Size(b)
BY OuterLengths

LEMMA TwoBefore ==
  ASSUME NEW S, NEW a \in S, NEW b \in S, NEW s \in Seq(S), NEW n \in Nat, Len(s) = n
  PROVE  /\ <<a, b>> \o s \in Seq(S) /\ Len(<<a, b>> \o s) = 2 + n
         /\ (<<a, b>> \o s)[1] = a /\ (<<a, b>> \o s)[2] = b
         /\ \A p \in 3 .. 2 + n : (<<a, b>> \o s)[p] = s[p - 2]
OBVIOUS

SealedAt(id, i) == [frame |-> id, part |-> "sealed", at |-> i]

LEMMA SealedIs ==
  ASSUME NEW id, NEW i
  PROVE  SealedAt(id, i).frame = id /\ SealedAt(id, i).at = i
BY DEF SealedAt

LEMMA SealedDiffer ==
  ASSUME NEW id, NEW i, NEW other, NEW j
  PROVE  /\ SealedAt(id, i).part = "sealed"
         /\ SealedAt(id, i) = SealedAt(other, j) => id = other /\ i = j
BY DEF SealedAt

\* The bytes of a frame: the first two are its prefix, the others its own.
LEMMA WireBytes ==
  ASSUME NEW id \in Nat, NEW bucket \in Nat
  PROVE  /\ Wire(id, bucket) \in Seq(WireByte) /\ Len(Wire(id, bucket)) = Size(bucket)
         /\ Wire(id, bucket)[1] = Clear(OuterLength(bucket) \div 256)
         /\ Wire(id, bucket)[2] = Clear(OuterLength(bucket) % 256)
         /\ \A p \in 3 .. Size(bucket) : Wire(id, bucket)[p] = SealedAt(id, p - 2)
<1> DEFINE n == OuterLength(bucket)
           s == Sealed(id, n)
           a == Clear(n \div 256)
           b == Clear(n % 256)
<1>1. n \in Nat /\ Size(bucket) = 2 + n
  BY OuterLengths
<1>2. a \in WireByte /\ b \in WireByte
  <2>1. \A v \in Nat : Clear(v) \in WireByte
    BY DEF Clear, WireByte
  <2> HIDE DEF n
  <2>2. n \div 256 \in Nat /\ n % 256 \in Nat
    BY <1>1
  <2>. QED  BY <2>1, <2>2
<1>3. /\ s \in Seq(WireByte) /\ Len(s) = n
      /\ \A i \in 1 .. n : s[i] = [frame |-> id, part |-> "sealed", at |-> i]
  <2> HIDE DEF n
  <2>. QED  BY <1>1 DEF Sealed, WireByte
<1>4. Wire(id, bucket) = <<a, b>> \o s
  BY DEF Wire, Prefix
<1> HIDE DEF a, b, s, n
<1>5. /\ <<a, b>> \o s \in Seq(WireByte) /\ Len(<<a, b>> \o s) = 2 + n
      /\ (<<a, b>> \o s)[1] = a /\ (<<a, b>> \o s)[2] = b
      /\ \A p \in 3 .. 2 + n : (<<a, b>> \o s)[p] = s[p - 2]
  BY <1>1, <1>2, <1>3, TwoBefore
<1>6. \A p \in 3 .. 2 + n : p - 2 \in 1 .. n
  BY <1>1
<1>7. \A p \in 3 .. 2 + n : s[p - 2] = SealedAt(id, p - 2)
  BY <1>3, <1>6 DEF SealedAt
<1>. QED  BY <1>1, <1>4, <1>5, <1>7 DEF a, b, n

LEMMA WireLength ==
  ASSUME NEW id \in Nat, NEW bucket \in Nat
  PROVE  Wire(id, bucket) \in Seq(WireByte) /\ Len(Wire(id, bucket)) = Size(bucket)
BY WireBytes

LEMMA WireAt ==
  ASSUME NEW id \in Nat, NEW bucket \in Nat, NEW p \in 3 .. Size(bucket)
  PROVE  Wire(id, bucket)[p] = SealedAt(id, p - 2)
BY WireBytes

LEMMA WirePrefix ==
  ASSUME NEW id \in Nat, NEW bucket \in Nat
  PROVE  Wire(id, bucket)[1].part = "prefix" /\ Wire(id, bucket)[2].part = "prefix"
<1>1. \A v : Clear(v).part = "prefix"
  BY DEF Clear
<1>2. Wire(id, bucket)[1] = Clear(OuterLength(bucket) \div 256)
  BY WireBytes
<1>3. Wire(id, bucket)[2] = Clear(OuterLength(bucket) % 256)
  BY WireBytes
<1>. QED  BY <1>1, <1>2, <1>3

-----------------------------------------------------------------------------
LEMMA Smallest ==
  ASSUME NEW T, T \subseteq Nat, T # {}
  PROVE  Min(T) \in T /\ \A k \in T : Min(T) <= k
BY LeastNatural DEF Min

\* privframe_bucket_for returns the smallest bucket with room, if one has.
LEMMA BucketFits ==
  ASSUME NEW length \in Nat, BucketFor(length) # 0
  PROVE  /\ BucketFor(length) \in ToSet(Buckets) /\ length + InnerHeader <= BucketFor(length)
         /\ \A b \in ToSet(Buckets) : length + InnerHeader <= b => BucketFor(length) <= b
<1> DEFINE fits == {b \in ToSet(Buckets) : length + InnerHeader <= b}
<1>1. fits \subseteq Nat /\ fits # {} /\ BucketFor(length) = Min(fits)
  BY Sizes DEF BucketFor
<1>2. Min(fits) \in fits /\ \A b \in fits : Min(fits) <= b
  BY <1>1, Smallest
<1>. QED  BY <1>1, <1>2

\* What the prefix of a frame declares.
LEMMA PrefixIsRead ==
  ASSUME NEW id \in Nat, NEW bucket \in ToSet(Buckets), NEW bytes \in Seq(WireByte),
         Len(bytes) >= 2, bytes[1] = Wire(id, bucket)[1], bytes[2] = Wire(id, bucket)[2]
  PROVE  Declared(bytes) = OuterLength(bucket) /\ BucketOf(Declared(bytes)) = bucket
<1>1. bucket \in Nat /\ bucket # 0 /\ OuterLength(bucket) \in Nat
  BY Sizes, OuterLengths
<1>2. /\ bytes[1] = Clear(OuterLength(bucket) \div 256)
      /\ bytes[2] = Clear(OuterLength(bucket) % 256)
  BY <1>1, WireBytes
<1>3. Declared(bytes) = 256 * (OuterLength(bucket) \div 256) + (OuterLength(bucket) % 256)
  BY <1>2 DEF Declared, Clear
<1>4. \A n \in Nat : 256 * (n \div 256) + (n % 256) = n
  OBVIOUS
<1>5. Declared(bytes) = OuterLength(bucket)
  BY <1>1, <1>3, <1>4
<1>6. BucketOf(OuterLength(bucket)) = bucket
  BY <1>1, Sizes DEF BucketOf, OuterLength
<1>. QED  BY <1>5, <1>6

LEMMA DeclaredIsNatural ==
  ASSUME NEW bytes \in Seq(WireByte), Len(bytes) >= 2
  PROVE  Declared(bytes) \in Nat /\ (BucketOf(Declared(bytes)) # 0 => Declared(bytes) >= 1)
<1>1. /\ bytes[1] \in WireByte /\ bytes[2] \in WireByte
  OBVIOUS
<1>2. OuterLength(Buckets[1]) \in Nat
  BY Sizes, OuterLengths
<1> DEFINE value(b) == IF b.part = "prefix" THEN b.at
                       ELSE IF b.at % 2 = 1 THEN 0 ELSE OuterLength(Buckets[1])
<1>3. \A b \in WireByte : value(b) \in Nat
  BY <1>2 DEF WireByte
<1>4. Declared(bytes) = 256 * value(bytes[1]) + value(bytes[2])
  BY DEF Declared
<1>5. value(bytes[1]) \in Nat /\ value(bytes[2]) \in Nat
  BY <1>1, <1>3
<1> HIDE DEF value
<1>6. Declared(bytes) \in Nat
  BY <1>4, <1>5
<1>7. BucketOf(Declared(bytes)) # 0 => Declared(bytes) >= 1
  BY <1>6, Sizes DEF BucketOf
<1>. QED  BY <1>6, <1>7

\* The two parsers agree on all bytes, but for those that are missing.
LEMMA ParsersAgree ==
  ASSUME NEW bytes \in Seq(WireByte)
  PROVE  /\ Received(bytes).took \in 0 .. Len(bytes)
         /\ \/ Received(bytes).result = Decoded(bytes)
            \/ Received(bytes).result.rc = "RECV" /\ Decoded(bytes).rc = "MALFORMED"
<1>1. CASE key.receiver = "none"
  BY <1>1 DEF Received, Decoded, Failed
<1>2. CASE key.receiver # "none" /\ Len(bytes) < PrefixSize
  BY <1>2, Sizes DEF Received, Decoded, Failed
<1>3. CASE key.receiver # "none" /\ Len(bytes) >= PrefixSize
  <2>1. Declared(bytes) \in Nat /\ Len(bytes) \in Nat /\ PrefixSize = 2
    BY <1>3, DeclaredIsNatural, Sizes
  <2>2. CASE BucketOf(Declared(bytes)) = 0
    BY <1>3, <2>1, <2>2 DEF Received, Decoded, Failed
  <2>3. CASE BucketOf(Declared(bytes)) # 0
    <3>1. Declared(bytes) >= NonceSize + TagSize + 1
      BY <2>1, <2>3, Sizes DEF BucketOf
    <3>2. CASE Len(bytes) < PrefixSize + Declared(bytes)
      BY <1>3, <2>1, <2>3, <3>2 DEF Received, Decoded, Failed
    <3>3. CASE ~ (Len(bytes) < PrefixSize + Declared(bytes))
      <4>1. ~ (Len(bytes) < PrefixSize + NonceSize + TagSize)
        BY <2>1, <3>1, <3>3, Sizes
      <4>. QED  BY <1>3, <2>1, <2>3, <3>3, <4>1 DEF Received, Decoded, Failed
    <3>. QED  BY <3>2, <3>3
  <2>. QED  BY <2>2, <2>3
<1>. QED  BY <1>1, <1>2, <1>3, Sizes

-----------------------------------------------------------------------------
\* The frames that went out, and where each ends in the stream.
FrameSent == [type : {1, 2}, hops : {0, 3}, length : Nat, bucket : Nat \ {0},
              key : {"psk", "other"}, ends : Nat]

End(fs, id) == IF id = 0 THEN 0 ELSE fs[id].ends

FrameFits(f) ==
  /\ f.bucket \in ToSet(Buckets) /\ f.length + InnerHeader <= f.bucket
  /\ \A b \in ToSet(Buckets) : f.length + InnerHeader <= b => f.bucket <= b

InLine(fs) ==
  /\ fs \in Seq(FrameSent)
  /\ \A id \in 1 .. Len(fs) : FrameFits(fs[id]) /\ fs[id].ends = End(fs, id - 1) + Size(fs[id].bucket)

\* The bytes on their way, of which c are gone already: those of the frames, one
\* after the other, but for one that was changed.
Comes(fs, bytes, s, c) ==
  \A id \in 1 .. Len(fs) : \A p \in 1 .. Size(fs[id].bucket) :
    End(fs, id - 1) + p - c \in 1 .. Len(bytes) =>
      \/ bytes[End(fs, id - 1) + p - c] = Wire(id, fs[id].bucket)[p]
      \/ bytes[End(fs, id - 1) + p - c].part = "prefix" /\ s # None /\ End(fs, id - 1) + p > s

LEMMA FrameFacts ==
  ASSUME NEW fs, InLine(fs), NEW id \in 1 .. Len(fs)
  PROVE  /\ Len(fs) \in Nat /\ id \in Nat /\ id - 1 \in 0 .. Len(fs)
         /\ fs[id].bucket \in Nat /\ fs[id].length \in Nat /\ fs[id].key # "none"
         /\ Size(fs[id].bucket) \in Nat /\ Size(fs[id].bucket) >= 3
         /\ End(fs, id) = End(fs, id - 1) + Size(fs[id].bucket)
         /\ Size(fs[id].bucket) = 2 + OuterLength(fs[id].bucket)
<1>1. fs \in Seq(FrameSent) /\ fs[id] \in FrameSent
  BY DEF InLine
<1>2. fs[id].bucket \in Nat /\ fs[id].length \in Nat /\ fs[id].key # "none"
  BY <1>1 DEF FrameSent
<1>3. End(fs, id) = fs[id].ends /\ fs[id].ends = End(fs, id - 1) + Size(fs[id].bucket)
  BY DEF End, InLine
<1>4. /\ Size(fs[id].bucket) \in Nat /\ Size(fs[id].bucket) >= 3
      /\ Size(fs[id].bucket) = 2 + OuterLength(fs[id].bucket)
  BY ONLY <1>2, SizeFacts, Zenon
<1>5. Len(fs) \in Nat /\ id \in Nat /\ id - 1 \in 0 .. Len(fs)
  BY <1>1
<1>. QED  BY <1>2, <1>3, <1>4, <1>5

LEMMA EndsAreNatural ==
  ASSUME NEW fs, InLine(fs), NEW id \in 0 .. Len(fs)
  PROVE  End(fs, id) \in Nat /\ Len(fs) \in Nat
<1>1. fs \in Seq(FrameSent)
  BY DEF InLine
<1>2. CASE id = 0
  BY <1>1, <1>2 DEF End
<1>3. CASE id # 0
  <2>1. fs[id] \in FrameSent
    BY <1>1, <1>3
  <2>. QED  BY <1>1, <1>3, <2>1 DEF End, FrameSent
<1>. QED  BY <1>2, <1>3

LEMMA EndsGrow ==
  ASSUME NEW fs, InLine(fs), NEW i \in 0 .. Len(fs), NEW j \in 0 .. Len(fs), i < j
  PROVE  End(fs, i) < End(fs, j)
<1> DEFINE T == {k \in 0 .. Len(fs) : i < k /\ ~ (End(fs, i) < End(fs, k))}
<1>1. Len(fs) \in Nat
  BY EndsAreNatural
<1>2. SUFFICES ASSUME T # {}  PROVE FALSE
  BY <1>1
<1>3. T \subseteq Nat
  OBVIOUS
<1>4. PICK m \in T : \A k \in T : m <= k
  BY <1>2, <1>3, LeastNatural
<1>5. m \in 1 .. Len(fs) /\ m - 1 \in 0 .. Len(fs) /\ i <= m - 1
  BY <1>1, <1>4
<1>6. End(fs, m) = End(fs, m - 1) + Size(fs[m].bucket) /\ Size(fs[m].bucket) \in Nat
      /\ Size(fs[m].bucket) >= 3
  BY <1>5, FrameFacts
<1>7. End(fs, m - 1) \in Nat /\ End(fs, i) \in Nat
  BY <1>5, EndsAreNatural
<1>8. i = m - 1 \/ End(fs, i) < End(fs, m - 1)
  <2>1. m - 1 \notin T
    BY <1>4, <1>5
  <2>. QED  BY <2>1, <1>5
<1>. QED  BY <1>4, <1>6, <1>7, <1>8

\* Every place of the stream is in a frame.
IsIn(fs, id, q) == q - End(fs, id - 1) \in 1 .. Size(fs[id].bucket)

LEMMA Covered ==
  ASSUME NEW fs, InLine(fs), NEW q \in Nat, 1 <= q, q <= End(fs, Len(fs))
  PROVE  \E id \in 1 .. Len(fs) : IsIn(fs, id, q)
<1> DEFINE T == {k \in 0 .. Len(fs) : q <= End(fs, k)}
<1>1. Len(fs) \in Nat
  BY DEF InLine
<1>2. T \subseteq Nat /\ T # {}
  BY <1>1
<1>3. PICK m \in T : \A k \in T : m <= k
  BY <1>2, LeastNatural
<1>4. m # 0
  BY <1>3 DEF End
<1>5. m \in 1 .. Len(fs) /\ m - 1 \in 0 .. Len(fs) /\ m - 1 \notin T
  BY <1>1, <1>3, <1>4
<1>6. End(fs, m) = End(fs, m - 1) + Size(fs[m].bucket) /\ Size(fs[m].bucket) \in Nat
  BY <1>5, FrameFacts
<1>7. End(fs, m - 1) \in Nat /\ ~ (q <= End(fs, m - 1)) /\ q <= End(fs, m)
  BY <1>3, <1>5, EndsAreNatural
<1>8. q - End(fs, m - 1) \in 1 .. Size(fs[m].bucket)
  BY <1>6, <1>7
<1>. QED  BY <1>5, <1>8 DEF IsIn

-----------------------------------------------------------------------------
\* What is still to come begins in step with a frame, the next one, or only
\* after all that come whole.
Taken(k) == \A id \in 1 .. k : \E i \in Accepted : received[i].recv.id = id

InStep(c) ==
  \E k \in 0 .. Len(frames) :
    c = End(frames, k) /\ c <= sound /\ (key.sender = key.receiver => Taken(k))

Past(c) ==
  \A id \in Whole :
    frames[id].ends <= c /\ (key.sender = key.receiver => \E i \in Accepted : received[i].recv.id = id)

Position(c) ==
  /\ c \in Nat /\ c + Len(connection) <= End(frames, Len(frames))
  /\ Comes(frames, connection, sound, c)
  /\ sound = None => c = 0 /\ Len(connection) = End(frames, Len(frames))
  /\ sound # None => c + Len(connection) >= sound /\ (InStep(c) \/ Past(c))
  /\ \A i \in Accepted : frames[received[i].recv.id].ends <= c

Framed ==
  /\ key \in [{"sender", "receiver"} -> {"none", "psk", "other"}]
  /\ EncodedInRoom
  /\ InLine(frames) /\ Len(frames) \in Nat
  /\ \A id \in 1 .. Len(frames) : frames[id].key = key.sender
  /\ connection \in Seq(WireByte)
  /\ sound = None => received = <<>>
  /\ sound # None => sound \in 0 .. End(frames, Len(frames)) /\ frames # <<>>

\* What was received.
Got ==
  /\ \E S : received \in Seq(S)
  /\ \A i \in 1 .. Len(received) :
       \/ received[i].recv = received[i].decode
       \/ received[i].recv.rc = "RECV" /\ received[i].decode.rc = "MALFORMED"
  /\ \A i \in Accepted : received[i].recv.id \in 1 .. Len(frames) /\ key.sender = key.receiver
  /\ \A i, j \in Accepted : i < j => received[i].recv.id < received[j].recv.id

FramingInv == Framed /\ Got /\ \E c \in Nat : Position(c)

LEMMA WiresDiffer ==
  ASSUME NEW id \in Nat, NEW other \in Nat, NEW b \in Nat, NEW d \in Nat, Wire(id, b) = Wire(other, d)
  PROVE  id = other
<1>1. Wire(id, b)[3] = SealedAt(id, 3 - 2) /\ Wire(other, d)[3] = SealedAt(other, 3 - 2)
  BY SizeFacts, WireAt, Zenon
<1>. QED  BY <1>1 DEF SealedAt

\* What the cipher opens is a frame that was sealed with the same key.
LEMMA OpenedWasSent ==
  ASSUME NEW bytes, InLine(frames), Opened(bytes).rc = "OK"
  PROVE  /\ Opened(bytes).id \in 1 .. Len(frames)
         /\ bytes = Wire(Opened(bytes).id, frames[Opened(bytes).id].bucket)
         /\ frames[Opened(bytes).id].key = key.receiver
<1> DEFINE of == {id \in DOMAIN frames : bytes = Wire(id, frames[id].bucket) /\ frames[id].key = key.receiver}
           it == CHOOSE i \in of : TRUE
<1>1. of # {}
  BY DEF Opened, Failed
<1>2. it \in of
  BY <1>1
<1> HIDE DEF it
<1>3. Opened(bytes) = IF frames[it].length + InnerHeader > frames[it].bucket THEN Failed("MALFORMED")
                      ELSE [rc |-> "OK", id |-> it]
  BY <1>1 DEF Opened, it
<1>4. Opened(bytes) = [rc |-> "OK", id |-> it]
  BY <1>3 DEF Failed
<1>5. DOMAIN frames = 1 .. Len(frames)
  BY DEF InLine
<1>. QED  BY <1>2, <1>4, <1>5

LEMMA SentIsOpened ==
  ASSUME InLine(frames), NEW id \in 1 .. Len(frames), frames[id].key = key.receiver
  PROVE  Opened(Wire(id, frames[id].bucket)) = [rc |-> "OK", id |-> id]
<1> DEFINE of == {i \in DOMAIN frames :
                    Wire(id, frames[id].bucket) = Wire(i, frames[i].bucket) /\ frames[i].key = key.receiver}
           it == CHOOSE i \in of : TRUE
<1>1. DOMAIN frames = 1 .. Len(frames) /\ Len(frames) \in Nat
  BY DEF InLine
<1>2. id \in of
  BY <1>1
<1>3. it \in of
  BY <1>2
<1>4. it = id
  <2>1. it \in 1 .. Len(frames) /\ Wire(id, frames[id].bucket) = Wire(it, frames[it].bucket)
    BY <1>1, <1>3
  <2>2. frames[id].bucket \in Nat /\ frames[it].bucket \in Nat /\ id \in Nat /\ it \in Nat
    BY <2>1, FrameFacts
  <2>. QED  BY <2>1, <2>2, WiresDiffer
<1> HIDE DEF it
<1>5. Opened(Wire(id, frames[id].bucket)) =
        IF frames[it].length + InnerHeader > frames[it].bucket THEN Failed("MALFORMED")
        ELSE [rc |-> "OK", id |-> it]
  BY <1>2 DEF Opened, it
<1>6. ~ (frames[id].length + InnerHeader > frames[id].bucket)
  <2>1. frames[id].length + InnerHeader <= frames[id].bucket
    BY DEF InLine, FrameFits
  <2>2. frames[id].length \in Nat /\ frames[id].bucket \in Nat /\ InnerHeader \in Nat
    BY FrameFacts, Sizes
  <2>. QED  BY <2>1, <2>2
<1>. QED  BY <1>4, <1>5, <1>6

\* A frame is accepted only where it begins.
LEMMA AcceptedInStep ==
  ASSUME Framed, NEW c \in Nat, Position(c), Received(connection).result.rc = "OK"
  PROVE  LET id == Received(connection).result.id IN
         /\ id \in 1 .. Len(frames) /\ c = End(frames, id - 1)
         /\ Received(connection).took = Size(frames[id].bucket)
         /\ frames[id].key = key.receiver
<1> DEFINE n == PrefixSize + Declared(connection)
           bytes == SubSeq(connection, 1, n)
           id == Opened(bytes).id
<1>1. /\ connection \in Seq(WireByte) /\ InLine(frames) /\ Len(frames) \in Nat /\ Len(connection) \in Nat
  BY DEF Framed
<1>2. /\ Len(connection) >= 2 /\ ~ (Len(connection) < n)
      /\ Received(connection) = [took |-> n, result |-> Opened(bytes)]
  BY <1>1, Sizes DEF Received, Failed
<1>3. Declared(connection) \in Nat /\ n \in Nat /\ n = 2 + Declared(connection)
  BY <1>1, <1>2, DeclaredIsNatural, Sizes
<1>4. /\ id \in 1 .. Len(frames) /\ bytes = Wire(id, frames[id].bucket)
      /\ frames[id].key = key.receiver
  <2>1. Opened(bytes).rc = "OK"
    BY <1>2
  <2>. QED  BY <1>1, <2>1, OpenedWasSent, Zenon
<1>5. Len(bytes) = n /\ \A i \in 1 .. n : bytes[i] = connection[i]
  <2> HIDE DEF n
  <2>. QED  BY <1>1, <1>2, <1>3
<1> HIDE DEF n, bytes, id
<1>6. /\ frames[id].bucket \in Nat /\ id \in Nat /\ Size(frames[id].bucket) \in Nat
      /\ Size(frames[id].bucket) >= 3
  BY <1>1, <1>4, FrameFacts
<1>7. n = Size(frames[id].bucket)
  BY <1>4, <1>5, <1>6, WireLength, Zenon
<1>8. connection[3] = SealedAt(id, 3 - 2)
  <2>1. 3 \in 1 .. n /\ 3 \in 3 .. Size(frames[id].bucket)
    BY <1>6, <1>7
  <2>2. connection[3] = bytes[3]
    BY <1>5, <2>1
  <2>3. Wire(id, frames[id].bucket)[3] = SealedAt(id, 3 - 2)
    BY <1>6, <2>1, WireAt, Zenon
  <2>. QED  BY <1>4, <2>2, <2>3, Zenon
<1>9. c + 3 \in Nat /\ 1 <= c + 3 /\ c + 3 <= End(frames, Len(frames))
  <2>1. c + Len(connection) <= End(frames, Len(frames)) /\ End(frames, Len(frames)) \in Nat
    BY <1>1, EndsAreNatural DEF Position
  <2>. QED  BY <2>1, <1>1, <1>2, <1>6, <1>7
<1>10. PICK o \in 1 .. Len(frames) : (c + 3) - End(frames, o - 1) \in 1 .. Size(frames[o].bucket)
  <2> DEFINE q == c + 3
  <2>1. q \in Nat /\ 1 <= q /\ q <= End(frames, Len(frames))
    BY <1>9
  <2> HIDE DEF q
  <2>2. \E o \in 1 .. Len(frames) : IsIn(frames, o, q)
    BY <1>1, <2>1, Covered, Zenon
  <2>3. PICK o \in 1 .. Len(frames) : IsIn(frames, o, q)
    BY <2>2
  <2>4. q - End(frames, o - 1) \in 1 .. Size(frames[o].bucket)
    BY <2>3 DEF IsIn
  <2>5. (c + 3) - End(frames, o - 1) \in 1 .. Size(frames[o].bucket)
    BY <2>4, Zenon DEF q
  <2>. QED  BY <2>5, Zenon
<1> DEFINE p == (c + 3) - End(frames, o - 1)
<1>11. /\ End(frames, o - 1) \in Nat /\ End(frames, o - 1) + p - c = 3 /\ p \in 1 .. Size(frames[o].bucket)
       /\ 3 \in 1 .. Len(connection)
  <2>1. o - 1 \in 0 .. Len(frames)
    BY <1>1
  <2>2. End(frames, o - 1) \in Nat
    BY <1>1, <2>1, EndsAreNatural
  <2>. QED  BY <2>2, <1>1, <1>2, <1>6, <1>7, <1>10
<1> HIDE DEF p
<1>12. connection[3] = Wire(o, frames[o].bucket)[p]
  <2>1. Comes(frames, connection, sound, c)
    BY DEF Position
  <2>2. connection[3] = Wire(o, frames[o].bucket)[p] \/ connection[3].part = "prefix"
    BY <2>1, <1>11 DEF Comes
  <2>. QED  BY <2>2, <1>8, SealedDiffer
<1>13. frames[o].bucket \in Nat /\ o \in Nat /\ Size(frames[o].bucket) \in Nat
  BY <1>1, FrameFacts
<1>14. p # 1 /\ p # 2
  <2>1. /\ Wire(o, frames[o].bucket)[1].part = "prefix"
        /\ Wire(o, frames[o].bucket)[2].part = "prefix"
    BY <1>13, WirePrefix, Zenon
  <2>. QED  BY <1>8, <1>12, <2>1, SealedDiffer
<1>15. p \in 3 .. Size(frames[o].bucket)
  BY <1>11, <1>13, <1>14
<1>16. Wire(o, frames[o].bucket)[p] = SealedAt(o, p - 2)
  BY <1>13, <1>15, WireAt, Zenon
<1>17. o = id /\ p - 2 = 3 - 2
  <2>1. SealedAt(o, p - 2) = SealedAt(id, 3 - 2)
    BY <1>8, <1>12, <1>16, Zenon
  <2>2. SealedAt(o, p - 2).frame = o /\ SealedAt(id, 3 - 2).frame = id
    BY SealedIs, Zenon
  <2>3. SealedAt(o, p - 2).at = p - 2 /\ SealedAt(id, 3 - 2).at = 3 - 2
    BY SealedIs, Zenon
  <2>. QED  BY <2>1, <2>2, <2>3, Zenon
<1>18. c = End(frames, id - 1)
  BY <1>11, <1>15, <1>17, <1>13
<1>19. Received(connection).result.id = id /\ Received(connection).took = n
  BY <1>2 DEF id
<1>. QED  BY <1>4, <1>7, <1>18, <1>19

\* The next frame, if all of it came as it was sent, is read as it was sent.
LEMMA ReadAsSent ==
  ASSUME Framed, NEW c \in Nat, Position(c), sound # None, key.receiver # "none",
         NEW k \in 1 .. Len(frames), c = End(frames, k - 1), End(frames, k) <= sound
  PROVE  /\ Received(connection).took = Size(frames[k].bucket)
         /\ Received(connection).result = Opened(Wire(k, frames[k].bucket))
<1> DEFINE b == frames[k].bucket
           w == Wire(k, b)
<1>1. /\ connection \in Seq(WireByte) /\ InLine(frames) /\ Len(frames) \in Nat /\ Len(connection) \in Nat
      /\ sound \in Nat
  <2>1. End(frames, Len(frames)) \in Nat
    BY EndsAreNatural DEF Framed
  <2>. QED  BY <2>1 DEF Framed
<1>2. /\ b \in Nat /\ k \in Nat /\ Size(b) \in Nat /\ Size(b) >= 3
      /\ Size(b) = 2 + OuterLength(b) /\ End(frames, k) = End(frames, k - 1) + Size(b)
  BY <1>1, FrameFacts
<1>3. b \in ToSet(Buckets) /\ b # 0
  <2>1. b \in ToSet(Buckets)
    BY <1>1 DEF InLine, FrameFits
  <2>. QED  BY <2>1, Sizes
<1>4. Size(b) <= Len(connection)
  <2>1. c + Len(connection) >= sound
    BY DEF Position
  <2>. QED  BY <2>1, <1>1, <1>2
<1>5. w \in Seq(WireByte) /\ Len(w) = Size(b)
  BY <1>2, WireLength, Zenon
<1> HIDE DEF w
<1>6. ASSUME NEW p \in 1 .. Size(b)  PROVE connection[p] = w[p]
  <2>1. Comes(frames, connection, sound, c)
    BY DEF Position
  <2>2. End(frames, k - 1) + p - c = p /\ p \in 1 .. Len(connection)
    BY <1>1, <1>2, <1>4
  <2>3. ~ (End(frames, k - 1) + p > sound)
    BY <1>1, <1>2
  <2>. QED  BY <2>1, <2>2, <2>3 DEF Comes, w
<1>7. Declared(connection) = OuterLength(b) /\ BucketOf(Declared(connection)) = b
  <2>1. connection[1] = w[1] /\ connection[2] = w[2] /\ Len(connection) >= 2
    BY <1>1, <1>2, <1>4, <1>6
  <2>. QED  BY <1>1, <1>2, <1>3, <2>1, PrefixIsRead, Zenon DEF w
<1> DEFINE n == PrefixSize + Declared(connection)
<1>8. n = Size(b)
  BY <1>7 DEF Size
<1>9. SubSeq(connection, 1, n) = w
  <2>1. Len(SubSeq(connection, 1, Size(b))) = Size(b)
    BY <1>1, <1>2, <1>4
  <2>2. SubSeq(connection, 1, Size(b)) \in Seq(WireByte)
    BY <1>1, <1>2, <1>4
  <2>3. \A p \in 1 .. Size(b) : SubSeq(connection, 1, Size(b))[p] = w[p]
    BY <1>1, <1>2, <1>4, <1>6
  <2>. QED  BY <1>2, <1>5, <1>8, <2>1, <2>2, <2>3
<1>10. ~ (Len(connection) < PrefixSize) /\ ~ (Len(connection) < n)
  BY <1>1, <1>2, <1>4, <1>8, Sizes
<1> HIDE DEF n
<1>11. Received(connection) = [took |-> n, result |-> Opened(SubSeq(connection, 1, n))]
  BY <1>3, <1>7, <1>10 DEF Received, n
<1>12. Received(connection).took = n /\ Received(connection).result = Opened(SubSeq(connection, 1, n))
  BY <1>11
<1>. QED  BY <1>8, <1>9, <1>12, Zenon DEF w

LEMMA LargestFrame ==
  /\ Last(Buckets) \in ToSet(Buckets) /\ Last(Buckets) \in Nat
  /\ PrefixSize + OuterLength(Last(Buckets)) \in Nat
<1>1. Buckets \in Seq(Nat \ {0}) /\ Buckets # <<>> /\ NonceSize \in Nat /\ TagSize \in Nat
  BY PrivFrameAssumption
<1>2. Last(Buckets) = Buckets[Len(Buckets)] /\ Len(Buckets) \in 1 .. Len(Buckets)
  BY <1>1 DEF Last
<1>3. Last(Buckets) \in Nat /\ Last(Buckets) \in ToSet(Buckets)
  BY <1>1, <1>2 DEF ToSet
<1>. QED  BY <1>1, <1>3 DEF OuterLength, PrefixSize

\* A frame is at most as large as the last bucket makes it, for that bucket has
\* room for every payload that is not refused before.
LEMMA EncodingFits ==
  ASSUME NEW length \in PayloadLengths, NEW room \in Rooms
  PROVE  LET e == EncodeResult(length, room) IN
         /\ e.rc \in {"none", "OK", "NOKEY", "TOOBIG"}
         /\ e.written \in Nat /\ e.room \in Nat
         /\ e.rc = "OK" => e.written <= e.room
         /\ e.written <= PrefixSize + OuterLength(Last(Buckets))
<1> DEFINE b == BucketFor(length)
           size == PrefixSize + OuterLength(b)
           largest == PrefixSize + OuterLength(Last(Buckets))
<1>1. length \in Nat /\ room \in Nat /\ InnerHeader \in Nat
  BY PrivFrameAssumption
<1>2. largest \in Nat /\ Last(Buckets) \in Nat
  BY LargestFrame
<1>3. CASE key.sender = "none" \/ length > PF_MAX_PAYLOAD \/ b = 0
  <2>1. EncodeResult(length, room) \in {Encoding("NOKEY", 0, room), Encoding("TOOBIG", 0, room)}
    BY <1>3 DEF EncodeResult
  <2>. QED  BY <1>1, <1>2, <2>1 DEF Encoding
<1>4. CASE ~ (key.sender = "none" \/ length > PF_MAX_PAYLOAD \/ b = 0)
  <2>1. b \in ToSet(Buckets) /\ \A d \in ToSet(Buckets) : length + InnerHeader <= d => b <= d
    BY <1>1, <1>4, BucketFits
  <2>2. length + InnerHeader <= Last(Buckets)
    BY <1>1, <1>2, <1>4 DEF PF_MAX_PAYLOAD
  <2>3. b <= Last(Buckets)
    BY <2>1, <2>2, LargestFrame
  <2>4. b \in Nat
    BY <2>1, Sizes
  <2> HIDE DEF b
  <2>5. size \in Nat /\ size <= largest
    BY <1>2, <2>3, <2>4, PrivFrameAssumption DEF OuterLength, PrefixSize
  <2>6. EncodeResult(length, room) = Encoding(IF size > room THEN "TOOBIG" ELSE "OK", size, room)
    BY <1>4 DEF EncodeResult, b
  <2> HIDE DEF size, largest
  <2>7. CASE size > room
    <3>1. EncodeResult(length, room) = Encoding("TOOBIG", size, room)
      BY <2>6, <2>7
    <3>. QED  BY <1>1, <2>5, <3>1 DEF Encoding, largest
  <2>8. CASE ~ (size > room)
    <3>1. EncodeResult(length, room) = Encoding("OK", size, room)
      BY <2>6, <2>8
    <3>. QED  BY <1>1, <2>5, <2>8, <3>1 DEF Encoding, largest
  <2>. QED  BY <2>7, <2>8
<1>. QED  BY <1>3, <1>4

LEMMA InitFraming == FramingInit => FramingInv
<1> SUFFICES ASSUME FramingInit  PROVE FramingInv
  OBVIOUS
<1>1. /\ key = [end \in {"sender", "receiver"} |-> "none"]
      /\ frames = <<>> /\ encoded = Encoding("none", 0, 0) /\ connection = <<>> /\ sound = None /\ received = <<>>
  BY DEF FramingInit
<1>2. Framed
  <2>1. InLine(frames)
    BY <1>1 DEF InLine
  <2>2. EncodedInRoom
    <3>1. encoded.rc = "none" /\ encoded.written = 0 /\ encoded.room = 0
      BY <1>1 DEF Encoding
    <3>. QED  BY <3>1, LargestFrame DEF EncodedInRoom
  <2>. QED  BY <1>1, <2>1, <2>2 DEF Framed, None
<1>3. Accepted = {}
  BY <1>1 DEF Accepted
<1>4. Got
  <2>1. received \in Seq({})
    BY <1>1
  <2>. QED  BY <1>1, <1>3, <2>1 DEF Got
<1>5. Position(0)
  <2>1. End(frames, Len(frames)) = 0 /\ Len(connection) = 0
    BY <1>1 DEF End
  <2>2. Comes(frames, connection, sound, 0)
    BY <1>1 DEF Comes
  <2>. QED  BY <1>1, <1>3, <2>1, <2>2 DEF Position
<1>. QED  BY <1>2, <1>4, <1>5 DEF FramingInv

LEMMA SetKeyFramed ==
  ASSUME FramingInv, NEW end \in {"sender", "receiver"}, NEW k \in {"psk", "other"}, SetKey(end, k)
  PROVE  FramingInv'
<1>1. /\ frames = <<>> /\ key' = [key EXCEPT ![end] = k]
      /\ UNCHANGED <<frames, encoded, connection, sound, received>>
  BY DEF SetKey
<1>2. PICK c \in Nat : Position(c)
  BY DEF FramingInv
<1>3. sound = None /\ received = <<>>
  BY <1>1 DEF FramingInv, Framed
<1>4. Framed'
  BY <1>1, <1>3 DEF FramingInv, Framed, EncodedInRoom
<1>5. Accepted' = {}
  BY <1>1, <1>3 DEF Accepted
<1>6. Got'
  BY <1>1, <1>3, <1>5 DEF FramingInv, Got
<1>7. Position(c)'
  BY <1>1, <1>2, <1>3, <1>5 DEF Position
<1>. QED  BY <1>4, <1>6, <1>7 DEF FramingInv


\* While the sender sends, the stream is all its frames, one after the other.
LEMMA BeforeTheEnd ==
  ASSUME FramingInv, sound = None
  PROVE  /\ Position(0) /\ Len(connection) = End(frames, Len(frames)) /\ received = <<>>
         /\ connection \in Seq(WireByte) /\ InLine(frames) /\ Len(frames) \in Nat /\ Len(connection) \in Nat
         /\ Comes(frames, connection, None, 0)
<1>1. PICK c \in Nat : Position(c)
  BY DEF FramingInv
<1>2. c = 0
  BY <1>1 DEF Position
<1>3. Position(0)
  BY <1>1, <1>2
<1>. QED  BY <1>3 DEF FramingInv, Framed, Position

LEMMA EndsOfMore ==
  ASSUME NEW fs, InLine(fs), NEW f, f \in FrameSent, FrameFits(f), f.ends = End(fs, Len(fs)) + Size(f.bucket)
  PROVE  /\ InLine(Append(fs, f)) /\ Len(Append(fs, f)) = Len(fs) + 1
         /\ Append(fs, f)[Len(fs) + 1] = f /\ \A id \in 1 .. Len(fs) : Append(fs, f)[id] = fs[id]
         /\ \A id \in 0 .. Len(fs) : End(Append(fs, f), id) = End(fs, id)
         /\ End(Append(fs, f), Len(fs) + 1) = f.ends
<1> DEFINE new == Append(fs, f)
<1>1. fs \in Seq(FrameSent) /\ Len(fs) \in Nat
  BY DEF InLine
<1>2. /\ new \in Seq(FrameSent) /\ Len(new) = Len(fs) + 1
      /\ new[Len(fs) + 1] = f /\ \A id \in 1 .. Len(fs) : new[id] = fs[id]
  BY <1>1
<1> HIDE DEF new
<1>3. \A id \in 0 .. Len(fs) : End(new, id) = End(fs, id)
  BY <1>1, <1>2 DEF End
<1>4. End(new, Len(fs) + 1) = f.ends
  BY <1>1, <1>2 DEF End
<1>5. ASSUME NEW id \in 1 .. Len(new)
      PROVE  FrameFits(new[id]) /\ new[id].ends = End(new, id - 1) + Size(new[id].bucket)
  <2>1. CASE id = Len(fs) + 1
    <3>1. id - 1 = Len(fs) /\ new[id] = f /\ Len(fs) \in 0 .. Len(fs)
      BY <1>1, <1>2, <2>1
    <3>2. End(new, id - 1) = End(fs, Len(fs))
      BY <1>3, <3>1
    <3>. QED  BY <3>1, <3>2
  <2>2. CASE id \in 1 .. Len(fs)
    <3>1. id - 1 \in 0 .. Len(fs) /\ new[id] = fs[id]
      BY <1>1, <1>2, <2>2
    <3>2. End(new, id - 1) = End(fs, id - 1)
      BY <1>3, <3>1
    <3>3. FrameFits(fs[id]) /\ fs[id].ends = End(fs, id - 1) + Size(fs[id].bucket)
      BY <2>2 DEF InLine
    <3>. QED  BY <3>1, <3>2, <3>3
  <2>. QED  BY <1>1, <1>2, <2>1, <2>2
<1>6. InLine(new)
  BY <1>2, <1>5 DEF InLine
<1>. QED  BY <1>2, <1>3, <1>4, <1>6 DEF new

LEMMA Joined ==
  ASSUME NEW S, NEW s \in Seq(S), NEW t \in Seq(S), NEW n, Len(t) = n
  PROVE  /\ s \o t \in Seq(S) /\ Len(s \o t) = Len(s) + n
         /\ \A q \in 1 .. Len(s) : (s \o t)[q] = s[q]
         /\ \A p \in 1 .. n : (s \o t)[Len(s) + p] = t[p]
OBVIOUS

LEMMA SendFramed ==
  ASSUME FramingInv, NEW kind \in {<<1, 3>>, <<2, 0>>}, NEW length \in PayloadLengths, NEW room \in Rooms,
         SendFrame(kind[1], kind[2], length, room)
  PROVE  FramingInv'
<1> USE DEF FramingInv
<1>1. /\ sound = None /\ encoded' = EncodeResult(length, room)
      /\ UNCHANGED <<key, sound, received>>
  BY DEF SendFrame
<1>2. /\ Position(0) /\ Len(connection) = End(frames, Len(frames)) /\ received = <<>>
      /\ connection \in Seq(WireByte) /\ InLine(frames) /\ Len(frames) \in Nat /\ Len(connection) \in Nat
      /\ Comes(frames, connection, None, 0)
  BY <1>1, BeforeTheEnd
<1>3. EncodedInRoom'
  BY <1>1, EncodingFits DEF EncodedInRoom
<1>4. Accepted' = {}
  BY <1>1, <1>2 DEF Accepted
<1>5. Got'
  BY <1>1, <1>2, <1>4 DEF Got
<1>6. CASE encoded'.rc # "OK"
  <2>1. UNCHANGED <<frames, connection>>
    BY <1>6 DEF SendFrame
  <2>2. Framed'
    BY <1>1, <1>2, <1>3, <2>1 DEF Framed
  <2>3. Position(0)'
    BY <1>1, <1>2, <1>4, <2>1 DEF Position
  <2>. QED  BY <1>5, <2>2, <2>3
<1>7. CASE encoded'.rc = "OK"
  <2> DEFINE b == BucketFor(length)
             f == [type |-> kind[1], hops |-> kind[2], length |-> length, bucket |-> b,
                   key |-> key.sender, ends |-> Len(connection')]
             w == Wire(Len(frames) + 1, b)
  <2>1. connection' = connection \o w /\ frames' = Append(frames, f)
    BY <1>7 DEF SendFrame
  <2>2. key.sender # "none" /\ b # 0
    BY <1>1, <1>7 DEF EncodeResult, Encoding
  <2>3. length \in Nat
    BY Sizes
  <2>4. /\ b \in ToSet(Buckets) /\ length + InnerHeader <= b
        /\ \A d \in ToSet(Buckets) : length + InnerHeader <= d => b <= d
    BY <2>2, <2>3, BucketFits
  <2>5. b \in Nat \ {0} /\ Size(b) \in Nat
    BY <2>4, Sizes, SizeFacts
  <2>6. w \in Seq(WireByte) /\ Len(w) = Size(b)
    <3>1. Len(frames) + 1 \in Nat
      BY <1>2
    <3>. QED  BY <2>5, <3>1, WireLength
  <2> HIDE DEF w, b
  <2>7. /\ connection' \in Seq(WireByte) /\ Len(connection') = Len(connection) + Size(b)
        /\ \A q \in 1 .. Len(connection) : connection'[q] = connection[q]
        /\ \A p \in 1 .. Size(b) : connection'[Len(connection) + p] = w[p]
    <3>1. /\ connection \o w \in Seq(WireByte) /\ Len(connection \o w) = Len(connection) + Size(b)
          /\ \A q \in 1 .. Len(connection) : (connection \o w)[q] = connection[q]
          /\ \A p \in 1 .. Size(b) : (connection \o w)[Len(connection) + p] = w[p]
      <4>1. connection \in Seq(WireByte)
        BY <1>2
      <4> HIDE DEF WireByte
      <4>. QED  BY ONLY <4>1, <2>6, Joined
    <3>. QED  BY <2>1, <3>1
  <2>8. /\ f \in FrameSent /\ FrameFits(f) /\ f.ends = End(frames, Len(frames)) + Size(f.bucket)
        /\ f.key = key.sender /\ f.bucket = b /\ f.ends = Len(connection')
    <3>1. key.sender \in {"psk", "other"}
      BY <2>2 DEF Framed
    <3>2. kind[1] \in {1, 2} /\ kind[2] \in {0, 3}
      OBVIOUS
    <3>3. Len(connection') \in Nat
      BY <1>2, <2>5, <2>7
    <3>4. f \in FrameSent
      BY <2>3, <2>5, <3>1, <3>2, <3>3 DEF FrameSent
    <3>5. FrameFits(f)
      BY <2>4 DEF FrameFits
    <3>. QED  BY <1>2, <2>7, <3>4, <3>5
  <2> HIDE DEF f
  <2>9. /\ InLine(frames') /\ Len(frames') = Len(frames) + 1
        /\ frames'[Len(frames) + 1] = f /\ \A id \in 1 .. Len(frames) : frames'[id] = frames[id]
        /\ \A id \in 0 .. Len(frames) : End(frames', id) = End(frames, id)
        /\ End(frames', Len(frames) + 1) = f.ends
    <3>1. /\ InLine(Append(frames, f)) /\ Len(Append(frames, f)) = Len(frames) + 1
          /\ Append(frames, f)[Len(frames) + 1] = f
          /\ \A id \in 1 .. Len(frames) : Append(frames, f)[id] = frames[id]
          /\ \A id \in 0 .. Len(frames) : End(Append(frames, f), id) = End(frames, id)
          /\ End(Append(frames, f), Len(frames) + 1) = f.ends
      BY <1>2, <2>8, EndsOfMore
    <3>. QED  BY <2>1, <3>1
  <2>10. Framed'
    <3>1. \A id \in 1 .. Len(frames') : frames'[id].key = key'.sender
      <4>1. \A id \in 1 .. Len(frames) : frames[id].key = key.sender
        BY DEF Framed
      <4>. QED  BY <1>1, <1>2, <2>8, <2>9, <4>1
    <3>2. Len(frames') \in Nat
      BY <1>2, <2>9
    <3>. QED  BY <1>1, <1>2, <1>3, <2>7, <2>9, <3>1, <3>2 DEF Framed
  <2>11. Comes(frames', connection', None, 0)
    <3>1. SUFFICES ASSUME NEW id \in 1 .. Len(frames'), NEW p \in 1 .. Size(frames'[id].bucket)
                   PROVE  connection'[End(frames', id - 1) + p - 0] = Wire(id, frames'[id].bucket)[p]
      BY DEF Comes
    <3>2. CASE id = Len(frames) + 1
      <4>1. id - 1 = Len(frames) /\ Len(frames) \in 0 .. Len(frames) /\ frames'[id] = f
        BY <1>2, <2>9, <3>2
      <4>2. End(frames', id - 1) = Len(connection)
        BY <1>2, <2>9, <4>1
      <4>3. p \in 1 .. Size(b) /\ frames'[id].bucket = b
        BY <2>8, <4>1
      <4>4. Len(connection) + p - 0 = Len(connection) + p
        BY <1>2, <2>5, <4>3
      <4>. QED  BY <2>7, <3>2, <4>2, <4>3, <4>4 DEF w
    <3>3. CASE id \in 1 .. Len(frames)
      <4>1. /\ id - 1 \in 0 .. Len(frames) /\ id \in 0 .. Len(frames) /\ frames'[id] = frames[id]
            /\ End(frames, id) = End(frames, id - 1) + Size(frames[id].bucket)
            /\ Size(frames[id].bucket) \in Nat
        BY <1>2, <2>9, <3>3, FrameFacts
      <4>2. End(frames', id - 1) = End(frames, id - 1) /\ End(frames, id - 1) \in Nat
        BY <1>2, <2>9, <4>1, EndsAreNatural
      <4>3. End(frames, id) <= Len(connection) /\ End(frames, id) \in Nat
        <5>1. Len(frames) \in 0 .. Len(frames)
          BY <1>2
        <5>2. id = Len(frames) \/ End(frames, id) < End(frames, Len(frames))
          BY <1>2, <3>3, <4>1, <5>1, EndsGrow
        <5>3. End(frames, id) \in Nat /\ End(frames, Len(frames)) \in Nat
          BY <1>2, <4>1, <5>1, EndsAreNatural
        <5>. QED  BY <1>2, <5>2, <5>3
      <4>4. p \in 1 .. Size(frames[id].bucket)
        BY <4>1
      <4>5. End(frames, id - 1) + p - 0 \in 1 .. Len(connection)
        BY <1>2, <4>1, <4>2, <4>3, <4>4
      <4>6. connection[End(frames, id - 1) + p - 0] = Wire(id, frames[id].bucket)[p]
        BY <1>2, <3>3, <4>4, <4>5 DEF Comes
      <4>. QED  BY <2>7, <4>1, <4>2, <4>5, <4>6
    <3>. QED  BY <1>2, <2>9, <3>2, <3>3
  <2>12. End(frames', Len(frames')) = Len(connection')
    BY <2>8, <2>9
  <2>13. Position(0)'
    BY <1>1, <1>2, <1>4, <2>7, <2>5, <2>11, <2>12 DEF Position
  <2>. QED  BY <1>5, <2>10, <2>13
<1>. QED  BY <1>6, <1>7


LEMMA EndsFramed ==
  ASSUME FramingInv, NEW n \in 0 .. Len(connection), Ends(n)
  PROVE  FramingInv'
<1>1. /\ sound = None /\ frames # <<>> /\ sound' = n /\ connection' = SubSeq(connection, 1, n)
      /\ UNCHANGED <<key, frames, encoded, received>>
  BY DEF Ends
<1>2. /\ Position(0) /\ Len(connection) = End(frames, Len(frames)) /\ received = <<>>
      /\ connection \in Seq(WireByte) /\ InLine(frames) /\ Len(frames) \in Nat /\ Len(connection) \in Nat
      /\ Comes(frames, connection, None, 0)
  BY <1>1, BeforeTheEnd
<1>3. /\ connection' \in Seq(WireByte) /\ Len(connection') = n /\ n \in Nat /\ n # None
      /\ \A q \in 1 .. n : connection'[q] = connection[q]
  <2>1. n \in Nat /\ n <= Len(connection) /\ n # None
    BY <1>2 DEF None
  <2> HIDE DEF WireByte
  <2>2. /\ SubSeq(connection, 1, n) \in Seq(WireByte) /\ Len(SubSeq(connection, 1, n)) = n
        /\ \A q \in 1 .. n : SubSeq(connection, 1, n)[q] = connection[q]
    BY <1>2, <2>1
  <2>. QED  BY <1>1, <2>1, <2>2
<1>4. Accepted' = {} /\ Accepted = {}
  BY <1>1, <1>2 DEF Accepted
<1>5. Got'
  BY <1>1, <1>2, <1>4 DEF FramingInv, Got
<1>6. Framed'
  <2>1. n \in 0 .. End(frames, Len(frames))
    BY <1>2
  <2>. QED  BY <1>1, <1>2, <1>3, <2>1 DEF FramingInv, Framed, EncodedInRoom
<1>7. Comes(frames, connection', n, 0)
  <2>1. SUFFICES ASSUME NEW id \in 1 .. Len(frames), NEW p \in 1 .. Size(frames[id].bucket),
                        End(frames, id - 1) + p - 0 \in 1 .. Len(connection')
                 PROVE  connection'[End(frames, id - 1) + p - 0] = Wire(id, frames[id].bucket)[p]
    BY DEF Comes
  <2>2. End(frames, id - 1) + p - 0 \in 1 .. Len(connection)
    BY <1>2, <1>3, <2>1
  <2>3. connection[End(frames, id - 1) + p - 0] = Wire(id, frames[id].bucket)[p]
    BY <1>2, <2>1, <2>2 DEF Comes
  <2>. QED  BY <1>3, <2>1, <2>3
<1>8. InStep(0)'
  <2>1. 0 \in 0 .. Len(frames) /\ End(frames, 0) = 0
    BY <1>2 DEF End
  <2>2. Taken(0)'
    BY DEF Taken
  <2>. QED  BY <1>1, <1>3, <2>1, <2>2 DEF InStep
<1>9. Position(0)'
  BY <1>1, <1>2, <1>3, <1>4, <1>7, <1>8 DEF Position
<1>. QED  BY <1>5, <1>6, <1>9 DEF FramingInv

LEMMA ChangesFramed ==
  ASSUME FramingInv, NEW i \in DOMAIN connection, NEW v \in Wrong, Changes(i, v)
  PROVE  FramingInv'
<1>1. /\ sound = None /\ frames # <<>> /\ sound' = i - 1
      /\ connection' = [connection EXCEPT ![i] = Clear(v)]
      /\ UNCHANGED <<key, frames, encoded, received>>
  BY DEF Changes
<1>2. /\ Position(0) /\ Len(connection) = End(frames, Len(frames)) /\ received = <<>>
      /\ connection \in Seq(WireByte) /\ InLine(frames) /\ Len(frames) \in Nat /\ Len(connection) \in Nat
      /\ Comes(frames, connection, None, 0)
  BY <1>1, BeforeTheEnd
<1>3. /\ connection' \in Seq(WireByte) /\ Len(connection') = Len(connection)
      /\ \A q \in 1 .. Len(connection) : connection'[q] = IF q = i THEN Clear(v) ELSE connection[q]
  <2>1. Clear(v) \in WireByte
    BY Sizes DEF Clear, WireByte
  <2> HIDE DEF WireByte
  <2>. QED  BY <1>1, <1>2, <2>1
<1>4. i \in 1 .. Len(connection) /\ i - 1 \in 0 .. Len(connection) /\ i - 1 # None /\ i - 1 < i
  BY <1>2 DEF None
<1>5. Accepted' = {} /\ Accepted = {}
  BY <1>1, <1>2 DEF Accepted
<1>6. Got'
  BY <1>1, <1>2, <1>5 DEF FramingInv, Got
<1>7. Framed'
  BY <1>1, <1>2, <1>3, <1>4 DEF FramingInv, Framed, EncodedInRoom
<1>8. Comes(frames, connection', i - 1, 0)
  <2>1. SUFFICES ASSUME NEW id \in 1 .. Len(frames), NEW p \in 1 .. Size(frames[id].bucket),
                        End(frames, id - 1) + p - 0 \in 1 .. Len(connection')
                 PROVE  \/ connection'[End(frames, id - 1) + p - 0] = Wire(id, frames[id].bucket)[p]
                        \/ connection'[End(frames, id - 1) + p - 0].part = "prefix" /\ End(frames, id - 1) + p > i - 1
    BY <1>4 DEF Comes
  <2>2. End(frames, id - 1) + p - 0 \in 1 .. Len(connection)
    BY <1>3, <2>1
  <2>3. connection[End(frames, id - 1) + p - 0] = Wire(id, frames[id].bucket)[p]
    BY <1>2, <2>2 DEF Comes
  <2>4. CASE End(frames, id - 1) + p - 0 = i
    <3>1. connection'[End(frames, id - 1) + p - 0].part = "prefix"
      BY <1>3, <1>4, <2>4 DEF Clear
    <3>2. End(frames, id - 1) + p > i - 1
      <4>1. id - 1 \in 0 .. Len(frames)
        BY <1>2
      <4>2. End(frames, id - 1) \in Nat
        BY <1>2, <4>1, EndsAreNatural
      <4>3. Size(frames[id].bucket) \in Nat
        BY <1>2, FrameFacts
      <4>. QED  BY <1>4, <2>4, <4>2, <4>3
    <3>. QED  BY <3>1, <3>2
  <2>5. CASE End(frames, id - 1) + p - 0 # i
    BY <1>3, <2>2, <2>3, <2>5
  <2>. QED  BY <2>4, <2>5
<1>9. InStep(0)'
  <2>1. 0 \in 0 .. Len(frames) /\ End(frames, 0) = 0
    BY <1>2 DEF End
  <2>2. Taken(0)'
    BY DEF Taken
  <2>3. 0 <= i - 1
    BY <1>2, <1>4
  <2>. QED  BY <1>1, <2>1, <2>2, <2>3 DEF InStep
<1>10. Position(0)'
  BY <1>1, <1>2, <1>3, <1>4, <1>5, <1>8, <1>9 DEF Position
<1>. QED  BY <1>6, <1>7, <1>10 DEF FramingInv


LEMMA ReceiveFramed ==
  ASSUME FramingInv, Receive
  PROVE  FramingInv'
<1> DEFINE r == Received(connection)
           now == Len(received) + 1
           new == [recv |-> r.result, decode |-> Decoded(connection), first |-> Len(connection)]
<1>1. /\ sound # None /\ received' = Append(received, new)
      /\ connection' = SubSeq(connection, r.took + 1, Len(connection))
      /\ UNCHANGED <<key, frames, encoded, sound>>
  BY DEF Receive
<1>2. /\ Framed /\ Got /\ InLine(frames) /\ Len(frames) \in Nat /\ connection \in Seq(WireByte)
      /\ Len(connection) \in Nat /\ sound \in Nat /\ End(frames, Len(frames)) \in Nat
  <2>1. /\ Framed /\ Got /\ InLine(frames) /\ connection \in Seq(WireByte) /\ Len(frames) \in Nat
        /\ sound \in 0 .. End(frames, Len(frames))
    BY <1>1 DEF FramingInv, Framed
  <2>2. End(frames, Len(frames)) \in Nat
    BY <2>1, EndsAreNatural
  <2>. QED  BY <2>1, <2>2
<1>3. PICK c \in Nat : Position(c)
  BY DEF FramingInv
<1>4. /\ r.took \in 0 .. Len(connection)
      /\ new.recv = new.decode \/ (new.recv.rc = "RECV" /\ new.decode.rc = "MALFORMED")
  <2>1. \/ r.result = Decoded(connection)
        \/ r.result.rc = "RECV" /\ Decoded(connection).rc = "MALFORMED"
    BY <1>2, ParsersAgree
  <2>. QED  BY <1>2, <2>1, ParsersAgree
<1>5. r.result.rc = "OK" =>
        /\ r.result.id \in 1 .. Len(frames) /\ c = End(frames, r.result.id - 1)
        /\ r.took = Size(frames[r.result.id].bucket)
        /\ frames[r.result.id].key = key.receiver
  BY <1>2, <1>3, AcceptedInStep
<1>23. PICK t \in 0 .. Len(connection) : t = r.took
  BY <1>4
<1>24. PICK e \in Nat : e = c + t
  BY <1>2
<1> HIDE DEF r
\* What was received before stays, and one result more is there.
<1>6. /\ \E S : received' \in Seq(S)
      /\ Len(received) \in Nat /\ Len(received') = now /\ received'[now] = new
      /\ DOMAIN received = 1 .. Len(received) /\ DOMAIN received' = 1 .. now
      /\ \A i \in 1 .. Len(received) : received'[i] = received[i]
  <2>1. PICK S : received \in Seq(S)
    BY <1>2 DEF Got
  <2> HIDE DEF new
  <2>2. received \in Seq(S \cup {new})
    BY <2>1
  <2>3. received' \in Seq(S \cup {new})
    BY <1>1, <2>2
  <2>. QED  BY <1>1, <2>2, <2>3
<1> HIDE DEF new
<1>7. new.recv = r.result
  BY DEF new
<1>8. \A i \in Accepted' : \/ i \in Accepted /\ i # now /\ received'[i] = received[i]
                           \/ i = now /\ r.result.rc = "OK" /\ received'[i] = new
  BY <1>6, <1>7 DEF Accepted
<1>9. /\ \A i \in Accepted : i \in Accepted' /\ received'[i] = received[i] /\ i < now
      /\ r.result.rc = "OK" => now \in Accepted'
  BY <1>6, <1>7 DEF Accepted
<1>10. ASSUME NEW i \in Accepted
       PROVE  /\ received[i].recv.id \in 1 .. Len(frames) /\ key.sender = key.receiver
              /\ frames[received[i].recv.id].ends <= c
  <2>1. received[i].recv.id \in 1 .. Len(frames) /\ key.sender = key.receiver
    BY <1>2 DEF Got
  <2>2. frames[received[i].recv.id].ends <= c
    BY <1>3 DEF Position
  <2>. QED  BY <2>1, <2>2
<1>11. \A id \in 1 .. Len(frames) : frames[id].ends = End(frames, id) /\ frames[id].ends \in Nat
  <2>1. \A id \in 1 .. Len(frames) : id \in 0 .. Len(frames) /\ id # 0
    BY <1>2
  <2>2. \A id \in 1 .. Len(frames) : frames[id].ends = End(frames, id)
    BY <2>1 DEF End
  <2>3. \A id \in 1 .. Len(frames) : End(frames, id) \in Nat
    BY <1>2, <2>1, EndsAreNatural
  <2>. QED  BY <2>2, <2>3
<1>12. ASSUME r.result.rc = "OK"
       PROVE  /\ r.result.id \in 1 .. Len(frames) /\ key.sender = key.receiver
              /\ frames[r.result.id].ends = e
              /\ \A i \in Accepted : received[i].recv.id < r.result.id
  <2> DEFINE id == r.result.id
  <2>1. id \in 1 .. Len(frames) /\ c = End(frames, id - 1) /\ t = Size(frames[id].bucket)
        /\ frames[id].key = key.receiver
    BY <1>5, <1>12, <1>23
  <2> HIDE DEF id
  <2>2. frames[id].key = key.sender
    BY <1>2, <2>1 DEF Framed
  <2>3. End(frames, id) = End(frames, id - 1) + Size(frames[id].bucket) /\ id - 1 \in 0 .. Len(frames)
    BY <1>2, <2>1, FrameFacts
  <2>4. ASSUME NEW i \in Accepted  PROVE received[i].recv.id < id
    <3> DEFINE j == received[i].recv.id
    <3>1. j \in 1 .. Len(frames) /\ frames[j].ends <= c
      BY <1>10
    <3> HIDE DEF j
    <3>2. j \in 0 .. Len(frames) /\ End(frames, j) <= End(frames, id - 1)
      BY <1>2, <1>11, <2>1, <3>1
    <3>3. ~ (id - 1 < j)
      <4>1. End(frames, j) \in Nat /\ End(frames, id - 1) \in Nat
        BY <1>2, <2>3, <3>2, EndsAreNatural
      <4>2. id - 1 < j => End(frames, id - 1) < End(frames, j)
        BY <1>2, <2>3, <3>2, EndsGrow
      <4>. QED  BY <3>2, <4>1, <4>2
    <3>4. j < id
      BY <1>2, <2>1, <3>2, <3>3
    <3>. QED  BY <3>4 DEF j
  <2>. QED  BY <1>11, <1>24, <2>1, <2>2, <2>3, <2>4 DEF id
<1>13. Got'
  <2>1. ASSUME NEW i \in 1 .. now
        PROVE  \/ received'[i].recv = received'[i].decode
               \/ received'[i].recv.rc = "RECV" /\ received'[i].decode.rc = "MALFORMED"
    <3>1. CASE i = now
      BY <1>4, <1>6, <3>1
    <3>2. CASE i \in 1 .. Len(received)
      BY <1>2, <1>6, <3>2 DEF Got
    <3>. QED  BY <1>6, <3>1, <3>2
  <2>2. ASSUME NEW i \in Accepted'
        PROVE  received'[i].recv.id \in 1 .. Len(frames) /\ key.sender = key.receiver
    BY <1>7, <1>8, <1>10, <1>12
  <2>3. ASSUME NEW i \in Accepted', NEW j \in Accepted', i < j
        PROVE  received'[i].recv.id < received'[j].recv.id
    <3>1. i \in Accepted /\ received'[i] = received[i]
      <4>1. i # now
        BY <1>6, <1>8, <1>9, <2>3 DEF Accepted
      <4>. QED  BY <1>8, <4>1
    <3>2. CASE j = now /\ r.result.rc = "OK" /\ received'[j] = new
      BY <1>7, <1>12, <3>1, <3>2
    <3>3. CASE j \in Accepted /\ received'[j] = received[j]
      BY <1>2, <2>3, <3>1, <3>3 DEF Got
    <3>. QED  BY <1>8, <3>2, <3>3
  <2>. QED  BY <1>1, <1>6, <2>1, <2>2, <2>3 DEF Got
<1>14. /\ connection' \in Seq(WireByte) /\ Len(connection') = Len(connection) - t
       /\ t \in Nat /\ Len(connection') \in Nat
       /\ \A q \in 1 .. Len(connection') : connection'[q] = connection[q + t]
  <2> HIDE DEF WireByte
  <2>1. t \in Nat /\ t <= Len(connection)
    BY <1>2
  <2>2. connection' = SubSeq(connection, t + 1, Len(connection))
    BY <1>1, <1>23
  <2>. QED  BY <1>2, <2>1, <2>2
<1>15. Framed'
  BY <1>1, <1>2, <1>14 DEF Framed, EncodedInRoom
<1>16. Comes(frames, connection', sound, e)
  <2>1. SUFFICES ASSUME NEW id \in 1 .. Len(frames), NEW p \in 1 .. Size(frames[id].bucket),
                        End(frames, id - 1) + p - e \in 1 .. Len(connection')
                 PROVE  LET b == connection'[End(frames, id - 1) + p - e] IN
                        \/ b = Wire(id, frames[id].bucket)[p]
                        \/ b.part = "prefix" /\ sound # None /\ End(frames, id - 1) + p > sound
    BY DEF Comes
  <2>2. End(frames, id - 1) \in Nat /\ Size(frames[id].bucket) \in Nat
    <3>1. id - 1 \in 0 .. Len(frames)
      BY <1>2
    <3>. QED  BY <1>2, <3>1, EndsAreNatural, FrameFacts
  <2>3. /\ End(frames, id - 1) + p - c \in 1 .. Len(connection)
        /\ (End(frames, id - 1) + p - e) + t = End(frames, id - 1) + p - c
    <3>1. p \in Nat /\ c \in Nat /\ t \in Nat /\ Len(connection') = Len(connection) - t
      BY <1>14, <2>2
    <3>2. Len(connection) \in Nat /\ Len(connection') \in Nat /\ e \in Nat /\ e = c + t
      BY <1>2, <1>14, <1>24
    <3>3. End(frames, id - 1) + p - e \in 1 .. Len(connection')
      BY <2>1
    <3> DEFINE x == End(frames, id - 1)
               m == Len(connection)
               n == Len(connection')
    <3>4. x \in Nat /\ m \in Nat /\ n \in Nat /\ n = m - t /\ x + p - e \in 1 .. n
      BY <2>2, <3>1, <3>2, <3>3
    <3> HIDE DEF x, m, n
    <3>5. x + p - c \in 1 .. m /\ (x + p - e) + t = x + p - c
      BY ONLY <3>1, <3>2, <3>4
    <3>. QED  BY <3>5 DEF x, m
  <2>4. \/ connection[End(frames, id - 1) + p - c] = Wire(id, frames[id].bucket)[p]
        \/ /\ connection[End(frames, id - 1) + p - c].part = "prefix" /\ sound # None
           /\ End(frames, id - 1) + p > sound
    BY <1>3, <2>3 DEF Position, Comes
  <2>5. connection'[End(frames, id - 1) + p - e] = connection[End(frames, id - 1) + p - c]
    BY <1>14, <2>1, <2>3
  <2>. QED  BY <2>4, <2>5
<1>17. ASSUME NEW i \in Accepted'  PROVE frames[received'[i].recv.id].ends <= e
  <2>1. CASE i = now /\ r.result.rc = "OK" /\ received'[i] = new
    BY <1>7, <1>12, <2>1
  <2>2. CASE i \in Accepted /\ received'[i] = received[i]
    <3>1. frames[received[i].recv.id].ends <= c /\ received[i].recv.id \in 1 .. Len(frames)
      BY <1>10, <2>2
    <3>2. frames[received[i].recv.id].ends \in Nat
      BY <1>11, <3>1
    <3>. QED  BY <1>14, <1>24, <2>2, <3>1, <3>2
  <2>. QED  BY <1>8, <2>1, <2>2
\* What was taken stays so, and every frame that came whole is taken in its turn.
<1>18. \A id \in 1 .. Len(frames) :
         (\E i \in Accepted : received[i].recv.id = id) => \E i \in Accepted' : received'[i].recv.id = id
  BY <1>9
<1>19. ASSUME Past(c)  PROVE Past(e)'
  <2>1. ASSUME NEW id \in Whole'
        PROVE  /\ frames[id].ends <= e
               /\ key.sender = key.receiver => \E i \in Accepted' : received'[i].recv.id = id
    <3>1. id \in Whole /\ id \in 1 .. Len(frames)
      BY <1>1, <1>2 DEF Whole, InLine
    <3>2. /\ frames[id].ends <= c
          /\ key.sender = key.receiver => \E i \in Accepted : received[i].recv.id = id
      BY <1>19, <3>1 DEF Past
    <3>3. frames[id].ends \in Nat
      BY <1>11, <3>1
    <3>. QED  BY <1>14, <1>18, <1>24, <3>1, <3>2, <3>3
  <2>. QED  BY <1>1, <2>1 DEF Past
<1>20. ASSUME InStep(c)  PROVE (InStep(e) \/ Past(e))'
  <2>1. PICK k \in 0 .. Len(frames) :
          c = End(frames, k) /\ c <= sound /\ (key.sender = key.receiver => Taken(k))
    BY <1>20 DEF InStep
  <2>2. CASE t = 0
    <3>1. key.sender = key.receiver => Taken(k)'
      <4>1. SUFFICES ASSUME key.sender = key.receiver, NEW id \in 1 .. k
            PROVE  \E i \in Accepted' : received'[i].recv.id = id
        BY Zenon DEF Taken
      <4>2. id \in 1 .. Len(frames)
        BY <1>2
      <4>3. \E i \in Accepted : received[i].recv.id = id
        BY <2>1, <4>1, Zenon DEF Taken
      <4>. QED  BY <1>18, <4>2, <4>3, Zenon
    <3>2. InStep(c)'
      BY <1>1, <2>1, <3>1 DEF InStep
    <3>3. e = c
      BY <1>24, <2>2
    <3>. QED  BY <3>2, <3>3
  <2>3. CASE t # 0 /\ k = Len(frames)
    <3>1. Len(connection) = 0
      BY <1>2, <1>3, <2>1, <2>3 DEF Position
    <3>. QED  BY <1>4, <2>3, <3>1
  <2>4. CASE t # 0 /\ k # Len(frames) /\ End(frames, k + 1) <= sound
    <3> DEFINE n == k + 1
    <3>1. n \in 1 .. Len(frames) /\ n - 1 = k
      BY <1>2, <2>1, <2>4
    <3>2. key.receiver # "none"
      BY <1>23, <2>4 DEF r, Received
    <3> HIDE DEF n
    <3>3. End(frames, n) <= sound /\ c = End(frames, n - 1)
      BY <2>1, <2>4, <3>1 DEF n
    <3>4. t = Size(frames[n].bucket) /\ r.result = Opened(Wire(n, frames[n].bucket))
      BY <1>1, <1>2, <1>3, <1>23, <3>1, <3>2, <3>3, ReadAsSent DEF r
    <3>5. e = End(frames, n)
      BY <1>2, <1>24, <3>1, <3>3, <3>4, FrameFacts
    <3>6. ASSUME key.sender = key.receiver  PROVE Taken(n)'
      <4>1. frames[n].key = key.receiver
        BY <1>2, <3>1, <3>6 DEF Framed
      <4>2. r.result = [rc |-> "OK", id |-> n]
        BY <1>2, <3>1, <3>4, <4>1, SentIsOpened
      <4>3. now \in Accepted' /\ received'[now].recv.id = n
        BY <1>6, <1>7, <1>9, <4>2
      <4>4. ASSUME NEW id \in 1 .. n  PROVE \E i \in Accepted' : received'[i].recv.id = id
        <5>1. CASE id = n
          BY <4>3, <5>1
        <5>2. CASE id \in 1 .. k
          <6>1. \E i \in Accepted : received[i].recv.id = id
            BY <2>1, <3>6, <5>2 DEF Taken
          <6>2. id \in 1 .. Len(frames)
            BY <1>2, <2>1, <5>2
          <6>. QED  BY <1>18, <6>1, <6>2
        <5>. QED  BY <1>2, <3>1, <5>1, <5>2
      <4>. QED  BY <4>4 DEF Taken
    <3>7. InStep(e)'
      <4>1. n \in 0 .. Len(frames) /\ e <= sound
        BY <3>1, <3>3, <3>5
      <4>2. key'.sender = key'.receiver => Taken(n)'
        BY <1>1, <3>6
      <4>. QED  BY <1>1, <3>5, <4>1, <4>2 DEF InStep
    <3>. QED  BY <3>7
  <2>5. CASE t # 0 /\ k # Len(frames) /\ ~ (End(frames, k + 1) <= sound)
    <3>1. ASSUME NEW id \in Whole  PROVE id \in 1 .. k
      <4>1. id \in 1 .. Len(frames) /\ End(frames, id) <= sound
        BY <1>2, <1>11 DEF Whole, InLine
      <4>2. k + 1 \in 0 .. Len(frames) /\ id \in 0 .. Len(frames)
        BY <1>2, <2>1, <2>5, <4>1
      <4>3. End(frames, id) \in Nat /\ End(frames, k + 1) \in Nat
        BY <1>2, <4>2, EndsAreNatural
      <4>4. ~ (k + 1 < id)
        <5>1. k + 1 < id => End(frames, k + 1) < End(frames, id)
          BY <1>2, <4>2, EndsGrow
        <5>. QED  BY <1>2, <2>5, <4>1, <4>3, <5>1
      <4>5. id # k + 1
        BY <2>5, <4>1
      <4>. QED  BY <1>2, <2>1, <4>1, <4>4, <4>5
    <3>2. ASSUME NEW id \in Whole
          PROVE  /\ frames[id].ends <= c
                 /\ key.sender = key.receiver => \E i \in Accepted : received[i].recv.id = id
      <4>1. id \in 1 .. k /\ id \in 1 .. Len(frames) /\ id \in 0 .. Len(frames)
        BY <1>2, <2>1, <3>1
      <4>2. End(frames, id) <= End(frames, k)
        <5>1. id = k \/ id < k
          BY <2>1, <4>1
        <5>2. End(frames, id) \in Nat
          BY <1>2, <4>1, EndsAreNatural
        <5>3. id < k => End(frames, id) < End(frames, k)
          BY <1>2, <2>1, <4>1, EndsGrow
        <5>4. End(frames, k) \in Nat
          BY <1>2, <2>1, EndsAreNatural
        <5>. QED  BY <5>1, <5>2, <5>3, <5>4
      <4>3. key.sender = key.receiver => \E i \in Accepted : received[i].recv.id = id
        BY <2>1, <4>1 DEF Taken
      <4>. QED  BY <1>11, <2>1, <4>1, <4>2, <4>3
    <3>3. Past(c)
      BY <3>2 DEF Past
    <3>. QED  BY <1>19, <3>3
  <2>. QED  BY <2>2, <2>3, <2>4, <2>5
<1>21. Position(e)'
  <2>1. e + Len(connection') = c + Len(connection)
    BY <1>2, <1>14, <1>24
  <2>2. /\ c + Len(connection) <= End(frames, Len(frames)) /\ c + Len(connection) >= sound
        /\ InStep(c) \/ Past(c)
    BY <1>1, <1>3 DEF Position
  <2>3. (InStep(e) \/ Past(e))'
    BY <1>19, <1>20, <2>2
  <2>. QED  BY <1>1, <1>14, <1>16, <1>17, <2>1, <2>2, <2>3 DEF Position
<1>. QED  BY <1>13, <1>14, <1>15, <1>21 DEF FramingInv


LEMMA StepFramed == FramingInv /\ [FramingNext]_framing => FramingInv'
<1> SUFFICES ASSUME FramingInv, [FramingNext]_framing  PROVE FramingInv'
  OBVIOUS
<1>1. CASE UNCHANGED framing
  <2>1. /\ key' = key /\ frames' = frames /\ encoded' = encoded
        /\ connection' = connection /\ sound' = sound /\ received' = received
    BY <1>1 DEF framing
  <2>2. Accepted' = Accepted /\ Whole' = Whole
    BY <2>1 DEF Accepted, Whole
  <2>3. Framed'
    BY <2>1 DEF FramingInv, Framed, EncodedInRoom
  <2>4. Got'
    BY <2>1, <2>2 DEF FramingInv, Got
  <2>5. PICK c \in Nat : Position(c)
    BY DEF FramingInv
  <2>6. \A k : Taken(k)' <=> Taken(k)
    BY <2>1, <2>2 DEF Taken
  <2>7. InStep(c)' <=> InStep(c)
    BY <2>1, <2>6 DEF InStep
  <2>8. Past(c)' <=> Past(c)
    BY <2>1, <2>2 DEF Past
  <2>9. Position(c)'
    BY <2>1, <2>2, <2>5, <2>7, <2>8 DEF Position
  <2>. QED  BY <2>3, <2>4, <2>9 DEF FramingInv
<1>2. CASE \E end \in {"sender", "receiver"}, k \in {"psk", "other"} : SetKey(end, k)
  BY <1>2, SetKeyFramed
<1>3. CASE \E kind \in {<<1, 3>>, <<2, 0>>}, length \in PayloadLengths, room \in Rooms :
             SendFrame(kind[1], kind[2], length, room)
  BY <1>3, SendFramed
<1>4. CASE \E n \in 0 .. Len(connection) : Ends(n)
  BY <1>4, EndsFramed
<1>5. CASE \E i \in DOMAIN connection, v \in Wrong : Changes(i, v)
  BY <1>5, ChangesFramed
<1>6. CASE Receive
  BY <1>6, ReceiveFramed
<1>7. CASE Drained
  <2>1. UNCHANGED framing
    BY <1>7 DEF Drained
  <2>. QED  BY <1>1, <2>1
<1>. QED  BY <1>1, <1>2, <1>3, <1>4, <1>5, <1>6, <1>7 DEF FramingNext

LEMMA InvFramingTypes == FramingInv => FramingTypes
<1> SUFFICES ASSUME FramingInv  PROVE FramingTypes
  OBVIOUS
<1>1. Framed /\ InLine(frames) /\ Len(frames) \in Nat /\ End(frames, Len(frames)) \in Nat
  <2>1. Framed /\ InLine(frames) /\ Len(frames) \in Nat
    BY DEF FramingInv, Framed
  <2>. QED  BY <2>1, EndsAreNatural
<1>2. EndOf(Len(frames)) = End(frames, Len(frames))
  BY DEF EndOf, End
<1>3. sound = None \/ sound \in 0 .. End(frames, Len(frames))
  BY <1>1 DEF Framed
<1>4. sound \in None .. EndOf(Len(frames))
  BY <1>1, <1>2, <1>3 DEF None
<1>. QED  BY <1>1, <1>4 DEF Framed, FramingTypes

LEMMA InvFramesAreOpened == FramingInv => FramesAreOpened
<1> SUFFICES ASSUME FramingInv  PROVE FramesAreOpened
  OBVIOUS
<1>1. /\ Framed /\ Got /\ InLine(frames) /\ DOMAIN frames = 1 .. Len(frames)
      /\ DOMAIN received = 1 .. Len(received) /\ Len(frames) \in Nat
  BY DEF FramingInv, Framed, Got, InLine
<1>2. ASSUME NEW id \in DOMAIN frames
      PROVE  LET need == frames[id].length + InnerHeader IN
             /\ frames[id].key # "none" /\ need <= frames[id].bucket
             /\ \A b \in ToSet(Buckets) : need <= b => frames[id].bucket <= b
  BY <1>1, <1>2, FrameFacts DEF InLine, FrameFits
<1>3. ASSUME received # <<>>, connection = <<>>, NEW id \in Whole
      PROVE  key.sender = key.receiver <=> \E i \in Accepted : received[i].recv.id = id
  <2>1. PICK c \in Nat : Position(c)
    BY DEF FramingInv
  <2>2. sound # None /\ id \in 1 .. Len(frames) /\ frames[id].ends <= sound
    BY <1>1, <1>3 DEF Framed, Whole
  <2>3. /\ c >= sound /\ (InStep(c) \/ Past(c))
    BY <1>3, <2>1, <2>2 DEF Position
  <2>4. ASSUME NEW i \in Accepted  PROVE key.sender = key.receiver
    BY <1>1 DEF Got
  <2>5. ASSUME key.sender = key.receiver  PROVE \E i \in Accepted : received[i].recv.id = id
    <3>1. CASE Past(c)
      BY <1>3, <2>5, <3>1 DEF Past
    <3>2. CASE InStep(c)
      <4>1. PICK k \in 0 .. Len(frames) : c = End(frames, k) /\ Taken(k)
        BY <2>5, <3>2 DEF InStep
      <4>2. id \in 0 .. Len(frames) /\ id # 0
        BY <1>1, <2>2
      <4>3. End(frames, id) = frames[id].ends
        BY <4>2 DEF End
      <4>4. End(frames, id) \in Nat /\ End(frames, k) \in Nat
        BY <1>1, <4>2, EndsAreNatural
      <4>5. sound \in Nat
        <5>1. sound \in 0 .. End(frames, Len(frames))
          BY <1>1, <2>2 DEF Framed
        <5>. QED  BY <5>1
      <4>6. End(frames, id) <= End(frames, k)
        BY <2>2, <2>3, <4>1, <4>3, <4>4, <4>5
      <4>7. k < id => End(frames, k) < End(frames, id)
        BY <1>1, <4>2, EndsGrow
      <4>8. id \in 1 .. k
        BY <1>1, <2>2, <4>4, <4>6, <4>7
      <4>. QED  BY <4>1, <4>8 DEF Taken
    <3>. QED  BY <2>3, <3>1, <3>2
  <2>. QED  BY <2>4, <2>5
<1>. QED  BY <1>1, <1>2, <1>3 DEF Got, FramesAreOpened

\* Keys are of their types, no more of a stream arrives as it was sent than
\* frames went out, and what privframe_encode says OK of is within the room its
\* caller gave, while all it writes is within the buffer of privframe_send.
THEOREM FramingTypesHold == FramingSpec => []FramingTypes
BY InitFraming, StepFramed, InvFramingTypes, PTL DEF FramingSpec

\* For every choice of buckets, payloads and frames, and wherever a connection
\* ends or changes, privframe_recv and privframe_decode agree on the bytes that
\* are left, every frame that came whole after whole ones is accepted, once and in
\* order, if the keys are the same, and what privframe_send sends fits its bucket.
THEOREM FramesAreOpenedInOrder == FramingSpec => []FramesAreOpened
BY InitFraming, StepFramed, InvFramesAreOpened, PTL DEF FramingSpec
===============================================================================
