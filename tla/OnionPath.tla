------------------------------ MODULE OnionPath ------------------------------
(***************************************************************************)
(* Messages on their way through relays: airbchan_send wraps a payload in  *)
(* one layer per hop (onionx.c) and seals the onion in an envelope of      *)
(* constant size for the first relay (airbchan.c); each relay opens its    *)
(* envelope, peels one layer, and seals the rest for the relay the layer   *)
(* names, until the exit recovers the payload.                             *)
(*                                                                         *)
(* The ciphers are ideal: an envelope or a layer opens under the key it    *)
(* was made for and no other, and HKDF gives every layer an id of its own. *)
(* An onion is therefore the message and the hop its outermost layer is    *)
(* for. The network between the relays loses, delays, reorders, duplicates *)
(* and misroutes envelopes.                                                *)
(***************************************************************************)
EXTENDS Integers, Sequences, FiniteSets

CONSTANTS
  Relays,
  Messages,       \* the seeds drawn by ox_wrap, one per call
  Paths,          \* the paths a client asks for
  Lengths,        \* the payload lengths it asks for
  Window,         \* OX_REPLAY_WINDOW
  MaxHops,        \* OX_MAX_HOPS
  HopOverhead,    \* AC_HOP_OVERHEAD: header, key, nonce and tag of a layer
  LengthPrefix,   \* AC_LENPFX
  EnvelopePlain,  \* AC_ENVELOPE_PLAIN
  BiggestBucket,  \* PF_BUCKETS[PF_NUM_BUCKETS - 1]
  WrapLimit,      \* the largest payload ox_wrap takes
  MaxEpoch,       \* bound: a relay rotates its window at most this often
  Unsent

\* The answers of airbchan_send (airbchan.h).
Codes == {"ok", "send", "too big", "onion"}

\* No path is so long that its layers alone exceed the envelope: the length
\* airbchan_send pads the payload to would wrap below zero (airbchan.c:138), and
\* the number of hops is tested only afterwards. Its callers keep to MaxHops.
ASSUME PathAssumption ==
  /\ Paths \subseteq Seq(Relays)
  /\ \A path \in Paths : Len(path) * HopOverhead + 2 <= EnvelopePlain
  /\ Lengths \subseteq Nat
  /\ Unsent \notin [path : Paths, len : Lengths, code : Codes]
ASSUME SizeAssumption ==
  /\ Window \in Nat \ {0} /\ MaxHops \in Nat \ {0} /\ MaxEpoch \in Nat \ {0}
  /\ HopOverhead \in Nat /\ LengthPrefix \in Nat
  /\ EnvelopePlain \in Nat /\ BiggestBucket \in Nat /\ WrapLimit \in Nat
  /\ MaxHops * HopOverhead + 2 + LengthPrefix <= EnvelopePlain
  /\ EnvelopePlain <= WrapLimit

VARIABLES
  sent,       \* what became of airbchan_send for each message
  net,        \* envelopes sealed and handed to the network, which may lose them
  seen,       \* the replay window of each relay
  epoch,      \* and its epoch
  accepted,   \* history: the layers <<message, hop>> relays have peeled
  cut,        \* history: those among them whose onward send failed
  delivered   \* history: how often a message's payload came out at its exit

vars == <<sent, net, seen, epoch, accepted, cut, delivered>>

Filter == INSTANCE ReplaySet WITH
  Ids <- Messages \X Nat, EpochMod <- MaxEpoch + 1, seen <- seen, epoch <- epoch, reply <- <<>>

-----------------------------------------------------------------------------
Path(m) == sent[m].path

\* An onion whose first hop - 1 layers are gone, and the envelope around it.
Onion(m, hop) == [message |-> m, hop |-> hop]

Envelope(to, onion) == [to |-> to, onion |-> onion]

\* Seeded fault: every layer of a message carries the same id.
HopIdIsSeed(m, hop) == <<m, 1>>

\* The id in the layer for one hop: HKDF of the seed under that hop's key.
HopId(m, hop) == <<m, hop>>

\* airbchan_max_payload.
MaxPayload(hops) ==
  IF hops * HopOverhead + LengthPrefix >= BiggestBucket THEN 0
  ELSE BiggestBucket - (hops * HopOverhead + LengthPrefix)

\* What airbchan_send pads the payload to, so that the onion fills the envelope.
Target(hops) == EnvelopePlain - 2 - hops * HopOverhead

\* The size of an onion of a path of hops hops when its outermost layer is for
\* the given one.
OnionSize(hops, hop) == Target(hops) + (hops - hop + 1) * HopOverhead

\* envelope_seal accepts an onion of this size.
Fits(size) == size + 2 <= EnvelopePlain

\* Seeded fault: the payload is not compared with the room that is left.
SendCodeUnsized(path, len) ==
  IF Len(path) < 1 THEN "send"
  ELSE IF len > MaxPayload(Len(path)) THEN "too big"
  ELSE IF Len(path) > MaxHops THEN "onion"
  ELSE "ok"

\* airbchan_send up to the socket, in the order of its tests.
SendCode(path, len) ==
  LET hops == Len(path) IN
  IF hops < 1 THEN "send"
  ELSE IF len > MaxPayload(hops) \/ len + LengthPrefix > Target(hops) THEN "too big"
  ELSE IF hops > MaxHops \/ Target(hops) > WrapLimit THEN "onion"
  ELSE IF ~ Fits(OnionSize(hops, 1)) THEN "too big"
  ELSE "ok"

-----------------------------------------------------------------------------
Init ==
  /\ sent = [m \in Messages |-> Unsent]
  /\ net = {}
  /\ seen = [r \in Relays |-> {}]
  /\ epoch = [r \in Relays |-> 1]
  /\ accepted = {}
  /\ cut = {}
  /\ delivered = [m \in Messages |-> 0]

\* airbchan_send; transport_send_raw may fail.
Send(m, path, len) ==
  /\ sent[m] = Unsent
  /\ \E code \in {SendCode(path, len), "send"} :
       /\ sent' = [sent EXCEPT ![m] = [path |-> path, len |-> len, code |-> code]]
       /\ net' = IF code = "ok" THEN net \cup {Envelope(path[1], Onion(m, 1))} ELSE net
  /\ UNCHANGED <<seen, epoch, accepted, cut, delivered>>

\* Seeded fault: the window is not consulted.
OpensUnchecked(r, e) == e.to = r /\ Path(e.onion.message)[e.onion.hop] = r

\* airbchan_recv at relay r returns AC_OK for envelope e: the envelope and the
\* outermost layer are for r, and the id is fresh.
Opens(r, e) ==
  /\ e.to = r
  /\ Path(e.onion.message)[e.onion.hop] = r
  /\ HopId(e.onion.message, e.onion.hop) \notin seen[r]

\* What ox_peel leaves in the window when it accepts.
Peel(r, e) ==
  LET m == e.onion.message  hop == e.onion.hop IN
  /\ Filter!Fills(seen[r]) => epoch[r] < MaxEpoch
  /\ seen' = [seen EXCEPT ![r] = Filter!Record(@, HopId(m, hop))]
  /\ epoch' = [epoch EXCEPT ![r] = IF Filter!Fills(seen[r]) THEN @ + 1 ELSE @]
  /\ accepted' = accepted \cup {<<m, hop>>}
  /\ sent' = sent

\* Seeded fault: the onion is sealed for the relay that has just peeled it.
ForwardMisaddressed(r, e) ==
  LET m == e.onion.message  hop == e.onion.hop IN
  /\ Opens(r, e)
  /\ hop < Len(Path(m))
  /\ Peel(r, e)
  /\ net' = net \cup {Envelope(r, Onion(m, hop + 1))}
  /\ UNCHANGED <<cut, delivered>>

\* A relay in the middle: airbchan_forward_to the relay the layer names. The id
\* is in the window by then, and stays there when the send fails.
Forward(r, e) ==
  LET m == e.onion.message  hop == e.onion.hop IN
  /\ Opens(r, e)
  /\ hop < Len(Path(m))
  /\ Peel(r, e)
  /\ IF Fits(OnionSize(Len(Path(m)), hop + 1))
     THEN \/ /\ net' = net \cup {Envelope(Path(m)[hop + 1], Onion(m, hop + 1))}
             /\ UNCHANGED cut
          \/ /\ cut' = cut \cup {<<m, hop>>}
             /\ UNCHANGED net
     ELSE UNCHANGED <<net, cut>>
  /\ UNCHANGED delivered

\* The exit: airbchan_exit_payload, if the length prefix is within the inner.
Deliver(r, e) ==
  LET m == e.onion.message  hop == e.onion.hop IN
  /\ Opens(r, e)
  /\ hop = Len(Path(m))
  /\ Peel(r, e)
  /\ delivered' = IF sent[m].len + LengthPrefix <= Target(hop)
                  THEN [delivered EXCEPT ![m] = @ + 1]
                  ELSE delivered
  /\ UNCHANGED <<net, cut>>

\* Any other envelope is refused: no key opens it, or its id has been seen.
Refuse(r, e) ==
  /\ ~ Opens(r, e)
  /\ UNCHANGED vars

Handle(r, e) == Forward(r, e) \/ Deliver(r, e) \/ Refuse(r, e)

Next ==
  \/ \E m \in Messages, path \in Paths, len \in Lengths : Send(m, path, len)
  \/ \E r \in Relays, e \in net : Handle(r, e)

\* The network delivers every envelope at least once to the relay it is for.
Envelopes == {Envelope(r, Onion(m, hop)) : r \in Relays, m \in Messages, hop \in 1 .. MaxHops}

Fairness == \A e \in Envelopes : WF_vars(e \in net /\ Handle(e.to, e))

Spec == Init /\ [][Next]_vars /\ Fairness

-----------------------------------------------------------------------------
TypeOK ==
  /\ sent \in [Messages -> {Unsent} \cup [path : Paths, len : Lengths, code : Codes]]
  /\ net \subseteq Envelopes
  /\ seen \in [Relays -> SUBSET (Messages \X (1 .. MaxHops))]
  /\ epoch \in [Relays -> 1 .. MaxEpoch]
  /\ accepted \subseteq Messages \X (1 .. MaxHops)
  /\ cut \subseteq accepted
  /\ delivered \in [Messages -> Nat]

Exit(m) == Path(m)[Len(Path(m))]

\* However often the network repeats an envelope, at any link, a payload comes
\* out at most once per epoch of the exit's window.
OncePerEpoch ==
  \A m \in Messages : delivered[m] > 0 => delivered[m] <= epoch[Exit(m)]

\* What a relay has peeled is passed on to the relay the layer names, unless
\* the send itself failed (airbchan.c:207): the rest of the onion always fits the
\* constant envelope of the next link, and the exit always finds the payload.
AcceptedIsPassedOn ==
  \A m \in Messages, hop \in 1 .. MaxHops :
     <<m, hop>> \in accepted \ cut =>
        IF hop < Len(Path(m))
        THEN Envelope(Path(m)[hop + 1], Onion(m, hop + 1)) \in net
        ELSE delivered[m] > 0

\* onionx.c:196-198: no id is seen by two relays, nor twice by one relay that
\* is on the path twice, so the windows of colluding relays have nothing in
\* common.
IdsUnrelated == \A r1, r2 \in Relays : r1 # r2 => seen[r1] \cap seen[r2] = {}

\* A message that left the client reaches its exit, although every relay on the
\* way filters replays and the network repeats and misroutes, unless a relay on
\* its path failed to send it on. (The bound on epochs stops a relay; it is no
\* relay of the code.)
SentIsDelivered ==
  \A m \in Messages :
     (sent[m] # Unsent /\ sent[m].code = "ok")
       ~> \/ delivered[m] > 0
          \/ \E layer \in cut : layer[1] = m
          \/ \E r \in Relays : epoch[r] = MaxEpoch
=============================================================================
