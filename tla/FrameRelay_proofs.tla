--------------------------- MODULE FrameRelay_proofs ---------------------------
(***************************************************************************)
(* Proofs about frames on their way through relays, for every network,     *)
(* every set of frames that clients write, every count and every backlog;  *)
(* and, at the end, about what is read of a stream of bits, for every      *)
(* width of a byte and every block that fits.                              *)
(*                                                                         *)
(* FramesAreAsSent says that a frame is reported once. That is not         *)
(* inductive: the invariant OneCopy counts the places where a frame can    *)
(* still come from - a connection nobody has read to its end, the hands of *)
(* a relay, the reports - and finds one at most for each client. Carried   *)
(* says what every frame on a connection keeps of its first sender, and    *)
(* that a relay's hands hold only frames whose digest was compared. Both   *)
(* need InHand: which connection, and which frame, a relay is busy with.   *)
(***************************************************************************)
EXTENDS FrameRelay, Tlv, FiniteSetTheorems, SequenceTheorems, WellFoundedInduction, TLAPS

\* A non-empty set of naturals has a least element.
LEMMA LeastNatural ==
  ASSUME NEW T, T \subseteq Nat, T # {}
  PROVE  \E m \in T : \A k \in T : m <= k
<1>1. PICK m \in T : \A k \in T : ~ (<<k, m>> \in OpToRel(<, Nat))
  BY NatLessThanWellFounded, WFMin
<1>2. \A k \in T : ~ (k < m)
  BY <1>1 DEF OpToRel
<1>. QED  BY <1>2

\* What clients write as payload or digest.
Texts == UNION {UNION {{f.payload, f.digest} : f \in Sends[c]} : c \in Clients}

Frames ==
  [magic : BOOLEAN, hops : 0 .. 255, length : Nat, payload : Texts, digest : Texts,
   origin : Clients, asked : 0 .. 255, meant : Texts, crossed : Nat]

Connections ==
  [from : Processes, to : Relays, frame : Frames, sent : Nat, open : BOOLEAN,
   state : {"queued", "accepted", "closed"}]

Indices == 1 .. Len(conns)

Busy(r) == relay[r] \in {"header", "body", "handle", "dial", "forward", "close"}

Shapes ==
  /\ conns \in Seq(Connections)
  /\ \A i \in Indices : conns[i].sent <= Total(conns[i].frame)
  /\ client \in [Clients -> {"start", "send", "done", "failed"}]
  /\ relay \in [Relays -> {"start", "accept", "header", "body", "handle", "dial", "forward",
                          "close", "down"}]
  /\ served \in [Relays -> Nat] /\ peer \in [Relays -> Nat] /\ fwd \in [Relays -> Nat]
  /\ frame = [r \in Relays |-> frame[r]]
  /\ next \in [Relays -> Relays \cup {NoNext, Garbled}] /\ want \in [Relays -> Int]
  /\ reports \in Seq([relay : Relays, frame : Frames])

\* The connection and the frame a relay is busy with.
InHand ==
  \A r \in Relays :
    /\ Busy(r) => peer[r] \in Indices /\ served[r] < want[r]
    /\ relay[r] \in {"handle", "dial", "forward"} => frame[r] \in Frames
    /\ relay[r] = "dial" => frame[r].hops > 0 /\ next[r] \in Relays
    /\ relay[r] = "forward" => fwd[r] \in Indices

-----------------------------------------------------------------------------
AsSent(f) == f.payload = f.meant /\ f.hops + f.crossed = f.asked

\* Relays whose frame is neither sent on nor reported yet.
Holding == {r \in Relays : relay[r] \in {"handle", "dial"}}

\* A client may write a digest that is none, a relay cannot.
OnWire(d) ==
  /\ d.frame.meant = d.frame.digest /\ d.frame.hops + d.frame.crossed = d.frame.asked
  /\ d.from \in Relays => d.frame.payload = d.frame.meant

Carried ==
  /\ \A i \in Indices : OnWire(conns[i])
  /\ \A r \in Holding : AsSent(frame[r])
  /\ \A k \in 1 .. Len(reports) : AsSent(reports[k].frame)

\* Connections whose frame nobody has read to its end.
Pending ==
  {i \in Indices :
     \/ conns[i].state = "queued"
     \/ conns[i].state = "accepted" /\ relay[conns[i].to] \in {"header", "body"} /\ peer[conns[i].to] = i}

OneCopy ==
  /\ \A i, j \in Pending : conns[i].frame.origin = conns[j].frame.origin => i = j
  /\ \A r, s \in Holding : frame[r].origin = frame[s].origin => r = s
  /\ \A k, l \in 1 .. Len(reports) : reports[k].frame.origin = reports[l].frame.origin => k = l
  /\ \A i \in Pending, r \in Holding : conns[i].frame.origin # frame[r].origin
  /\ \A i \in Pending, k \in 1 .. Len(reports) : conns[i].frame.origin # reports[k].frame.origin
  /\ \A r \in Holding, k \in 1 .. Len(reports) : frame[r].origin # reports[k].frame.origin

\* No frame is anywhere before its client has dialled.
NotBefore ==
  \A c \in Clients : client[c] = "start" =>
    /\ \A i \in Pending : conns[i].frame.origin # c
    /\ \A r \in Holding : frame[r].origin # c
    /\ \A k \in 1 .. Len(reports) : reports[k].frame.origin # c

-----------------------------------------------------------------------------
OfState(r, state) == {i \in Indices : conns[i].to = r /\ conns[i].state = state}

\* How the count of a relay and its backlog come about.
Counted ==
  \A r \in Relays :
    /\ relay[r] = "start" => served[r] = 0 /\ \A i \in Indices : conns[i].to # r
    /\ Listening(r) => /\ r \notin Requested
                       /\ served[r] = Cardinality(OfState(r, "closed"))
                       /\ OfState(r, "accepted") = IF relay[r] = "accept" THEN {} ELSE {peer[r]}
    /\ served[r] <= Len(conns) /\ (want[r] >= 0 => served[r] <= want[r])
    /\ Cardinality(OfState(r, "queued")) <= Backlog

IInv == Shapes /\ InHand /\ Carried /\ OneCopy /\ NotBefore /\ Counted

-----------------------------------------------------------------------------
\* What a step does to the connections: it adds one, or changes one.
Adds(d) ==
  /\ d \in Connections /\ conns' \in Seq(Connections)
  /\ Len(conns') = Len(conns) + 1 /\ conns'[Len(conns) + 1] = d
  /\ \A i \in Indices : conns'[i] = conns[i]

Sets(i, d) ==
  /\ i \in Indices /\ d \in Connections /\ conns' \in Seq(Connections)
  /\ Len(conns') = Len(conns)
  /\ \A j \in Indices : conns'[j] = IF j = i THEN d ELSE conns[j]

LEMMA LenFacts ==
  ASSUME Shapes
  PROVE  /\ Len(conns) \in Nat /\ Len(reports) \in Nat
         /\ \A i \in Indices : conns[i] \in Connections
         /\ \A k \in 1 .. Len(reports) : reports[k] \in [relay : Relays, frame : Frames]
<1>1. conns \in Seq(Connections) /\ reports \in Seq([relay : Relays, frame : Frames])
  BY DEF Shapes
<1>2. Len(conns) \in Nat /\ Len(reports) \in Nat
  BY <1>1, LenProperties
<1>3. \A i \in Indices : conns[i] \in Connections
  BY <1>1, ElementOfSeq DEF Indices
<1>4. \A k \in 1 .. Len(reports) : reports[k] \in [relay : Relays, frame : Frames]
  BY <1>1, ElementOfSeq
<1>. QED  BY <1>2, <1>3, <1>4

LEMMA AddsOne ==
  ASSUME Shapes, NEW d \in Connections, conns' = Append(conns, d)
  PROVE  Adds(d)
<1>1. conns \in Seq(Connections)
  BY DEF Shapes
<1>. QED  BY <1>1, AppendProperties DEF Adds, Indices

LEMMA SetsOne ==
  ASSUME Shapes, NEW i \in Indices, NEW d \in Connections, conns' = [conns EXCEPT ![i] = d]
  PROVE  Sets(i, d)
<1>1. conns \in Seq(Connections)
  BY DEF Shapes
<1>. QED  BY <1>1, ExceptSeq DEF Sets, Indices

LEMMA FreshFrame ==
  ASSUME NEW c \in Clients, NEW f \in Sends[c]
  PROVE  /\ Fresh(c, f) \in Frames
         /\ Fresh(c, f).origin = c /\ Fresh(c, f).meant = Fresh(c, f).digest
         /\ Fresh(c, f).hops + Fresh(c, f).crossed = Fresh(c, f).asked
<1>1. f.magic \in BOOLEAN /\ f.hops % 256 \in 0 .. 255 /\ f.length \in Nat
  BY FrameAssumption
<1>2. f.payload \in Texts /\ f.digest \in Texts
  BY DEF Texts
<1>. QED  BY <1>1, <1>2 DEF Fresh, Frames

\* A frame that goes on has one hop less and one relay more behind it.
LEMMA PassedFrame ==
  ASSUME NEW f \in Frames, f.hops > 0
  PROVE  /\ Passed(f) \in Frames
         /\ Passed(f).hops = f.hops - 1 /\ Passed(f).crossed = f.crossed + 1
         /\ Passed(f).digest = f.payload /\ Passed(f).payload = f.payload
         /\ Passed(f).origin = f.origin /\ Passed(f).meant = f.meant /\ Passed(f).asked = f.asked
<1>1. f.hops \in 0 .. 255 /\ f.crossed \in Nat
  BY DEF Frames
<1>2. (f.hops - 1) % 256 = f.hops - 1 /\ f.hops - 1 \in 0 .. 255 /\ f.crossed + 1 \in Nat
  BY <1>1
<1>3. Passed(f) = [f EXCEPT !.hops = f.hops - 1, !.crossed = f.crossed + 1, !.digest = f.payload]
  BY <1>2 DEF Passed
<1>4. /\ Passed(f).hops = f.hops - 1 /\ Passed(f).crossed = f.crossed + 1
      /\ Passed(f).digest = f.payload /\ Passed(f).payload = f.payload
      /\ Passed(f).origin = f.origin /\ Passed(f).meant = f.meant /\ Passed(f).asked = f.asked
  BY <1>3 DEF Frames
<1>5. Passed(f) \in Frames
  BY <1>2, <1>3 DEF Frames
<1>. QED  BY <1>4, <1>5

LEMMA NewConnection ==
  ASSUME NEW p \in Processes, NEW r \in Relays, NEW f \in Frames
  PROVE  /\ Connection(p, r, f) \in Connections
         /\ Connection(p, r, f).from = p /\ Connection(p, r, f).to = r
         /\ Connection(p, r, f).frame = f /\ Connection(p, r, f).sent = 0
         /\ Connection(p, r, f).state = "queued"
BY DEF Connection, Connections

\* A connection that is changed keeps its ends and its frame.
Same(d, e) == d.from = e.from /\ d.to = e.to /\ d.frame = e.frame

LEMMA SentTouched ==
  ASSUME NEW d \in Connections, NEW n \in Nat
  PROVE  /\ [d EXCEPT !.sent = n] \in Connections /\ Same(d, [d EXCEPT !.sent = n])
         /\ [d EXCEPT !.sent = n].sent = n /\ [d EXCEPT !.sent = n].state = d.state
BY DEF Connections, Same

LEMMA OpenTouched ==
  ASSUME NEW d \in Connections
  PROVE  /\ [d EXCEPT !.open = FALSE] \in Connections /\ Same(d, [d EXCEPT !.open = FALSE])
         /\ [d EXCEPT !.open = FALSE].sent = d.sent /\ [d EXCEPT !.open = FALSE].state = d.state
BY DEF Connections, Same

LEMMA StateTouched ==
  ASSUME NEW d \in Connections, NEW st \in {"queued", "accepted", "closed"}
  PROVE  /\ [d EXCEPT !.state = st] \in Connections /\ Same(d, [d EXCEPT !.state = st])
         /\ [d EXCEPT !.state = st].sent = d.sent /\ [d EXCEPT !.state = st].state = st
BY DEF Connections, Same

-----------------------------------------------------------------------------
LEMMA ClientDialAdds ==
  ASSUME Shapes, NEW c \in Clients, ClientDial(c)
  PROVE  \E r \in Relays, f \in Sends[c] : CanDial(r) /\ Adds(Connection(c, r, Fresh(c, f)))
<1>1. PICK r \in Relays, f \in Sends[c] :
        CanDial(r) /\ conns' = Append(conns, Connection(c, r, Fresh(c, f)))
  BY DEF ClientDial
<1>2. c \in Processes
  BY DEF Processes
<1>3. Connection(c, r, Fresh(c, f)) \in Connections
  BY <1>2, FreshFrame, NewConnection
<1>. QED  BY <1>1, <1>3, AddsOne

LEMMA DialAdds ==
  ASSUME Shapes, InHand, NEW r \in Relays, Dial(r)
  PROVE  /\ frame[r] \in Frames /\ frame[r].hops > 0
         /\ next[r] \in Relays /\ CanDial(next[r])
         /\ Adds(Connection(r, next[r], Passed(frame[r])))
<1>1. frame[r] \in Frames /\ frame[r].hops > 0 /\ next[r] \in Relays /\ CanDial(next[r])
  BY DEF InHand, Dial
<1>2. conns' = Append(conns, Connection(r, next[r], Passed(frame[r])))
  BY DEF Dial
<1>3. Connection(r, next[r], Passed(frame[r])) \in Connections
  BY <1>1, PassedFrame, NewConnection DEF Processes
<1>. QED  BY <1>1, <1>2, <1>3, AddsOne

\* The states of the connections stay as they are.
Quiet ==
  /\ conns' \in Seq(Connections) /\ Len(conns') = Len(conns)
  /\ \A i \in Indices : /\ Same(conns[i], conns'[i]) /\ conns'[i].state = conns[i].state
                        /\ conns'[i].sent <= Total(conns'[i].frame)

\* One of them takes on a state.
Moves(i, state) ==
  /\ i \in Indices
  /\ conns' \in Seq(Connections) /\ Len(conns') = Len(conns)
  /\ \A j \in Indices : /\ Same(conns[j], conns'[j])
                        /\ conns'[j].state = IF j = i THEN state ELSE conns[j].state
                        /\ conns'[j].sent <= Total(conns'[j].frame)

LEMMA UnchangedIsQuiet ==
  ASSUME Shapes, conns' = conns
  PROVE  Quiet
BY DEF Shapes, Quiet, Same

LEMMA SetIsQuiet ==
  ASSUME Shapes, NEW i \in Indices, NEW d \in Connections, Same(conns[i], d),
         d.state = conns[i].state, d.sent <= Total(d.frame), conns' = [conns EXCEPT ![i] = d]
  PROVE  Quiet
<1>1. Sets(i, d)
  BY SetsOne
<1>2. \A j \in Indices : conns[j].sent <= Total(conns[j].frame)
  BY DEF Shapes
<1>. QED  BY <1>1, <1>2 DEF Sets, Quiet, Same

LEMMA SetMoves ==
  ASSUME Shapes, NEW i \in Indices, NEW st \in {"queued", "accepted", "closed"},
         conns' = [conns EXCEPT ![i].state = st]
  PROVE  Moves(i, st)
<1> DEFINE d == [conns[i] EXCEPT !.state = st]
<1>1. conns[i] \in Connections
  BY LenFacts
<1>2. d \in Connections /\ Same(conns[i], d) /\ d.sent = conns[i].sent /\ d.state = st
  BY <1>1, StateTouched
<1>3. conns' = [conns EXCEPT ![i] = d]
  OBVIOUS
<1> HIDE DEF d
<1>4. Sets(i, d)
  BY <1>2, <1>3, SetsOne
<1>5. \A j \in Indices : conns[j].sent <= Total(conns[j].frame)
  BY DEF Shapes
<1>. QED  BY <1>2, <1>4, <1>5 DEF Sets, Moves, Same

LEMMA SendIsQuiet ==
  ASSUME Shapes, NEW i \in Indices, Send(i)
  PROVE  Quiet
<1>1. PICK n \in conns[i].sent + 1 .. Total(conns[i].frame) : conns' = [conns EXCEPT ![i].sent = n]
  BY DEF Send
<1>2. conns[i] \in Connections
  BY LenFacts
<1>3. Total(conns[i].frame) \in Nat /\ conns[i].sent \in Nat
  BY <1>2, FrameAssumption DEF Total, Connections, Frames
<1>4. n \in Nat /\ n <= Total(conns[i].frame)
  BY <1>1, <1>3
<1> DEFINE d == [conns[i] EXCEPT !.sent = n]
<1>5. d \in Connections /\ Same(conns[i], d) /\ d.sent = n /\ d.state = conns[i].state
  BY <1>2, <1>4, SentTouched
<1>6. conns' = [conns EXCEPT ![i] = d]
  BY <1>1
<1>7. d.sent <= Total(d.frame)
  BY <1>4, <1>5 DEF Same
<1> HIDE DEF d
<1>. QED  BY <1>5, <1>6, <1>7, SetIsQuiet

LEMMA ClosingIsQuiet ==
  ASSUME Shapes, NEW i \in Indices, conns' = [conns EXCEPT ![i].open = FALSE]
  PROVE  Quiet
<1> DEFINE d == [conns[i] EXCEPT !.open = FALSE]
<1>1. conns[i] \in Connections /\ conns[i].sent <= Total(conns[i].frame)
  BY LenFacts DEF Shapes
<1>2. d \in Connections /\ Same(conns[i], d) /\ d.sent = conns[i].sent /\ d.state = conns[i].state
  BY <1>1, OpenTouched
<1>3. conns' = [conns EXCEPT ![i] = d]
  OBVIOUS
<1>4. d.sent <= Total(d.frame)
  BY <1>1, <1>2 DEF Same
<1> HIDE DEF d
<1>. QED  BY <1>2, <1>3, <1>4, SetIsQuiet

\* Steps that leave every connection in its state.
LEMMA QuietSteps ==
  ASSUME Shapes, InHand,
         \/ \E c \in Clients : ClientDialFails(c) \/ ClientCloses(c)
         \/ \E i \in Indices : Send(i)
         \/ \E r \in Relays : \/ Listen(r) \/ RecvHeader(r) \/ RecvFrame(r) \/ RecvFails(r)
                              \/ Handle(r) \/ DialFails(r) \/ Forwarded(r)
  PROVE  Quiet
<1>1. ASSUME NEW c \in Clients, ClientDialFails(c)  PROVE Quiet
  BY <1>1, UnchangedIsQuiet DEF ClientDialFails
<1>2. ASSUME NEW c \in Clients, ClientCloses(c)  PROVE Quiet
  <2>1. PICK i \in Indices : conns' = [conns EXCEPT ![i].open = FALSE]
    BY <1>2 DEF ClientCloses, Indices
  <2>. QED  BY <2>1, ClosingIsQuiet
<1>3. ASSUME NEW i \in Indices, Send(i)  PROVE Quiet
  BY <1>3, SendIsQuiet
<1>4. ASSUME NEW r \in Relays, \/ Listen(r) \/ RecvHeader(r) \/ RecvFrame(r) \/ RecvFails(r)
                               \/ Handle(r) \/ DialFails(r)
      PROVE  Quiet
  <2>1. conns' = conns
    BY <1>4 DEF Listen, RecvHeader, RecvFrame, RecvFails, Handle, DialFails
  <2>. QED  BY <2>1, UnchangedIsQuiet
<1>5. ASSUME NEW r \in Relays, Forwarded(r)  PROVE Quiet
  <2>1. fwd[r] \in Indices /\ conns' = [conns EXCEPT ![fwd[r]].open = FALSE]
    BY <1>5 DEF Forwarded, InHand
  <2>. QED  BY <2>1, ClosingIsQuiet
<1>. QED  BY <1>1, <1>2, <1>3, <1>4, <1>5

\* accept takes the connection that has waited longest.
LEMMA AcceptMoves ==
  ASSUME Shapes, NEW r \in Relays, Accept(r)
  PROVE  \E i \in Waiting(r) : Moves(i, "accepted") /\ peer' = [peer EXCEPT ![r] = i]
<1>1. Waiting(r) # {} /\ Waiting(r) \subseteq Nat /\ Waiting(r) \subseteq Indices
  BY LenFacts DEF Accept, Waiting, Indices
<1>2. \E m \in Waiting(r) : \A k \in Waiting(r) : m <= k
  BY <1>1, LeastNatural
<1> DEFINE i == CHOOSE i \in Waiting(r) : \A j \in Waiting(r) : i <= j
<1>4. i \in Waiting(r)
  BY <1>2
<1>5. conns' = [conns EXCEPT ![i].state = "accepted"] /\ peer' = [peer EXCEPT ![r] = i]
  BY DEF Accept
<1> HIDE DEF i
<1>6. Moves(i, "accepted")
  BY <1>1, <1>4, <1>5, SetMoves
<1>. QED  BY <1>4, <1>5, <1>6

LEMMA CloseMoves ==
  ASSUME Shapes, InHand, NEW r \in Relays, Close(r)
  PROVE  Moves(peer[r], "closed")
<1>1. peer[r] \in Indices /\ conns' = [conns EXCEPT ![peer[r]].state = "closed"]
  BY DEF Close, InHand, Busy
<1>. QED  BY <1>1, SetMoves

\* A relay has gone: what waited for it is closed, and what others wait for is
\* left alone.
Abandons(r) ==
  /\ conns' \in Seq(Connections) /\ Len(conns') = Len(conns)
  /\ \A i \in Indices : /\ Same(conns[i], conns'[i])
                        /\ conns'[i].sent <= Total(conns'[i].frame)
                        /\ conns[i].to # r => conns'[i].state = conns[i].state
                        /\ conns'[i].state \in {conns[i].state, "closed"}
                        /\ conns[i].to = r => conns'[i].state # "queued"

LEMMA CutOffEffect ==
  ASSUME Shapes, NEW r \in Relays, NEW i \in Indices
  PROVE  LET d == CutOff(r)[i] IN
         /\ d \in Connections /\ Same(conns[i], d) /\ d.sent = conns[i].sent
         /\ d.state = IF conns[i].to = r /\ conns[i].state = "queued" THEN "closed" ELSE conns[i].state
<1>1. conns[i] \in Connections
  BY LenFacts
<1>2. CutOff(r)[i] = IF i \in Waiting(r) THEN [conns[i] EXCEPT !.state = "closed"] ELSE conns[i]
  BY DEF CutOff, Indices
<1>3. i \in Waiting(r) <=> conns[i].to = r /\ conns[i].state = "queued"
  BY DEF Waiting, Indices
<1>4. CASE i \in Waiting(r)
  BY <1>1, <1>2, <1>3, <1>4, StateTouched
<1>5. CASE i \notin Waiting(r)
  BY <1>1, <1>2, <1>3, <1>5 DEF Same
<1>. QED  BY <1>4, <1>5

LEMMA QuitAbandons ==
  ASSUME Shapes, NEW r \in Relays, Quit(r)
  PROVE  Abandons(r)
<1>1. conns' = [i \in Indices |-> CutOff(r)[i]]
  BY DEF Quit, CutOff, Indices
<1>2. Len(conns) \in Nat /\ \A i \in Indices : conns[i].sent <= Total(conns[i].frame)
  BY LenFacts DEF Shapes
<1>3. \A i \in Indices : conns'[i] = CutOff(r)[i]
  BY <1>1
<1>4. \A i \in Indices : conns'[i] \in Connections
  BY <1>3, CutOffEffect
<1>5. conns' \in [1 .. Len(conns) -> Connections]
  BY <1>1, <1>3, <1>4 DEF Indices
<1>6. conns' \in Seq(Connections) /\ Len(conns') = Len(conns)
  BY <1>2, <1>5
<1>7. ASSUME NEW i \in Indices
      PROVE  /\ Same(conns[i], conns'[i]) /\ conns'[i].sent <= Total(conns'[i].frame)
             /\ conns[i].to # r => conns'[i].state = conns[i].state
             /\ conns'[i].state \in {conns[i].state, "closed"}
             /\ conns[i].to = r => conns'[i].state # "queued"
  BY <1>2, <1>3, CutOffEffect DEF Same
<1>. QED  BY <1>6, <1>7 DEF Abandons

LEMMA KilledAbandons ==
  ASSUME Shapes, NEW r \in Relays, Killed(r)
  PROVE  Abandons(r)
<1> DEFINE g == [i \in Indices |->
                   IF conns[i].from = r THEN [CutOff(r)[i] EXCEPT !.open = FALSE]
                   ELSE IF conns[i].to = r THEN [conns[i] EXCEPT !.state = "closed"] ELSE conns[i]]
<1>1. conns' = g
  BY DEF Killed, Indices
<1>2. Len(conns) \in Nat /\ \A i \in Indices : conns[i].sent <= Total(conns[i].frame)
  BY LenFacts DEF Shapes
<1>3. ASSUME NEW i \in Indices
      PROVE  /\ g[i] \in Connections /\ Same(conns[i], g[i]) /\ g[i].sent = conns[i].sent
             /\ conns[i].to # r => g[i].state = conns[i].state
             /\ g[i].state \in {conns[i].state, "closed"}
             /\ conns[i].to = r => g[i].state # "queued"
  <2> DEFINE d == CutOff(r)[i]
  <2>1. /\ d \in Connections /\ Same(conns[i], d) /\ d.sent = conns[i].sent
        /\ d.state = IF conns[i].to = r /\ conns[i].state = "queued" THEN "closed" ELSE conns[i].state
    BY CutOffEffect
  <2>2. conns[i] \in Connections
    BY LenFacts
  <2>3. CASE conns[i].from = r
    <3>1. g[i] = [d EXCEPT !.open = FALSE]
      BY <2>3
    <3> HIDE DEF d, g
    <3>. QED  BY <2>1, <3>1, OpenTouched DEF Same
  <2>4. CASE conns[i].from # r /\ conns[i].to = r
    <3>1. g[i] = [conns[i] EXCEPT !.state = "closed"]
      BY <2>4
    <3> HIDE DEF d, g
    <3>. QED  BY <2>2, <2>4, <3>1, StateTouched
  <2>5. CASE conns[i].from # r /\ conns[i].to # r
    <3>1. g[i] = conns[i]
      BY <2>5
    <3> HIDE DEF d, g
    <3>. QED  BY <2>2, <2>5, <3>1 DEF Same
  <2>. QED  BY <2>3, <2>4, <2>5
<1>4. g \in [1 .. Len(conns) -> Connections]
  BY <1>3 DEF Indices
<1> HIDE DEF g
<1>5. conns' \in Seq(Connections) /\ Len(conns') = Len(conns)
  BY <1>1, <1>2, <1>4
<1>. QED  BY <1>1, <1>2, <1>3, <1>5 DEF Abandons, Same

-----------------------------------------------------------------------------
\* Whatever happens, connections keep their places, their ends and their frames.
Kept ==
  /\ conns' \in Seq(Connections) /\ Len(conns') \in Nat /\ Len(conns) <= Len(conns')
  /\ \A i \in Indices : Same(conns[i], conns'[i])
  /\ \A i \in 1 .. Len(conns') : conns'[i].sent <= Total(conns'[i].frame)

LEMMA AddedIsKept ==
  ASSUME Shapes, NEW d, Adds(d), d.sent = 0, d.frame \in Frames
  PROVE  Kept
<1>1. Len(conns) \in Nat /\ \A i \in Indices : conns[i].sent <= Total(conns[i].frame)
  BY LenFacts DEF Shapes
<1>2. 0 <= Total(d.frame)
  BY FrameAssumption DEF Total, Frames
<1>3. \A i \in 1 .. Len(conns') : i \in Indices \/ i = Len(conns) + 1
  BY <1>1 DEF Adds, Indices
<1>4. \A i \in 1 .. Len(conns') : conns'[i].sent <= Total(conns'[i].frame)
  BY <1>1, <1>2, <1>3 DEF Adds
<1>. QED  BY <1>1, <1>4 DEF Adds, Kept, Same

LEMMA KeptByAll ==
  ASSUME Shapes, InHand, Next
  PROVE  Kept
<1>0. Len(conns) \in Nat
  BY LenFacts
<1>1. ASSUME NEW c \in Clients, ClientDial(c)  PROVE Kept
  <2>1. PICK r \in Relays, f \in Sends[c] : Adds(Connection(c, r, Fresh(c, f)))
    BY <1>1, ClientDialAdds
  <2>2. Fresh(c, f) \in Frames /\ c \in Processes
    BY FreshFrame DEF Processes
  <2>. QED  BY <2>1, <2>2, NewConnection, AddedIsKept
<1>2. ASSUME NEW r \in Relays, Dial(r)  PROVE Kept
  <2>1. frame[r] \in Frames /\ frame[r].hops > 0 /\ next[r] \in Relays
        /\ Adds(Connection(r, next[r], Passed(frame[r])))
    BY <1>2, DialAdds
  <2>2. Passed(frame[r]) \in Frames /\ r \in Processes
    BY <2>1, PassedFrame DEF Processes
  <2>. QED  BY <2>1, <2>2, NewConnection, AddedIsKept
<1>3. ASSUME Quiet  PROVE Kept
  BY <1>0, <1>3 DEF Quiet, Kept, Indices
<1>4. ASSUME NEW i, NEW st, Moves(i, st)  PROVE Kept
  BY <1>0, <1>4 DEF Moves, Kept, Indices
<1>5. ASSUME NEW r, Abandons(r)  PROVE Kept
  BY <1>0, <1>5 DEF Abandons, Kept, Indices
<1>6. CASE Finished
  BY <1>6, <1>3, UnchangedIsQuiet DEF Finished, vars
<1>7. CASE \E c \in Clients : ClientDial(c) \/ ClientDialFails(c) \/ ClientCloses(c)
  BY <1>7, <1>1, <1>3, QuietSteps
<1>8. CASE \E i \in 1 .. Len(conns) : Send(i)
  BY <1>8, <1>3, QuietSteps DEF Indices
<1>9. ASSUME NEW r \in Relays,
             \/ Listen(r) \/ Accept(r) \/ Quit(r) \/ RecvHeader(r) \/ RecvFrame(r) \/ RecvFails(r)
             \/ Handle(r) \/ Dial(r) \/ DialFails(r) \/ Forwarded(r) \/ Close(r) \/ Killed(r)
      PROVE  Kept
  BY <1>9, <1>2, <1>3, <1>4, <1>5, QuietSteps, AcceptMoves, CloseMoves, QuitAbandons, KilledAbandons
<1>. QED  BY <1>6, <1>7, <1>8, <1>9 DEF Next

-----------------------------------------------------------------------------
Registers ==
  /\ served \in [Relays -> Nat] /\ peer \in [Relays -> Nat] /\ fwd \in [Relays -> Nat]
  /\ frame = [r \in Relays |-> frame[r]]

LEMMA ClientStep ==
  ASSUME Shapes, Next
  PROVE  client' \in [Clients -> {"start", "send", "done", "failed"}]
<1>1. client \in [Clients -> {"start", "send", "done", "failed"}]
  BY DEF Shapes
<1>2. ASSUME NEW c \in Clients, ClientDial(c) \/ ClientDialFails(c) \/ ClientCloses(c)
      PROVE  client' \in [Clients -> {"start", "send", "done", "failed"}]
  <2>1. \E place \in {"send", "done", "failed"} : client' = [client EXCEPT ![c] = place]
    BY <1>2 DEF ClientDial, ClientDialFails, ClientCloses
  <2>. QED  BY <1>1, <2>1
<1>3. ASSUME NEW r \in Relays,
             \/ Listen(r) \/ Accept(r) \/ Quit(r) \/ RecvHeader(r) \/ RecvFrame(r) \/ RecvFails(r)
             \/ Handle(r) \/ Dial(r) \/ DialFails(r) \/ Forwarded(r) \/ Close(r) \/ Killed(r)
      PROVE  client' = client
  BY <1>3 DEF Listen, Accept, Quit, RecvHeader, RecvFrame, RecvFails, Handle, Dial, DialFails,
              Forwarded, Close, Killed
<1>4. ASSUME NEW i, Send(i)  PROVE client' = client
  BY <1>4 DEF Send
<1>5. Finished => client' = client
  BY DEF Finished, vars
<1>. QED  BY <1>1, <1>2, <1>3, <1>4, <1>5 DEF Next

LEMMA RelayStep ==
  ASSUME Shapes, Next
  PROVE  relay' \in [Relays -> {"start", "accept", "header", "body", "handle", "dial", "forward",
                                "close", "down"}]
<1> DEFINE Places == {"start", "accept", "header", "body", "handle", "dial", "forward", "close", "down"}
<1>1. relay \in [Relays -> Places]
  BY DEF Shapes
<1>2. ASSUME NEW r \in Relays,
             \/ Listen(r) \/ Accept(r) \/ Quit(r) \/ RecvHeader(r) \/ RecvFrame(r) \/ RecvFails(r)
             \/ Handle(r) \/ Dial(r) \/ DialFails(r) \/ Forwarded(r) \/ Close(r) \/ Killed(r)
      PROVE  \E place \in Places : relay' = [relay EXCEPT ![r] = place]
  BY <1>2 DEF Listen, Accept, Quit, RecvHeader, RecvFrame, RecvFails, Handle, Dial, DialFails,
              Forwarded, Close, Killed, Goes
<1>3. ASSUME NEW c, ClientDial(c) \/ ClientDialFails(c) \/ ClientCloses(c)  PROVE relay' = relay
  BY <1>3 DEF ClientDial, ClientDialFails, ClientCloses
<1>4. ASSUME NEW i, Send(i)  PROVE relay' = relay
  BY <1>4 DEF Send
<1>5. Finished => relay' = relay
  BY DEF Finished, vars
<1> HIDE DEF Places
<1>6. ASSUME NEW r \in Relays, NEW place \in Places, relay' = [relay EXCEPT ![r] = place]
      PROVE  relay' \in [Relays -> Places]
  BY <1>1, <1>6
<1>7. relay' \in [Relays -> Places]
  BY <1>1, <1>2, <1>3, <1>4, <1>5, <1>6 DEF Next
<1>. QED  BY <1>7 DEF Places

LEMMA RegistersStep ==
  ASSUME Shapes, Next
  PROVE  Registers'
<1>1. Registers /\ Len(conns) \in Nat
  BY LenFacts DEF Shapes, Registers
<1>2. ASSUME UNCHANGED handling  PROVE Registers'
  BY <1>1, <1>2 DEF handling, Registers
<1>3. ASSUME NEW r \in Relays, Accept(r)  PROVE Registers'
  <2>1. PICK i \in Waiting(r) : peer' = [peer EXCEPT ![r] = i]
    BY <1>3, AcceptMoves
  <2>2. i \in Nat
    BY <1>1 DEF Waiting
  <2>3. UNCHANGED <<served, frame, fwd>>
    BY <1>3 DEF Accept
  <2>. QED  BY <1>1, <2>1, <2>2, <2>3 DEF Registers
<1>4. ASSUME NEW r \in Relays, RecvFrame(r)  PROVE Registers'
  <2>1. \/ frame' = [frame EXCEPT ![r] = Peer(r).frame]
        \/ frame' = frame
    BY <1>4 DEF RecvFrame
  <2>2. frame' = [s \in Relays |-> frame'[s]]
    BY <1>1, <2>1, Zenon DEF Registers
  <2>3. UNCHANGED <<served, peer, fwd>>
    BY <1>4 DEF RecvFrame
  <2>. QED  BY <1>1, <2>2, <2>3 DEF Registers
<1>5. ASSUME NEW r \in Relays, Dial(r)  PROVE Registers'
  BY <1>1, <1>5 DEF Dial, Registers
<1>6. ASSUME NEW r \in Relays, Close(r)  PROVE Registers'
  <2>1. /\ served' = [served EXCEPT ![r] = @ + 1] /\ peer' = [peer EXCEPT ![r] = 0]
        /\ fwd' = [fwd EXCEPT ![r] = 0] /\ frame' = [frame EXCEPT ![r] = <<>>]
    BY <1>6 DEF Close
  <2>2. frame' = [s \in Relays |-> frame'[s]]
    BY <1>1, <2>1, Zenon DEF Registers
  <2>3. /\ served' \in [Relays -> Nat] /\ peer' \in [Relays -> Nat] /\ fwd' \in [Relays -> Nat]
    BY <1>1, <2>1 DEF Registers
  <2>. QED  BY <2>2, <2>3 DEF Registers
<1>7. ASSUME NEW r \in Relays,
             \/ Listen(r) \/ Quit(r) \/ RecvHeader(r) \/ RecvFails(r)
             \/ Handle(r) \/ DialFails(r) \/ Forwarded(r) \/ Killed(r)
      PROVE  UNCHANGED handling
  BY <1>7 DEF Listen, Quit, RecvHeader, RecvFails, Handle, DialFails, Forwarded, Killed
<1>8. ASSUME NEW c, ClientDial(c) \/ ClientDialFails(c) \/ ClientCloses(c)  PROVE UNCHANGED handling
  BY <1>8 DEF ClientDial, ClientDialFails, ClientCloses
<1>9. ASSUME NEW i, Send(i)  PROVE UNCHANGED handling
  BY <1>9 DEF Send
<1>10. Finished => UNCHANGED handling
  BY DEF Finished, vars
<1>. QED  BY <1>2, <1>3, <1>4, <1>5, <1>6, <1>7, <1>8, <1>9, <1>10 DEF Next

LEMMA ReportsStep ==
  ASSUME Shapes, InHand, Next
  PROVE  /\ reports' \in Seq([relay : Relays, frame : Frames]) /\ UNCHANGED arguments
         /\ \/ reports' = reports
            \/ \E r \in Relays : /\ Handle(r) /\ frame[r] \in Frames
                                 /\ reports' = Append(reports, [relay |-> r, frame |-> frame[r]])
<1>1. reports \in Seq([relay : Relays, frame : Frames])
  BY DEF Shapes
<1>2. ASSUME NEW r \in Relays, Handle(r)
      PROVE  /\ UNCHANGED arguments
             /\ \/ reports' = reports
                \/ /\ Handle(r) /\ frame[r] \in Frames
                   /\ reports' = Append(reports, [relay |-> r, frame |-> frame[r]])
  BY <1>2 DEF Handle, InHand
<1>3. ASSUME NEW r \in Relays,
             \/ Listen(r) \/ Accept(r) \/ Quit(r) \/ RecvHeader(r) \/ RecvFrame(r) \/ RecvFails(r)
             \/ Dial(r) \/ DialFails(r) \/ Forwarded(r) \/ Close(r) \/ Killed(r)
      PROVE  UNCHANGED <<arguments, reports>>
  BY <1>3 DEF Listen, Accept, Quit, RecvHeader, RecvFrame, RecvFails, Dial, DialFails,
              Forwarded, Close, Killed
<1>4. ASSUME NEW c, ClientDial(c) \/ ClientDialFails(c) \/ ClientCloses(c)
      PROVE  UNCHANGED <<arguments, reports>>
  BY <1>4 DEF ClientDial, ClientDialFails, ClientCloses
<1>5. ASSUME NEW i, Send(i)  PROVE UNCHANGED <<arguments, reports>>
  BY <1>5 DEF Send
<1>6. Finished => UNCHANGED <<arguments, reports>>
  BY DEF Finished, vars
<1>7. /\ UNCHANGED arguments
      /\ \/ reports' = reports
         \/ \E r \in Relays : /\ Handle(r) /\ frame[r] \in Frames
                              /\ reports' = Append(reports, [relay |-> r, frame |-> frame[r]])
  BY <1>2, <1>3, <1>4, <1>5, <1>6 DEF Next
<1>8. ASSUME NEW r \in Relays, frame[r] \in Frames,
             reports' = Append(reports, [relay |-> r, frame |-> frame[r]])
      PROVE  reports' \in Seq([relay : Relays, frame : Frames])
  BY <1>1, <1>8
<1>. QED  BY <1>1, <1>7, <1>8

LEMMA ShapesStep ==
  ASSUME Shapes, InHand, [Next]_vars
  PROVE  Shapes'
<1>1. CASE Next
  <2>1. /\ next \in [Relays -> Relays \cup {NoNext, Garbled}] /\ want \in [Relays -> Int]
        /\ UNCHANGED <<next, want>>
    BY <1>1, ReportsStep DEF Shapes, arguments
  <2>2. Kept /\ Registers'
    BY <1>1, KeptByAll, RegistersStep
  <2>3. conns' \in Seq(Connections) /\ \A i \in Indices' : conns'[i].sent <= Total(conns'[i].frame)
    BY <2>2 DEF Kept, Indices
  <2>. QED  BY <1>1, <2>1, <2>2, <2>3, ClientStep, RelayStep, ReportsStep DEF Shapes, Registers
<1>2. CASE UNCHANGED vars
  BY <1>2 DEF vars, handling, arguments, Shapes, Indices, Total
<1>. QED  BY <1>1, <1>2

-----------------------------------------------------------------------------
Acts(r) ==
  \/ Listen(r) \/ Accept(r) \/ Quit(r) \/ RecvHeader(r) \/ RecvFrame(r) \/ RecvFails(r)
  \/ Handle(r) \/ Dial(r) \/ DialFails(r) \/ Forwarded(r) \/ Close(r) \/ Killed(r)

\* What other relays are at does not change when one acts, and none of it when
\* a client or the network does.
LEMMA OthersWait ==
  ASSUME Shapes, NEW s \in Relays, Acts(s), NEW r \in Relays, r # s
  PROVE  /\ relay'[r] = relay[r] /\ served'[r] = served[r] /\ peer'[r] = peer[r]
         /\ frame'[r] = frame[r] /\ fwd'[r] = fwd[r]
<1>1. \E place : relay' = [relay EXCEPT ![s] = place]
  BY DEF Acts, Listen, Accept, Quit, RecvHeader, RecvFrame, RecvFails, Handle, Dial, DialFails,
              Forwarded, Close, Killed, Goes
<1>2. \E x : served' = served \/ served' = [served EXCEPT ![s] = x]
  BY DEF Acts, Listen, Accept, Quit, RecvHeader, RecvFrame, RecvFails, Handle, Dial, DialFails,
              Forwarded, Close, Killed, handling
<1>3. \E x : peer' = peer \/ peer' = [peer EXCEPT ![s] = x]
  BY DEF Acts, Listen, Accept, Quit, RecvHeader, RecvFrame, RecvFails, Handle, Dial, DialFails,
              Forwarded, Close, Killed, handling
<1>4. \E x : frame' = frame \/ frame' = [frame EXCEPT ![s] = x]
  BY DEF Acts, Listen, Accept, Quit, RecvHeader, RecvFrame, RecvFails, Handle, Dial, DialFails,
              Forwarded, Close, Killed, handling
<1>5. \E x : fwd' = fwd \/ fwd' = [fwd EXCEPT ![s] = x]
  BY DEF Acts, Listen, Accept, Quit, RecvHeader, RecvFrame, RecvFails, Handle, Dial, DialFails,
              Forwarded, Close, Killed, handling
<1>6. relay = [t \in Relays |-> relay[t]] /\ served = [t \in Relays |-> served[t]]
      /\ peer = [t \in Relays |-> peer[t]] /\ frame = [t \in Relays |-> frame[t]]
      /\ fwd = [t \in Relays |-> fwd[t]]
  BY DEF Shapes
<1>. QED  BY <1>1, <1>2, <1>3, <1>4, <1>5, <1>6

LEMMA RelaysWait ==
  ASSUME \/ \E c \in Clients : ClientDial(c) \/ ClientDialFails(c) \/ ClientCloses(c)
         \/ \E i \in Indices : Send(i)
         \/ Finished \/ UNCHANGED vars
  PROVE  UNCHANGED <<relay, served, peer, frame, fwd, next, want, reports>>
BY DEF ClientDial, ClientDialFails, ClientCloses, Send, Finished, vars, handling, arguments

LEMMA NextSplits ==
  ASSUME [Next]_vars
  PROVE  \/ \E c \in Clients : ClientDial(c) \/ ClientDialFails(c) \/ ClientCloses(c)
         \/ \E i \in Indices : Send(i)
         \/ \E r \in Relays : Acts(r)
         \/ UNCHANGED vars
BY DEF Next, Acts, Indices, Finished

\* Where the relay that acts has come from and gone to, and what it has in hand.
LEMMA PlaceAfter ==
  ASSUME Shapes, NEW r \in Relays
  PROVE  /\ Listen(r) => relay[r] = "start" /\ relay'[r] \in {"accept", "down"}
         /\ Accept(r) => relay[r] = "accept" /\ relay'[r] = "header"
         /\ Quit(r) => relay[r] = "accept" /\ relay'[r] = "down"
         /\ RecvHeader(r) => relay[r] = "header" /\ relay'[r] \in {"body", "close"}
         /\ RecvFrame(r) => /\ relay[r] = "body"
                            /\ \/ relay'[r] = "handle" /\ frame'[r] = Peer(r).frame
                                  /\ Peer(r).frame.digest = Peer(r).frame.payload
                               \/ relay'[r] = "close"
         /\ RecvFails(r) => relay[r] \in {"header", "body"} /\ relay'[r] = "close"
         /\ Handle(r) => /\ relay[r] = "handle"
                         /\ relay'[r] = IF Forwards(r) /\ next[r] # Garbled THEN "dial" ELSE "close"
         /\ Dial(r) => relay[r] = "dial" /\ relay'[r] = "forward"
         /\ DialFails(r) => relay[r] = "dial" /\ relay'[r] = "close"
         /\ Forwarded(r) => relay[r] = "forward" /\ relay'[r] = "close"
         /\ Close(r) => relay[r] = "close" /\ relay'[r] = "accept"
         /\ Killed(r) => Listening(r) /\ relay'[r] = "down"
<1>1. relay = [s \in Relays |-> relay[s]] /\ frame = [s \in Relays |-> frame[s]]
  BY DEF Shapes
<1>2. \A place : Goes(r, place) => relay'[r] = place
  BY <1>1 DEF Goes
<1>3. RecvFrame(r) => /\ relay[r] = "body"
                      /\ \/ relay'[r] = "handle" /\ frame'[r] = Peer(r).frame
                            /\ Peer(r).frame.digest = Peer(r).frame.payload
                         \/ relay'[r] = "close"
  BY <1>1, <1>2 DEF RecvFrame
<1>. QED
  BY <1>2, <1>3 DEF Listen, Accept, Quit, RecvHeader, RecvFails, Handle, Dial, DialFails,
                    Forwarded, Close, Killed

-----------------------------------------------------------------------------
InHandOf(r) ==
  /\ Busy(r) => peer[r] \in Indices /\ served[r] < want[r]
  /\ relay[r] \in {"handle", "dial", "forward"} => frame[r] \in Frames
  /\ relay[r] = "dial" => frame[r].hops > 0 /\ next[r] \in Relays
  /\ relay[r] = "forward" => fwd[r] \in Indices

LEMMA MoreIndices ==
  ASSUME Shapes, Kept
  PROVE  Indices \subseteq Indices'
<1>1. Len(conns) \in Nat /\ Len(conns') \in Nat /\ Len(conns) <= Len(conns')
  BY LenFacts DEF Kept
<1>2. 1 .. Len(conns) \subseteq 1 .. Len(conns')
  BY <1>1
<1>. QED  BY <1>2 DEF Indices

LEMMA InHandOfStep ==
  ASSUME Shapes, InHand, NEW r \in Relays, Acts(r), Kept, UNCHANGED arguments
  PROVE  InHandOf(r)'
<1>1. InHandOf(r)
  BY DEF InHand, InHandOf
<1>2. Indices \subseteq Indices'
  BY MoreIndices
<1>3. CASE Listen(r) \/ Quit(r) \/ Close(r) \/ Killed(r)
  <2>1. relay'[r] \in {"accept", "down"}
    BY <1>3, PlaceAfter
  <2>. QED  BY <2>1 DEF InHandOf, Busy
<1>4. CASE Accept(r)
  <2>1. PICK i \in Waiting(r) : peer' = [peer EXCEPT ![r] = i]
    BY <1>4, AcceptMoves
  <2>2. peer'[r] \in Indices'
    BY <1>2, <2>1 DEF Waiting, Indices, Shapes
  <2>3. relay'[r] = "header" /\ served' = served /\ want' = want /\ served[r] < want[r]
    BY <1>4, PlaceAfter DEF Accept, arguments
  <2>. QED  BY <2>2, <2>3 DEF InHandOf
<1>5. CASE RecvHeader(r) \/ RecvFails(r) \/ DialFails(r) \/ Forwarded(r)
  <2>1. relay'[r] \in {"body", "close"} /\ Busy(r)
    BY <1>5, PlaceAfter DEF Busy
  <2>2. UNCHANGED <<peer, served, want>>
    BY <1>5 DEF RecvHeader, RecvFails, DialFails, Forwarded, handling, arguments
  <2>. QED  BY <1>1, <1>2, <2>1, <2>2 DEF InHandOf
<1>6. CASE RecvFrame(r)
  <2>1. Busy(r) /\ peer[r] \in Indices /\ Peer(r).frame \in Frames
    <3>1. Busy(r) /\ peer[r] \in Indices
      BY <1>1, <1>6, PlaceAfter DEF Busy, InHandOf
    <3>2. conns[peer[r]] \in Connections
      BY <3>1, LenFacts
    <3>. QED  BY <3>1, <3>2 DEF Peer, Connections
  <2>2. UNCHANGED <<peer, served, want>>
    BY <1>6 DEF RecvFrame, arguments
  <2>3. (relay'[r] = "handle" /\ frame'[r] \in Frames) \/ relay'[r] = "close"
    BY <1>6, <2>1, PlaceAfter
  <2>. QED  BY <1>1, <1>2, <2>1, <2>2, <2>3 DEF InHandOf
<1>7. CASE Handle(r)
  <2>1. relay[r] = "handle" /\ UNCHANGED <<peer, served, frame, next, want>>
    BY <1>7 DEF Handle, handling, arguments
  <2>2. relay'[r] = IF Forwards(r) /\ next[r] # Garbled THEN "dial" ELSE "close"
    BY <1>7, PlaceAfter
  <2>3. CASE Forwards(r) /\ next[r] # Garbled
    <3>1. frame[r].hops > 0 /\ next[r] \in Relays
      BY <2>3 DEF Forwards, Shapes
    <3>. QED  BY <1>1, <1>2, <2>1, <2>2, <2>3, <3>1 DEF InHandOf, Busy
  <2>4. CASE ~ (Forwards(r) /\ next[r] # Garbled)
    BY <1>1, <1>2, <2>1, <2>2, <2>4 DEF InHandOf, Busy
  <2>. QED  BY <2>3, <2>4
<1>8. CASE Dial(r)
  <2>1. relay[r] = "dial" /\ relay'[r] = "forward"
    BY <1>8, PlaceAfter
  <2>2. UNCHANGED <<peer, served, frame, want>> /\ fwd' = [fwd EXCEPT ![r] = Len(conns) + 1]
    BY <1>8 DEF Dial, arguments
  <2>3. Len(conns') = Len(conns) + 1 /\ Len(conns) \in Nat
    BY <1>8, DialAdds, LenFacts DEF Adds
  <2>4. fwd'[r] \in Indices'
    BY <2>2, <2>3 DEF Indices, Shapes
  <2>. QED  BY <1>1, <1>2, <2>1, <2>2, <2>4 DEF InHandOf, Busy
<1>. QED  BY <1>3, <1>4, <1>5, <1>6, <1>7, <1>8 DEF Acts

LEMMA InHandStep ==
  ASSUME Shapes, InHand, [Next]_vars
  PROVE  InHand'
<1> SUFFICES ASSUME NEW r \in Relays  PROVE InHandOf(r)'
  BY DEF InHand, InHandOf
<1>1. InHandOf(r)
  BY DEF InHand, InHandOf
<1>2. CASE UNCHANGED vars
  <2>1. UNCHANGED <<conns, relay, served, peer, frame, fwd, next, want>>
    BY <1>2 DEF vars, handling, arguments
  <2>. QED  BY <1>1, <2>1 DEF InHandOf, Busy, Indices
<1>3. CASE Next
  <2>1. Indices \subseteq Indices' /\ Kept /\ UNCHANGED arguments
    BY <1>3, KeptByAll, MoreIndices, ReportsStep
  <2>2. ASSUME /\ relay'[r] = relay[r] /\ served'[r] = served[r] /\ peer'[r] = peer[r]
               /\ frame'[r] = frame[r] /\ fwd'[r] = fwd[r]
        PROVE  InHandOf(r)'
    BY <1>1, <2>1, <2>2 DEF InHandOf, Busy, arguments
  <2>3. ASSUME NEW s \in Relays, Acts(s)  PROVE InHandOf(r)'
    <3>1. CASE r = s
      BY <2>1, <2>3, <3>1, InHandOfStep
    <3>2. CASE r # s
      BY <2>2, <2>3, <3>2, OthersWait
    <3>. QED  BY <3>1, <3>2
  <2>4. CASE UNCHANGED <<relay, served, peer, frame, fwd>>
    BY <2>2, <2>4
  <2>5. \/ \E c \in Clients : ClientDial(c) \/ ClientDialFails(c) \/ ClientCloses(c)
        \/ \E i \in Indices : Send(i)
        \/ \E s \in Relays : Acts(s)
        \/ UNCHANGED vars
    BY <1>3, NextSplits
  <2>. QED  BY <2>3, <2>4, <2>5, RelaysWait
<1>. QED  BY <1>2, <1>3

-----------------------------------------------------------------------------
\* A connection that was not there before is a client's or a relay's dial.
LEMMA NewOnes ==
  ASSUME Shapes, InHand, Next
  PROVE  /\ \A i \in Indices : i \in Indices' /\ Same(conns[i], conns'[i])
         /\ \A i \in Indices' :
              \/ i \in Indices
              \/ \E c \in Clients : \E r \in Relays, f \in Sends[c] :
                    ClientDial(c) /\ conns'[i] = Connection(c, r, Fresh(c, f))
              \/ \E r \in Relays : Dial(r) /\ conns'[i] = Connection(r, next[r], Passed(frame[r]))
<1>1. Kept /\ Indices \subseteq Indices'
  BY KeptByAll, MoreIndices
<1>2. Len(conns) \in Nat /\ Len(conns') \in Nat
  BY <1>1, LenFacts DEF Kept
<1>3. ASSUME NEW d, Adds(d)
      PROVE  \A i \in Indices' : i \in Indices \/ conns'[i] = d
  BY <1>2, <1>3 DEF Adds, Indices
<1>4. ASSUME Len(conns') = Len(conns)  PROVE Indices' = Indices
  BY <1>4 DEF Indices
<1>5. ASSUME NEW c \in Clients, ClientDial(c), NEW i \in Indices', i \notin Indices
      PROVE  \E r \in Relays, f \in Sends[c] : conns'[i] = Connection(c, r, Fresh(c, f))
  BY <1>3, <1>5, ClientDialAdds
<1>6. ASSUME NEW r \in Relays, Dial(r), NEW i \in Indices', i \notin Indices
      PROVE  conns'[i] = Connection(r, next[r], Passed(frame[r]))
  BY <1>3, <1>6, DialAdds
<1>7. ASSUME Quiet \/ (\E i, st : Moves(i, st)) \/ (\E r : Abandons(r)) \/ UNCHANGED vars
      PROVE  Indices' = Indices
  BY <1>4, <1>7 DEF Quiet, Moves, Abandons, vars
<1>8. ASSUME NEW r \in Relays, Acts(r), ~ Dial(r)  PROVE Indices' = Indices
  BY <1>7, <1>8, QuietSteps, AcceptMoves, CloseMoves, QuitAbandons, KilledAbandons DEF Acts
<1>9. ASSUME NEW c \in Clients, ClientDialFails(c) \/ ClientCloses(c)  PROVE Indices' = Indices
  BY <1>7, <1>9, QuietSteps
<1>10. ASSUME NEW i \in Indices, Send(i)  PROVE Indices' = Indices
  BY <1>7, <1>10, QuietSteps
<1>11. \A i \in Indices : i \in Indices' /\ Same(conns[i], conns'[i])
  BY <1>1 DEF Kept
<1>12. ASSUME NEW i \in Indices', i \notin Indices
       PROVE  \/ \E c \in Clients : \E r \in Relays, f \in Sends[c] :
                    ClientDial(c) /\ conns'[i] = Connection(c, r, Fresh(c, f))
              \/ \E r \in Relays : Dial(r) /\ conns'[i] = Connection(r, next[r], Passed(frame[r]))
  <2>1. CASE \E c \in Clients : ClientDial(c)
    BY <1>5, <1>12, <2>1
  <2>2. CASE \E r \in Relays : Dial(r)
    BY <1>6, <1>12, <2>2
  <2>. QED  BY <1>7, <1>8, <1>9, <1>10, <1>12, <2>1, <2>2, NextSplits
<1>. QED  BY <1>11, <1>12

LEMMA OnWireStep ==
  ASSUME Shapes, InHand, Carried, Next, NEW i \in Indices'
  PROVE  OnWire(conns'[i])
<1>1. ASSUME i \in Indices  PROVE OnWire(conns'[i])
  <2>1. OnWire(conns[i]) /\ Same(conns[i], conns'[i])
    BY <1>1, NewOnes DEF Carried
  <2>. QED  BY <2>1 DEF OnWire, Same
<1>2. ASSUME NEW c \in Clients, NEW r \in Relays, NEW f \in Sends[c],
             conns'[i] = Connection(c, r, Fresh(c, f))
      PROVE  OnWire(conns'[i])
  <2>1. c \notin Relays /\ c \in Processes
    BY FrameAssumption DEF Processes
  <2>2. conns'[i].from = c /\ conns'[i].frame = Fresh(c, f)
    BY <1>2 DEF Connection
  <2>. QED  BY <2>1, <2>2, FreshFrame DEF OnWire
<1>3. ASSUME NEW r \in Relays, Dial(r), conns'[i] = Connection(r, next[r], Passed(frame[r]))
      PROVE  OnWire(conns'[i])
  <2>1. frame[r] \in Frames /\ frame[r].hops > 0
    BY <1>3, DialAdds
  <2>2. AsSent(frame[r])
    <3>1. r \in Holding
      BY <1>3, PlaceAfter DEF Holding
    <3>. QED  BY <3>1 DEF Carried
  <2>3. conns'[i].frame = Passed(frame[r])
    BY <1>3 DEF Connection
  <2>4. /\ Passed(frame[r]).hops = frame[r].hops - 1 /\ Passed(frame[r]).crossed = frame[r].crossed + 1
        /\ Passed(frame[r]).digest = frame[r].payload /\ Passed(frame[r]).payload = frame[r].payload
        /\ Passed(frame[r]).meant = frame[r].meant /\ Passed(frame[r]).asked = frame[r].asked
    BY <2>1, PassedFrame
  <2>5. frame[r].hops \in Int /\ frame[r].crossed \in Int
    BY <2>1 DEF Frames
  <2>. QED  BY <2>2, <2>3, <2>4, <2>5 DEF OnWire, AsSent
<1>. QED  BY <1>1, <1>2, <1>3, NewOnes

\* A relay comes to hold a frame only when it has compared the digest.
LEMMA HoldingStep ==
  ASSUME Shapes, InHand, Next, NEW r \in Relays, r \in Holding'
  PROVE  \/ r \in Holding /\ frame'[r] = frame[r]
         \/ /\ RecvFrame(r) /\ r \notin Holding
            /\ frame'[r] = conns[peer[r]].frame /\ frame'[r].digest = frame'[r].payload
            /\ peer[r] \in Indices
<1>1. relay'[r] \in {"handle", "dial"}
  BY DEF Holding
<1>2. ASSUME relay'[r] = relay[r], frame'[r] = frame[r]  PROVE r \in Holding /\ frame'[r] = frame[r]
  BY <1>1, <1>2 DEF Holding
<1>3. ASSUME Acts(r)
      PROVE  \/ r \in Holding /\ frame'[r] = frame[r]
             \/ /\ RecvFrame(r) /\ r \notin Holding
                /\ frame'[r] = conns[peer[r]].frame /\ frame'[r].digest = frame'[r].payload
                /\ peer[r] \in Indices
  <2>1. RecvFrame(r) \/ Handle(r)
    BY <1>1, <1>3, PlaceAfter DEF Acts
  <2>2. CASE RecvFrame(r)
    <3>1. relay[r] = "body" /\ frame'[r] = Peer(r).frame /\ Peer(r).frame.digest = Peer(r).frame.payload
      BY <1>1, <2>2, PlaceAfter
    <3>2. peer[r] \in Indices
      BY <3>1 DEF InHand, Busy
    <3>. QED  BY <2>2, <3>1, <3>2 DEF Peer, Holding
  <2>3. CASE Handle(r)
    <3>1. relay[r] = "handle" /\ frame' = frame
      BY <2>3 DEF Handle, handling
    <3>. QED  BY <3>1 DEF Holding
  <2>. QED  BY <2>1, <2>2, <2>3
<1>4. ASSUME NEW s \in Relays, s # r, Acts(s)  PROVE r \in Holding /\ frame'[r] = frame[r]
  BY <1>2, <1>4, OthersWait
<1>. QED  BY <1>2, <1>3, <1>4, NextSplits, RelaysWait

LEMMA CarriedStep ==
  ASSUME Shapes, InHand, Carried, [Next]_vars
  PROVE  Carried'
<1>1. CASE UNCHANGED vars
  BY <1>1 DEF vars, handling, arguments, Carried, OnWire, AsSent, Holding, Indices
<1>2. CASE Next
  <2>1. \A i \in Indices' : OnWire(conns'[i])
    BY <1>2, OnWireStep
  <2>2. ASSUME NEW r \in Holding'  PROVE AsSent(frame'[r])
    <3>1. r \in Relays
      BY <2>2 DEF Holding
    <3>2. CASE r \in Holding /\ frame'[r] = frame[r]
      BY <3>2 DEF Carried
    <3>3. CASE /\ frame'[r] = conns[peer[r]].frame /\ frame'[r].digest = frame'[r].payload
               /\ peer[r] \in Indices
      <4>1. OnWire(conns[peer[r]])
        BY <3>3 DEF Carried
      <4>. QED  BY <3>3, <4>1 DEF OnWire, AsSent
    <3>. QED  BY <1>2, <2>2, <3>1, <3>2, <3>3, HoldingStep
  <2>3. \A k \in 1 .. Len(reports) : AsSent(reports[k].frame)
    BY DEF Carried
  <2>4. ASSUME NEW k \in 1 .. Len(reports')  PROVE AsSent(reports'[k].frame)
    <3>1. CASE reports' = reports
      BY <2>3, <2>4, <3>1
    <3>2. ASSUME NEW r \in Relays, Handle(r), frame[r] \in Frames,
                 reports' = Append(reports, [relay |-> r, frame |-> frame[r]])
          PROVE  AsSent(reports'[k].frame)
      <4>1. AsSent(frame[r])
        BY <3>2, PlaceAfter DEF Holding, Carried
      <4>2. reports \in Seq([relay : Relays, frame : Frames])
        BY DEF Shapes
      <4>3. \/ k \in 1 .. Len(reports) /\ reports'[k] = reports[k]
            \/ reports'[k] = [relay |-> r, frame |-> frame[r]]
        BY <2>4, <3>2, <4>2, AppendProperties
      <4>. QED  BY <2>3, <4>1, <4>3
    <3>. QED  BY <1>2, <3>1, <3>2, ReportsStep
  <2>. QED  BY <2>1, <2>2, <2>4 DEF Carried, OnWire, AsSent
<1>. QED  BY <1>1, <1>2

-----------------------------------------------------------------------------
\* Only accept gives a connection another state than "closed".
LEMMA StateStep ==
  ASSUME Shapes, InHand, Next, NEW i \in Indices
  PROVE  \/ conns'[i].state \in {conns[i].state, "closed"}
         \/ \E r \in Relays : Accept(r) /\ i \in Waiting(r)
<1>1. ASSUME Quiet  PROVE conns'[i].state = conns[i].state
  BY <1>1 DEF Quiet
<1>2. ASSUME NEW r \in Relays, Accept(r)
      PROVE  \/ conns'[i].state \in {conns[i].state, "closed"}
             \/ Accept(r) /\ i \in Waiting(r)
  BY <1>2, AcceptMoves DEF Moves
<1>3. ASSUME NEW r \in Relays, Close(r)  PROVE conns'[i].state \in {conns[i].state, "closed"}
  BY <1>3, CloseMoves DEF Moves
<1>4. ASSUME NEW r \in Relays, Quit(r) \/ Killed(r)
      PROVE  conns'[i].state \in {conns[i].state, "closed"}
  BY <1>4, QuitAbandons, KilledAbandons DEF Abandons
<1>5. ASSUME NEW d, Adds(d)  PROVE conns'[i].state = conns[i].state
  BY <1>5 DEF Adds
<1>6. ASSUME NEW r \in Relays, Acts(r)
      PROVE  \/ conns'[i].state \in {conns[i].state, "closed"}
             \/ Accept(r) /\ i \in Waiting(r)
  BY <1>1, <1>2, <1>3, <1>4, <1>5, <1>6, QuietSteps, DialAdds DEF Acts
<1>7. ASSUME NEW c \in Clients, ClientDial(c) \/ ClientDialFails(c) \/ ClientCloses(c)
      PROVE  conns'[i].state = conns[i].state
  BY <1>1, <1>5, <1>7, QuietSteps, ClientDialAdds
<1>8. ASSUME NEW j \in Indices, Send(j)  PROVE conns'[i].state = conns[i].state
  BY <1>1, <1>8, QuietSteps
<1>9. UNCHANGED vars => conns'[i].state = conns[i].state
  BY DEF vars
<1>. QED  BY <1>6, <1>7, <1>8, <1>9, NextSplits

\* No connection that was there before becomes pending again.
LEMMA PendingStep ==
  ASSUME Shapes, InHand, Next, NEW i \in Indices, i \in Pending'
  PROVE  i \in Pending /\ conns'[i].frame = conns[i].frame
<1>1. conns[i] \in Connections /\ Same(conns[i], conns'[i])
  BY LenFacts, NewOnes
<1>2. conns[i].to \in Relays /\ conns'[i].to = conns[i].to /\ conns'[i].frame = conns[i].frame
  BY <1>1 DEF Connections, Same
<1>3. \A r \in Relays : i \in Waiting(r) => i \in Pending
  BY DEF Waiting, Pending, Indices
<1>4. CASE conns'[i].state = "queued"
  <2>1. conns[i].state = "queued" \/ \E r \in Relays : i \in Waiting(r)
    BY <1>4, StateStep
  <2>. QED  BY <1>2, <1>3, <2>1 DEF Pending
<1>5. CASE conns'[i].state # "queued"
  <2> DEFINE r == conns[i].to
  <2>1. conns'[i].state = "accepted" /\ relay'[r] \in {"header", "body"} /\ peer'[r] = i
    BY <1>2, <1>5 DEF Pending
  <2>2. conns[i].state = "accepted" \/ \E s \in Relays : Accept(s) /\ i \in Waiting(s)
    BY <2>1, StateStep
  <2>3. CASE \E s \in Relays : i \in Waiting(s)
    BY <1>2, <1>3, <2>3
  <2>4. CASE conns[i].state = "accepted"
    <3>1. relay'[r] = relay[r] /\ peer'[r] = peer[r] => i \in Pending
      BY <2>1, <2>4 DEF Pending
    <3>2. ASSUME Acts(r)  PROVE i \in Pending
      <4>1. Accept(r) \/ RecvHeader(r)
        BY <1>2, <2>1, <3>2, PlaceAfter DEF Acts
      <4>2. ASSUME Accept(r)  PROVE i \in Pending
        <5>1. PICK j \in Waiting(r) : peer' = [peer EXCEPT ![r] = j]
          BY <1>2, <4>2, AcceptMoves
        <5>2. peer'[r] = j
          BY <1>2, <5>1 DEF Shapes
        <5>. QED  BY <1>2, <1>3, <2>1, <5>1, <5>2
      <4>3. ASSUME RecvHeader(r)  PROVE i \in Pending
        <5>1. relay[r] = "header" /\ peer' = peer
          BY <4>3 DEF RecvHeader, handling
        <5>. QED  BY <2>1, <2>4, <5>1 DEF Pending
      <4>. QED  BY <4>1, <4>2, <4>3
    <3>3. ASSUME NEW s \in Relays, s # r, Acts(s)  PROVE i \in Pending
      BY <1>2, <3>1, <3>3, OthersWait
    <3>. QED  BY <1>2, <3>1, <3>2, <3>3, NextSplits, RelaysWait
  <2>. QED  BY <1>2, <2>2, <2>3, <2>4
<1>. QED  BY <1>4, <1>5

LEMMA StartIsFirst ==
  ASSUME Shapes, Next, NEW c \in Clients, client'[c] = "start"
  PROVE  client[c] = "start" /\ ~ ClientDial(c)
<1>1. client = [d \in Clients |-> client[d]]
  BY DEF Shapes
<1>2. ASSUME NEW d \in Clients, ClientDial(d) \/ ClientDialFails(d) \/ ClientCloses(d)
      PROVE  d # c /\ client[c] = "start"
  <2>1. \E place \in {"send", "done", "failed"} : client' = [client EXCEPT ![d] = place]
    BY <1>2 DEF ClientDial, ClientDialFails, ClientCloses
  <2>. QED  BY <1>1, <2>1
<1>3. ASSUME NEW r \in Relays, Acts(r)  PROVE client' = client
  BY <1>3 DEF Acts, Listen, Accept, Quit, RecvHeader, RecvFrame, RecvFails, Handle, Dial, DialFails,
              Forwarded, Close, Killed
<1>4. ASSUME NEW i, Send(i)  PROVE client' = client
  BY <1>4 DEF Send
<1>. QED  BY <1>2, <1>3, <1>4, NextSplits DEF vars

-----------------------------------------------------------------------------
\* Nothing new is under way.
LEMMA FewerCopies ==
  ASSUME OneCopy, NotBefore,
         \A i \in Pending' : i \in Pending /\ conns'[i].frame = conns[i].frame,
         \A r \in Holding' : r \in Holding /\ frame'[r] = frame[r],
         reports' = reports,
         \A c \in Clients : client'[c] = "start" => client[c] = "start"
  PROVE  OneCopy' /\ NotBefore'
<1>1. OneCopy'
  BY DEF OneCopy
<1>2. NotBefore'
  BY DEF NotBefore
<1>. QED  BY <1>1, <1>2

\* A frame that its client has just dialled with is the only one of its origin.
LEMMA CopyOfDial ==
  ASSUME Shapes, InHand, OneCopy, NotBefore, Next, NEW c \in Clients, ClientDial(c)
  PROVE  OneCopy' /\ NotBefore'
<1>1. PICK r \in Relays, f \in Sends[c] : Adds(Connection(c, r, Fresh(c, f)))
  BY ClientDialAdds
<1> DEFINE n == Len(conns) + 1
<1>2. conns'[n].frame.origin = c
  BY <1>1, FreshFrame DEF Adds, Connection
<1>3. \A i \in Pending' : i = n \/ (i \in Pending /\ conns'[i].frame = conns[i].frame)
  <2>1. \A i \in Indices' : i \in Indices \/ i = n
    BY <1>1, LenFacts DEF Adds, Indices
  <2>. QED  BY <2>1, PendingStep DEF Pending
<1>4. UNCHANGED <<relay, frame, reports>> /\ client[c] = "start"
  BY DEF ClientDial, handling
<1>5. \A r1 \in Holding' : r1 \in Holding /\ frame'[r1] = frame[r1]
  BY <1>4 DEF Holding
<1>6. \A d \in Clients : client'[d] = "start" => client[d] = "start" /\ d # c
  BY StartIsFirst
<1>7. /\ \A i \in Pending : conns[i].frame.origin # c
      /\ \A s \in Holding : frame[s].origin # c
      /\ \A k \in 1 .. Len(reports) : reports[k].frame.origin # c
  BY <1>4 DEF NotBefore
<1> HIDE DEF n
<1>8. OneCopy'
  BY <1>2, <1>3, <1>4, <1>5, <1>7 DEF OneCopy
<1>9. NotBefore'
  BY <1>2, <1>3, <1>4, <1>5, <1>6 DEF NotBefore
<1>. QED  BY <1>8, <1>9

LEMMA CopyOfForward ==
  ASSUME Shapes, InHand, OneCopy, NotBefore, Next, NEW r \in Relays, Dial(r)
  PROVE  OneCopy' /\ NotBefore'
<1>1. /\ frame[r] \in Frames /\ frame[r].hops > 0
      /\ Adds(Connection(r, next[r], Passed(frame[r])))
  BY DialAdds
<1> DEFINE n == Len(conns) + 1
<1>2. conns'[n].frame.origin = frame[r].origin
  BY <1>1, PassedFrame DEF Adds, Connection
<1>3. \A i \in Pending' : i = n \/ (i \in Pending /\ conns'[i].frame = conns[i].frame)
  <2>1. \A i \in Indices' : i \in Indices \/ i = n
    BY <1>1, LenFacts DEF Adds, Indices
  <2>. QED  BY <2>1, PendingStep DEF Pending
<1>4. r \in Holding /\ r \notin Holding' /\ UNCHANGED <<frame, reports, client>>
  <2>1. relay[r] = "dial" /\ relay'[r] = "forward"
    BY PlaceAfter
  <2>. QED  BY <2>1 DEF Holding, Dial
<1>5. \A s \in Holding' : s \in Holding /\ s # r /\ frame'[s] = frame[s]
  <2>1. ASSUME NEW s \in Relays, s # r  PROVE relay'[s] = relay[s]
    BY <2>1, OthersWait DEF Acts
  <2>. QED  BY <1>4, <2>1 DEF Holding
<1> HIDE DEF n
<1>6. OneCopy'
  BY <1>2, <1>3, <1>4, <1>5 DEF OneCopy
<1>7. NotBefore'
  BY <1>2, <1>3, <1>4, <1>5 DEF NotBefore
<1>. QED  BY <1>6, <1>7

\* A relay takes a frame out of its connection.
LEMMA CopyOfRead ==
  ASSUME Shapes, InHand, Counted, OneCopy, NotBefore, Next, NEW r \in Relays, RecvFrame(r)
  PROVE  OneCopy' /\ NotBefore'
<1> DEFINE p == peer[r]
<1>1. relay[r] = "body" /\ relay'[r] \in {"handle", "close"} /\ p \in Indices
  BY PlaceAfter DEF InHand, Busy
<1>2. conns[p].to = r /\ conns[p].state = "accepted"
  <2>1. OfState(r, "accepted") = {p}
    BY <1>1 DEF Counted, Listening
  <2>. QED  BY <2>1 DEF OfState
<1>3. p \in Pending
  BY <1>1, <1>2 DEF Pending
<1>4. Indices' = Indices /\ UNCHANGED <<conns, peer, reports, client>>
  BY DEF RecvFrame, Indices
<1>5. p \notin Pending'
  BY <1>1, <1>2, <1>4 DEF Pending
<1>6. \A i \in Pending' : i \in Pending /\ i # p /\ conns'[i].frame = conns[i].frame
  BY <1>4, <1>5, PendingStep DEF Pending
<1>7. \A s \in Holding' : \/ s \in Holding /\ s # r /\ frame'[s] = frame[s]
                          \/ s = r /\ frame'[s] = conns[p].frame
  <2>1. ASSUME NEW s \in Relays, s # r  PROVE relay'[s] = relay[s] /\ frame'[s] = frame[s]
    BY <2>1, OthersWait DEF Acts
  <2>2. r \notin Holding
    BY <1>1 DEF Holding
  <2>3. r \in Holding' => frame'[r] = conns[p].frame
    BY <2>2, HoldingStep
  <2>. QED  BY <2>1, <2>3 DEF Holding
<1> HIDE DEF p
<1>8. OneCopy'
  BY <1>3, <1>4, <1>6, <1>7 DEF OneCopy
<1>9. NotBefore'
  BY <1>3, <1>4, <1>6, <1>7 DEF NotBefore
<1>. QED  BY <1>8, <1>9

\* A relay reports the frame it holds.
LEMMA CopyOfReport ==
  ASSUME Shapes, InHand, OneCopy, NotBefore, Next, NEW r \in Relays, Handle(r)
  PROVE  OneCopy' /\ NotBefore'
<1>1. relay[r] = "handle" /\ r \in Holding /\ UNCHANGED <<conns, frame, client>>
  BY DEF Handle, Holding, handling
<1>2. \A i \in Pending' : i \in Pending /\ conns'[i].frame = conns[i].frame
  BY <1>1, PendingStep DEF Pending, Indices
<1>3. \A s \in Holding' : s \in Holding /\ frame'[s] = frame[s]
  <2>1. ASSUME NEW s \in Relays, s # r  PROVE relay'[s] = relay[s]
    BY <2>1, OthersWait DEF Acts
  <2>. QED  BY <1>1, <2>1 DEF Holding
<1>4. CASE Forwards(r)
  <2>1. reports' = reports
    BY <1>4 DEF Handle
  <2>. QED  BY <1>1, <1>2, <1>3, <2>1, FewerCopies
<1>5. CASE ~ Forwards(r)
  <2> DEFINE m == Len(reports) + 1
  <2>1. r \notin Holding'
    BY <1>5, PlaceAfter DEF Holding
  <2>2. frame[r] \in Frames
    BY <1>1 DEF InHand
  <2>3. \A k \in 1 .. Len(reports') :
          \/ k \in 1 .. Len(reports) /\ reports'[k] = reports[k]
          \/ k = m /\ reports'[k].frame = frame[r]
    <3>1. reports' = Append(reports, [relay |-> r, frame |-> frame[r]])
      BY <1>5 DEF Handle
    <3>2. reports \in Seq([relay : Relays, frame : Frames])
      BY DEF Shapes
    <3>. QED  BY <2>2, <3>1, <3>2, AppendProperties
  <2>4. \A s \in Holding' : s # r
    BY <2>1
  <2> HIDE DEF m
  <2>5. OneCopy'
    BY <1>1, <1>2, <1>3, <2>3, <2>4 DEF OneCopy
  <2>6. NotBefore'
    BY <1>1, <1>2, <1>3, <2>3, <2>4 DEF NotBefore
  <2>. QED  BY <2>5, <2>6
<1>. QED  BY <1>4, <1>5

LEMMA CopiesStep ==
  ASSUME Shapes, InHand, Counted, OneCopy, NotBefore, [Next]_vars
  PROVE  OneCopy' /\ NotBefore'
<1>1. CASE UNCHANGED vars
  BY <1>1 DEF vars, handling, OneCopy, NotBefore, Pending, Holding, Indices
<1>2. CASE Next
  <2>1. \A c \in Clients : client'[c] = "start" => client[c] = "start"
    BY <1>2, StartIsFirst
  <2>2. ASSUME Indices' = Indices, reports' = reports,
               \A r \in Relays : ~ RecvFrame(r)
        PROVE  OneCopy' /\ NotBefore'
    <3>1. \A i \in Pending' : i \in Pending /\ conns'[i].frame = conns[i].frame
      BY <1>2, <2>2, PendingStep DEF Pending
    <3>2. \A r \in Holding' : r \in Holding /\ frame'[r] = frame[r]
      <4>1. \A r \in Holding' : r \in Relays
        BY DEF Holding
      <4>. QED  BY <1>2, <2>2, <4>1, HoldingStep
    <3>. QED  BY <2>1, <2>2, <3>1, <3>2, FewerCopies
  <2>3. CASE \E c \in Clients : ClientDial(c)
    BY <1>2, <2>3, CopyOfDial
  <2>4. CASE \E r \in Relays : Dial(r) \/ RecvFrame(r) \/ Handle(r)
    BY <1>2, <2>4, CopyOfForward, CopyOfRead, CopyOfReport
  <2>5. ASSUME NEW r \in Relays, Acts(r), ~ Dial(r), ~ RecvFrame(r), ~ Handle(r)
        PROVE  Indices' = Indices /\ reports' = reports
    <3>1. Quiet \/ (\E i, st : Moves(i, st)) \/ Abandons(r)
      BY <2>5, QuietSteps, AcceptMoves, CloseMoves, QuitAbandons, KilledAbandons DEF Acts
    <3>2. reports' = reports
      BY <2>5 DEF Acts, Listen, Accept, Quit, RecvHeader, RecvFails, DialFails, Forwarded, Close, Killed
    <3>. QED  BY <3>1, <3>2 DEF Quiet, Moves, Abandons, Indices
  <2>6. ASSUME NEW c \in Clients, ClientDialFails(c) \/ ClientCloses(c)
        PROVE  Indices' = Indices /\ reports' = reports
    BY <2>6, QuietSteps, RelaysWait DEF Quiet, Indices
  <2>7. ASSUME NEW i \in Indices, Send(i)
        PROVE  Indices' = Indices /\ reports' = reports
    BY <2>7, QuietSteps, RelaysWait DEF Quiet, Indices
  <2>8. CASE UNCHANGED vars
    BY <1>1, <2>8
  <2>. QED  BY <1>2, <2>2, <2>3, <2>4, <2>5, <2>6, <2>7, <2>8, NextSplits
<1>. QED  BY <1>1, <1>2

-----------------------------------------------------------------------------
LEMMA IntervalSize ==
  ASSUME NEW n \in Nat
  PROVE  IsFiniteSet(1 .. n) /\ Cardinality(1 .. n) = n
<1>1. Cardinality(1 .. n) = IF 1 > n THEN 0 ELSE n - 1 + 1
  BY FS_Interval
<1>2. IsFiniteSet(1 .. n)
  BY FS_Interval
<1>. QED  BY <1>1, <1>2

LEMMA FiniteOfState ==
  ASSUME Shapes, NEW r, NEW st
  PROVE  /\ IsFiniteSet(OfState(r, st)) /\ Cardinality(OfState(r, st)) \in Nat
         /\ Cardinality(OfState(r, st)) <= Len(conns)
<1>1. Len(conns) \in Nat
  BY LenFacts
<1>2. IsFiniteSet(Indices) /\ Cardinality(Indices) = Len(conns)
  <2>1. IsFiniteSet(1 .. Len(conns)) /\ Cardinality(1 .. Len(conns)) = Len(conns)
    BY <1>1, IntervalSize
  <2>. QED  BY <2>1 DEF Indices
<1>3. OfState(r, st) \subseteq Indices
  BY DEF OfState
<1>4. IsFiniteSet(OfState(r, st)) /\ Cardinality(OfState(r, st)) <= Cardinality(Indices)
  BY <1>2, <1>3, FS_Subset
<1>. QED  BY <1>2, <1>4, FS_CardinalityType

LEMMA QuietStates ==
  ASSUME Quiet, NEW r, NEW st
  PROVE  OfState(r, st)' = OfState(r, st)
BY DEF Quiet, OfState, Indices, Same

LEMMA AddedStates ==
  ASSUME Shapes, NEW d, Adds(d), d.state = "queued", NEW r, NEW st
  PROVE  /\ Len(conns) + 1 \notin OfState(r, st)
         /\ OfState(r, st)' = IF r = d.to /\ st = "queued" THEN OfState(r, st) \cup {Len(conns) + 1}
                              ELSE OfState(r, st)
<1> DEFINE n == Len(conns) + 1
<1>1. n \notin Indices /\ Indices' = Indices \cup {n}
  BY LenFacts DEF Adds, Indices
<1>2. conns'[n] = d /\ \A i \in Indices : conns'[i] = conns[i]
  BY DEF Adds
<1> HIDE DEF n
<1>3. \A i \in Indices' : i \in OfState(r, st)' <=>
         i \in OfState(r, st) \/ (i = n /\ r = d.to /\ st = "queued")
  BY <1>1, <1>2 DEF OfState
<1>4. n \notin OfState(r, st) /\ OfState(r, st) \subseteq Indices'
      /\ OfState(r, st)' \subseteq Indices' /\ n \in Indices'
  BY <1>1 DEF OfState
<1>5. OfState(r, st)' = IF r = d.to /\ st = "queued" THEN OfState(r, st) \cup {n} ELSE OfState(r, st)
  BY <1>3, <1>4
<1>. QED  BY <1>4, <1>5 DEF n

LEMMA MovedStates ==
  ASSUME Shapes, NEW i, NEW to, Moves(i, to), NEW r, NEW st, conns[i].state # to
  PROVE  OfState(r, st)' = IF conns[i].to # r THEN OfState(r, st)
                           ELSE IF st = to THEN OfState(r, st) \cup {i}
                           ELSE OfState(r, st) \ {i}
<1>1. Indices' = Indices /\ i \in Indices
  BY DEF Moves, Indices
<1>2. \A j \in Indices : /\ conns'[j].to = conns[j].to
                         /\ conns'[j].state = IF j = i THEN to ELSE conns[j].state
  BY DEF Moves, Same
<1>3. OfState(r, st)' = {j \in Indices : conns'[j].to = r /\ conns'[j].state = st}
  BY <1>1 DEF OfState
<1>. QED  BY <1>1, <1>2, <1>3 DEF OfState

LEMMA AbandonedStates ==
  ASSUME Shapes, NEW s, Abandons(s), NEW r, NEW st
  PROVE  /\ r # s => OfState(r, st)' = OfState(r, st)
         /\ OfState(s, "queued")' = {}
<1>1. Indices' = Indices
  BY DEF Abandons, Indices
<1>2. \A i \in Indices : /\ conns'[i].to = conns[i].to
                         /\ conns[i].to # s => conns'[i].state = conns[i].state
                         /\ conns[i].to = s => conns'[i].state # "queued"
  BY DEF Abandons, Same
<1>3. \A t, u : OfState(t, u)' = {i \in Indices : conns'[i].to = t /\ conns'[i].state = u}
  BY <1>1 DEF OfState
<1>4. r # s => OfState(r, st)' = OfState(r, st)
  BY <1>2, <1>3 DEF OfState
<1>5. OfState(s, "queued")' = {}
  BY <1>2, <1>3
<1>. QED  BY <1>4, <1>5

\* The backlog grows only by dials, while there is room.
LEMMA BacklogStep ==
  ASSUME Shapes, InHand, Counted, Next, NEW r \in Relays
  PROVE  Cardinality(OfState(r, "queued")') <= Backlog
<1> DEFINE Q == OfState(r, "queued")
           P == OfState(r, "queued")'
<1>1. IsFiniteSet(Q) /\ Cardinality(Q) \in Nat /\ Cardinality(Q) <= Backlog /\ Backlog \in Nat
  BY FiniteOfState, FrameAssumption DEF Counted
<1>2. Q = Waiting(r)
  BY DEF OfState, Waiting, Indices
<1> HIDE DEF Q
<1>3. ASSUME P \subseteq Q  PROVE Cardinality(P) <= Backlog
  <2>1. Cardinality(P) <= Cardinality(Q) /\ IsFiniteSet(P)
    BY <1>1, <1>3, FS_Subset
  <2>2. Cardinality(P) \in Nat
    BY <2>1, FS_CardinalityType
  <2>. QED  BY <1>1, <2>1, <2>2
<1>4. ASSUME NEW d, Adds(d), d.state = "queued", CanDial(d.to)  PROVE Cardinality(P) <= Backlog
  <2>1. CASE r # d.to
    <3>1. P = Q
      BY <1>4, <2>1, AddedStates DEF Q
    <3>. QED  BY <1>3, <3>1
  <2>2. CASE r = d.to
    <3>1. P = Q \cup {Len(conns) + 1} /\ Len(conns) + 1 \notin Q
      BY <1>4, <2>2, AddedStates DEF Q
    <3>2. Cardinality(P) = Cardinality(Q) + 1
      BY <1>1, <3>1, FS_AddElement
    <3>3. Cardinality(Q) < Backlog
      BY <1>2, <1>4, <2>2 DEF CanDial
    <3>. QED  BY <1>1, <3>2, <3>3
  <2>. QED  BY <2>1, <2>2
<1>5. CASE \E c \in Clients : ClientDial(c)
  <2>1. PICK c \in Clients, s \in Relays : \E f \in Sends[c] :
          CanDial(s) /\ Adds(Connection(c, s, Fresh(c, f)))
    BY <1>5, ClientDialAdds
  <2>. QED  BY <1>4, <2>1 DEF Connection
<1>6. CASE \E s \in Relays : Dial(s)
  BY <1>4, <1>6, DialAdds DEF Connection
<1>7. ASSUME Quiet \/ UNCHANGED vars  PROVE Cardinality(P) <= Backlog
  <2>1. P = Q
    <3>1. UNCHANGED vars => Quiet
      BY UnchangedIsQuiet DEF vars
    <3>. QED  BY <1>7, <3>1, QuietStates DEF Q
  <2>. QED  BY <1>3, <2>1
<1>8. ASSUME NEW i, Moves(i, "accepted"), conns[i].state = "queued"  PROVE Cardinality(P) <= Backlog
  BY <1>3, <1>8, MovedStates DEF Q
<1>9. ASSUME NEW s \in Relays, Accept(s)  PROVE Cardinality(P) <= Backlog
  BY <1>8, <1>9, AcceptMoves DEF Waiting
<1>10. ASSUME NEW s \in Relays, Close(s)  PROVE Cardinality(P) <= Backlog
  <2>1. Moves(peer[s], "closed")
    BY <1>10, CloseMoves
  <2>2. conns[peer[s]].state # "closed" => P \subseteq Q
    BY <2>1, MovedStates DEF Q
  <2>3. conns[peer[s]].state = "accepted"
    <3>1. relay[s] = "close"
      BY <1>10, PlaceAfter
    <3>2. OfState(s, "accepted") = {peer[s]}
      BY <3>1 DEF Counted, Listening
    <3>. QED  BY <3>2 DEF OfState
  <2>. QED  BY <1>3, <2>2, <2>3
<1>11. ASSUME NEW s \in Relays, Quit(s) \/ Killed(s)  PROVE Cardinality(P) <= Backlog
  <2>1. Abandons(s)
    BY <1>11, QuitAbandons, KilledAbandons
  <2>2. P \subseteq Q
    <3>1. CASE r # s
      BY <2>1, <3>1, AbandonedStates DEF Q
    <3>2. CASE r = s
      BY <2>1, <3>2, AbandonedStates
    <3>. QED  BY <3>1, <3>2
  <2>. QED  BY <1>3, <2>2
<1>12. CASE \E s \in Relays : Acts(s) /\ ~ Dial(s)
  BY <1>12, <1>7, <1>9, <1>10, <1>11, QuietSteps DEF Acts
<1>13. CASE \E c \in Clients : ClientDialFails(c) \/ ClientCloses(c)
  BY <1>13, <1>7, QuietSteps
<1>14. CASE \E i \in Indices : Send(i)
  BY <1>14, <1>7, QuietSteps
<1>. QED  BY <1>5, <1>6, <1>7, <1>12, <1>13, <1>14, NextSplits

\* A relay before its first connection, while it serves, and at any time.
Unstarted(r) == relay[r] = "start" => served[r] = 0 /\ \A i \in Indices : conns[i].to # r

Serving(r) ==
  Listening(r) => /\ r \notin Requested
                  /\ served[r] = Cardinality(OfState(r, "closed"))
                  /\ OfState(r, "accepted") = IF relay[r] = "accept" THEN {} ELSE {peer[r]}

Bounded(r) == served[r] <= Len(conns) /\ (want[r] >= 0 => served[r] <= want[r])

LEMMA UnstartedStep ==
  ASSUME Shapes, InHand, Counted, Next, NEW r \in Relays
  PROVE  Unstarted(r)'
<1> SUFFICES ASSUME relay'[r] = "start"
             PROVE  served'[r] = 0 /\ \A i \in Indices' : conns'[i].to # r
  BY DEF Unstarted
<1>1. relay[r] = "start" /\ served'[r] = served[r]
  <2>1. ~ Acts(r)
    BY PlaceAfter DEF Acts
  <2>. QED  BY <2>1, OthersWait, RelaysWait, NextSplits
<1>2. served[r] = 0 /\ \A i \in Indices : conns[i].to # r
  BY <1>1 DEF Counted
<1>3. ~ CanDial(r)
  BY <1>1 DEF CanDial, Listening
<1>4. ASSUME NEW d, Adds(d), CanDial(d.to)  PROVE \A i \in Indices' : conns'[i].to # r
  <2>1. \A i \in Indices' : i \in Indices \/ i = Len(conns) + 1
    BY <1>4, LenFacts DEF Adds, Indices
  <2>. QED  BY <1>2, <1>3, <1>4, <2>1 DEF Adds
<1>5. ASSUME NEW i \in Indices'  PROVE conns'[i].to # r
  <2>1. CASE i \in Indices
    BY <1>2, <2>1, NewOnes DEF Same
  <2>2. CASE \E c \in Clients : ClientDial(c)
    BY <1>4, <2>2, ClientDialAdds DEF Connection
  <2>3. CASE \E s \in Relays : Dial(s)
    BY <1>4, <2>3, DialAdds DEF Connection
  <2>. QED  BY <2>1, <2>2, <2>3, NewOnes
<1>. QED  BY <1>1, <1>2, <1>5

\* What other actors do to the connections of relay r leaves its count right.
LEMMA ServingBesides ==
  ASSUME Shapes, InHand, Counted, Next, NEW r \in Relays,
         \/ \E s \in Relays : s # r /\ Acts(s)
         \/ \E c \in Clients : ClientDial(c) \/ ClientDialFails(c) \/ ClientCloses(c)
         \/ \E i \in Indices : Send(i)
         \/ UNCHANGED vars
  PROVE  /\ OfState(r, "closed")' = OfState(r, "closed")
         /\ OfState(r, "accepted")' = OfState(r, "accepted")
<1> DEFINE Still == /\ OfState(r, "closed")' = OfState(r, "closed")
                    /\ OfState(r, "accepted")' = OfState(r, "accepted")
<1>1. ASSUME Quiet  PROVE Still
  BY <1>1, QuietStates
<1>2. ASSUME NEW d, Adds(d), d.state = "queued"  PROVE Still
  BY <1>2, AddedStates
<1>3. ASSUME NEW s \in Relays, s # r, Accept(s)  PROVE Still
  <2>1. PICK i \in Waiting(s) : Moves(i, "accepted")
    BY <1>3, AcceptMoves
  <2>. QED  BY <1>3, <2>1, MovedStates DEF Waiting
<1>4. ASSUME NEW s \in Relays, s # r, Close(s)  PROVE Still
  <2>1. Moves(peer[s], "closed")
    BY <1>4, CloseMoves
  <2>2. conns[peer[s]].state = "accepted" /\ conns[peer[s]].to = s
    <3>1. relay[s] = "close"
      BY <1>4, PlaceAfter
    <3>2. OfState(s, "accepted") = {peer[s]}
      BY <3>1 DEF Counted, Listening
    <3>. QED  BY <3>2 DEF OfState
  <2>. QED  BY <1>4, <2>1, <2>2, MovedStates
<1>5. ASSUME NEW s \in Relays, s # r, Quit(s) \/ Killed(s)  PROVE Still
  BY <1>5, QuitAbandons, KilledAbandons, AbandonedStates
<1>6. ASSUME NEW s \in Relays, Dial(s)  PROVE Still
  BY <1>2, <1>6, DialAdds DEF Connection
<1>7. ASSUME NEW c \in Clients, ClientDial(c)  PROVE Still
  BY <1>2, <1>7, ClientDialAdds DEF Connection
<1>8. ASSUME NEW s \in Relays, s # r, Acts(s)  PROVE Still
  BY <1>8, <1>1, <1>3, <1>4, <1>5, <1>6, QuietSteps DEF Acts
<1>9. ASSUME NEW c \in Clients, ClientDialFails(c) \/ ClientCloses(c)  PROVE Still
  BY <1>9, <1>1, QuietSteps
<1>10. ASSUME NEW i \in Indices, Send(i)  PROVE Still
  BY <1>10, <1>1, QuietSteps
<1>11. UNCHANGED vars => Still
  BY <1>1, UnchangedIsQuiet DEF vars
<1> HIDE DEF Still
<1>12. Still
  BY <1>7, <1>8, <1>9, <1>10, <1>11
<1>. QED  BY <1>12 DEF Still

LEMMA CloseCounts ==
  ASSUME Shapes, InHand, Counted, NEW r \in Relays, Close(r)
  PROVE  /\ served'[r] = served[r] + 1 /\ served[r] < want[r] /\ relay[r] = "close"
         /\ Cardinality(OfState(r, "closed")') = served[r] + 1
         /\ OfState(r, "accepted")' = {}
<1>1. relay[r] = "close" /\ relay'[r] = "accept"
  BY PlaceAfter
<1>2. /\ served[r] = Cardinality(OfState(r, "closed"))
      /\ OfState(r, "accepted") = {peer[r]}
  BY <1>1 DEF Counted, Listening
<1>3. conns[peer[r]].to = r /\ conns[peer[r]].state = "accepted"
  BY <1>2 DEF OfState
<1>4. Moves(peer[r], "closed")
  BY CloseMoves
<1>5. /\ OfState(r, "closed")' = OfState(r, "closed") \cup {peer[r]}
      /\ OfState(r, "accepted")' = OfState(r, "accepted") \ {peer[r]}
  BY <1>3, <1>4, MovedStates
<1>6. peer[r] \notin OfState(r, "closed")
  BY <1>3 DEF OfState
<1>7. Cardinality(OfState(r, "closed")') = Cardinality(OfState(r, "closed")) + 1
  BY <1>5, <1>6, FiniteOfState, FS_AddElement
<1>8. served'[r] = served[r] + 1 /\ served[r] < want[r]
  BY <1>1 DEF Close, Shapes, InHand, Busy
<1>. QED  BY <1>1, <1>2, <1>5, <1>7, <1>8

LEMMA ServingStep ==
  ASSUME Shapes, InHand, Counted, Next, NEW r \in Relays
  PROVE  Serving(r)'
<1>0. Serving(r)
  BY DEF Counted, Serving
<1>1. ASSUME relay'[r] = relay[r], served'[r] = served[r], peer'[r] = peer[r],
             OfState(r, "closed")' = OfState(r, "closed"),
             OfState(r, "accepted")' = OfState(r, "accepted")
      PROVE  Serving(r)'
  BY <1>0, <1>1 DEF Serving, Listening
<1>2. ASSUME NEW s \in Relays, s # r, Acts(s)  PROVE Serving(r)'
  BY <1>1, <1>2, OthersWait, ServingBesides
<1>3. ASSUME \/ \E c \in Clients : ClientDial(c) \/ ClientDialFails(c) \/ ClientCloses(c)
             \/ \E i \in Indices : Send(i)
             \/ UNCHANGED vars
      PROVE  Serving(r)'
  BY <1>1, <1>3, RelaysWait, ServingBesides
<1>4. CASE Listen(r)
  <2>1. relay[r] = "start" /\ UNCHANGED <<conns, served>>
    BY <1>4 DEF Listen, handling
  <2>2. OfState(r, "closed") = {} /\ OfState(r, "accepted") = {} /\ served[r] = 0
    <3>1. Unstarted(r)
      BY DEF Counted, Unstarted
    <3>. QED  BY <2>1, <3>1 DEF Unstarted, OfState
  <2>3. OfState(r, "closed")' = {} /\ OfState(r, "accepted")' = {} /\ served'[r] = 0
    BY <2>1, <2>2 DEF OfState, Indices
  <2>4. relay'[r] \in {"accept", "down"}
    BY <1>4, PlaceAfter
  <2>5. relay'[r] = "accept" => r \notin Requested
    BY <1>4 DEF Listen, Goes, Shapes
  <2>6. Cardinality(OfState(r, "closed")') = 0
    BY <2>3, FS_EmptySet
  <2>. QED  BY <2>3, <2>4, <2>5, <2>6 DEF Serving, Listening
<1>5. CASE Accept(r)
  <2>1. PICK i \in Waiting(r) : Moves(i, "accepted") /\ peer' = [peer EXCEPT ![r] = i]
    BY <1>5, AcceptMoves
  <2>2. conns[i].to = r /\ conns[i].state = "queued"
    BY <2>1 DEF Waiting
  <2>3. relay[r] = "accept" /\ relay'[r] = "header" /\ served' = served
    BY <1>5, PlaceAfter DEF Accept
  <2>4. /\ OfState(r, "accepted")' = OfState(r, "accepted") \cup {i}
        /\ OfState(r, "closed")' = OfState(r, "closed") \ {i}
    BY <2>1, <2>2, MovedStates
  <2>5. i \notin OfState(r, "closed")
    BY <2>2 DEF OfState
  <2>6. OfState(r, "closed")' = OfState(r, "closed")
    BY <2>4, <2>5
  <2>7. peer'[r] = i
    BY <2>1 DEF Shapes
  <2>. QED  BY <1>0, <2>3, <2>4, <2>6, <2>7 DEF Serving, Listening
<1>6. CASE Close(r)
  <2>1. relay'[r] = "accept" /\ relay[r] = "close"
    BY <1>6, PlaceAfter
  <2>. QED  BY <1>0, <1>6, <2>1, CloseCounts DEF Serving, Listening
<1>7. CASE Quit(r) \/ Killed(r)
  <2>1. relay'[r] = "down"
    BY <1>7, PlaceAfter
  <2>. QED  BY <2>1 DEF Serving, Listening
<1>8. CASE \/ RecvHeader(r) \/ RecvFrame(r) \/ RecvFails(r) \/ Handle(r) \/ DialFails(r)
           \/ Forwarded(r) \/ Dial(r)
  <2>1. /\ relay[r] \in {"header", "body", "handle", "dial", "forward"}
        /\ relay'[r] \in {"body", "handle", "dial", "forward", "close"}
    BY <1>8, PlaceAfter
  <2>2. UNCHANGED <<served, peer>>
    BY <1>8 DEF RecvHeader, RecvFrame, RecvFails, Handle, DialFails, Forwarded, Dial, handling
  <2>3. ASSUME NEW st \in {"closed", "accepted"}  PROVE OfState(r, st)' = OfState(r, st)
    <3>1. Quiet => OfState(r, st)' = OfState(r, st)
      BY QuietStates
    <3>2. Dial(r) => OfState(r, st)' = OfState(r, st)
      BY <2>3, DialAdds, AddedStates DEF Connection
    <3>. QED  BY <1>8, <3>1, <3>2, QuietSteps
  <2>4. Listening(r) /\ Listening(r)'
    BY <2>1 DEF Listening
  <2>. QED  BY <1>0, <2>1, <2>2, <2>3, <2>4 DEF Serving
<1>. QED  BY <1>2, <1>3, <1>4, <1>5, <1>6, <1>7, <1>8, NextSplits DEF Acts

LEMMA BoundedStep ==
  ASSUME Shapes, InHand, Counted, Next, NEW r \in Relays, Shapes'
  PROVE  Bounded(r)'
<1>1. Len(conns) \in Nat /\ Len(conns') \in Nat /\ Len(conns) <= Len(conns')
  BY KeptByAll, LenFacts DEF Kept
<1>2. /\ served[r] <= Len(conns) /\ (want[r] >= 0 => served[r] <= want[r])
      /\ served[r] \in Nat /\ want[r] \in Int /\ want' = want
  BY ReportsStep DEF Counted, Shapes, arguments
<1>3. ASSUME served'[r] = served[r]  PROVE Bounded(r)'
  BY <1>1, <1>2, <1>3 DEF Bounded
<1>4. CASE Close(r)
  <2>1. /\ served'[r] = served[r] + 1 /\ served[r] < want[r]
        /\ Cardinality(OfState(r, "closed")') = served[r] + 1
    BY <1>4, CloseCounts
  <2>2. Len(conns') = Len(conns)
    BY <1>4, CloseMoves DEF Moves
  <2>3. Cardinality(OfState(r, "closed")') <= Len(conns')
    <3>1. IsFiniteSet(Indices') /\ Cardinality(Indices') = Len(conns')
      BY <1>1, IntervalSize DEF Indices
    <3>2. OfState(r, "closed")' \subseteq Indices'
      BY DEF OfState
    <3>. QED  BY <3>1, <3>2, FS_Subset
  <2>. QED  BY <1>1, <1>2, <2>1, <2>3 DEF Bounded
<1>5. ASSUME Acts(r), ~ Close(r)  PROVE served' = served
  BY <1>5 DEF Acts, Listen, Accept, Quit, RecvHeader, RecvFrame, RecvFails, Handle, Dial, DialFails,
              Forwarded, Killed, handling
<1>6. ASSUME NEW s \in Relays, s # r, Acts(s)  PROVE served'[r] = served[r]
  BY <1>6, OthersWait
<1>. QED  BY <1>3, <1>4, <1>5, <1>6, NextSplits, RelaysWait

LEMMA CountedStep ==
  ASSUME Shapes, InHand, Counted, [Next]_vars, Shapes'
  PROVE  Counted'
<1>1. CASE UNCHANGED vars
  <2>1. Quiet /\ UNCHANGED <<conns, relay, served, peer, want>>
    BY <1>1, UnchangedIsQuiet DEF vars, handling, arguments
  <2>2. \A r, st : OfState(r, st)' = OfState(r, st)
    BY <2>1, QuietStates
  <2>. QED  BY <2>1, <2>2 DEF Counted, Listening, Indices
<1>2. CASE Next
  <2>1. \A r \in Relays : Unstarted(r)' /\ Serving(r)' /\ Bounded(r)'
                          /\ Cardinality(OfState(r, "queued")') <= Backlog
    BY <1>2, UnstartedStep, ServingStep, BoundedStep, BacklogStep
  <2>. QED  BY <2>1 DEF Counted, Unstarted, Serving, Bounded
<1>. QED  BY <1>1, <1>2

-----------------------------------------------------------------------------
LEMMA InitHolds == Init => IInv
<1> SUFFICES ASSUME Init  PROVE IInv
  OBVIOUS
<1>1. Indices = {} /\ Len(conns) = 0 /\ Len(reports) = 0
  BY DEF Init, Indices
<1>2. Shapes
  <2>1. frame = [r \in Relays |-> frame[r]]
    BY DEF Init
  <2>2. next \in [Relays -> Relays \cup {NoNext, Garbled}] /\ want \in [Relays -> Int]
    BY FrameAssumption DEF Init
  <2>. QED  BY <1>1, <2>1, <2>2 DEF Init, Shapes
<1>3. \A r \in Relays : relay[r] = "start" /\ served[r] = 0
  BY DEF Init
<1>4. InHand
  BY <1>3 DEF InHand, Busy
<1>5. Holding = {} /\ Pending = {}
  BY <1>1, <1>3 DEF Holding, Pending
<1>6. Carried /\ OneCopy /\ NotBefore
  BY <1>1, <1>5 DEF Carried, OneCopy, NotBefore
<1>7. Counted
  <2>1. \A r \in Relays, st \in {"queued"} : OfState(r, st) = {}
    BY <1>1 DEF OfState
  <2>2. Cardinality({}) = 0
    BY FS_EmptySet
  <2>3. Backlog \in Nat /\ \A r \in Relays : want[r] \in Int
    BY <1>2, FrameAssumption DEF Shapes
  <2>4. ASSUME NEW r \in Relays  PROVE Unstarted(r) /\ Serving(r) /\ Bounded(r)
    BY <1>1, <1>3, <2>3 DEF Unstarted, Serving, Bounded, Listening
  <2>5. \A r \in Relays : Cardinality(OfState(r, "queued")) <= Backlog
    BY <2>1, <2>2, <2>3
  <2>. QED  BY <2>4, <2>5 DEF Counted, Unstarted, Serving, Bounded
<1>. QED  BY <1>2, <1>4, <1>6, <1>7 DEF IInv

LEMMA NextKeeps == IInv /\ [Next]_vars => IInv'
<1> SUFFICES ASSUME IInv, [Next]_vars  PROVE IInv'
  OBVIOUS
<1>1. Shapes' /\ InHand' /\ Carried'
  BY ShapesStep, InHandStep, CarriedStep DEF IInv
<1>2. OneCopy' /\ NotBefore' /\ Counted'
  BY <1>1, CopiesStep, CountedStep DEF IInv
<1>. QED  BY <1>1, <1>2 DEF IInv

LEMMA Invariance == Spec => []IInv
BY InitHolds, NextKeeps, PTL DEF Spec

-----------------------------------------------------------------------------
\* Whatever relays, clients and connections do, every variable has its type, a
\* relay has one connection in hand and counts those it is through with, no
\* listener keeps more than its backlog, and a process that was asked for
\* privacy never listens (cmd_relay, transport_listen).
THEOREM TypeInvariance == Spec => []TypeOK
<1>1. IInv => TypeOK
  <2> SUFFICES ASSUME IInv  PROVE TypeOK
    OBVIOUS
  <2>1. Shapes /\ Counted
    BY DEF IInv
  <2>2. ASSUME NEW i \in Indices
        PROVE  /\ conns[i].from \in Processes /\ conns[i].to \in Relays
               /\ conns[i].sent \in 0 .. Total(conns[i].frame) /\ conns[i].frame.hops \in 0 .. 255
               /\ conns[i].state \in {"queued", "accepted", "closed"}
    <3>1. conns[i] \in Connections /\ conns[i].sent <= Total(conns[i].frame)
      BY <2>1, LenFacts DEF Shapes
    <3>2. conns[i].frame \in Frames /\ conns[i].sent \in Nat
      BY <3>1 DEF Connections
    <3>3. Total(conns[i].frame) \in Nat
      BY <3>2, FrameAssumption DEF Total, Frames
    <3>4. conns[i].sent \in 0 .. Total(conns[i].frame)
      BY <3>1, <3>2, <3>3
    <3>. QED  BY <3>1, <3>2, <3>4 DEF Connections, Frames
  <2>3. ASSUME NEW r \in Relays
        PROVE  LET mine == {i \in 1 .. Len(conns) : conns[i].to = r} IN
               /\ Listening(r) => r \notin Requested
               /\ served[r] \in 0 .. Len(conns) /\ (want[r] >= 0 => served[r] <= want[r])
               /\ Cardinality(Waiting(r)) <= Backlog
               /\ Listening(r) => /\ served[r] = Cardinality({i \in mine : conns[i].state = "closed"})
                                  /\ {i \in mine : conns[i].state = "accepted"} =
                                       IF relay[r] = "accept" THEN {} ELSE {peer[r]}
    <3> DEFINE mine == {i \in 1 .. Len(conns) : conns[i].to = r}
    <3>1. /\ {i \in mine : conns[i].state = "closed"} = OfState(r, "closed")
          /\ {i \in mine : conns[i].state = "accepted"} = OfState(r, "accepted")
          /\ Waiting(r) = OfState(r, "queued")
      BY DEF OfState, Indices, Waiting
    <3>2. Serving(r) /\ Bounded(r) /\ Cardinality(OfState(r, "queued")) <= Backlog
      BY <2>1 DEF Counted, Serving, Bounded
    <3>3. served[r] \in Nat /\ Len(conns) \in Nat
      BY <2>1, LenFacts DEF Shapes
    <3>4. served[r] \in 0 .. Len(conns) /\ (want[r] >= 0 => served[r] <= want[r])
      BY <3>2, <3>3 DEF Bounded
    <3>5. Cardinality(Waiting(r)) <= Backlog
      BY <3>1, <3>2
    <3>. QED  BY <3>1, <3>2, <3>4, <3>5, Zenon DEF Serving
  <2>. QED  BY <2>1, <2>2, <2>3 DEF TypeOK, Shapes, Indices
<1>. QED  BY <1>1, Invariance, PTL

\* What relays report or pass on is what was sent: the payload the first
\* sender's digest is for, with every relay taken off its hops, and one report
\* for one frame (transport_recv_frame, transport_send_frame, cmd_relay).
THEOREM FramesArrive == Spec => []FramesAreAsSent
<1>1. IInv => FramesAreAsSent
  <2> SUFFICES ASSUME IInv  PROVE FramesAreAsSent
    OBVIOUS
  <2>1. \A k \in 1 .. Len(reports) : AsSent(reports[k].frame)
    BY DEF IInv, Carried
  <2>2. \A i \in 1 .. Len(conns) : conns[i].from \in Relays => AsSent(conns[i].frame)
    BY DEF IInv, Carried, OnWire, AsSent, Indices
  <2>3. \A k, l \in 1 .. Len(reports) : reports[k].frame.origin = reports[l].frame.origin => k = l
    BY DEF IInv, OneCopy
  <2>. QED  BY <2>1, <2>2, <2>3 DEF FramesAreAsSent, AsSent
<1>. QED  BY <1>1, Invariance, PTL

-----------------------------------------------------------------------------
(* Bit streams and what is written to them: powers of two.                   *)

LEMMA Quotient ==
  ASSUME NEW n \in Nat, NEW b \in Nat \ {0}
  PROVE  /\ n \div b \in Nat /\ n % b \in 0 .. b - 1
         /\ n = (n \div b) * b + (n % b)
OBVIOUS

LEMMA QuotientIs ==
  ASSUME NEW b \in Nat \ {0}, NEW q \in Nat, NEW r \in 0 .. b - 1
  PROVE  (q * b + r) \div b = q /\ (q * b + r) % b = r
OBVIOUS

LEMMA Multiples ==
  ASSUME NEW b \in Nat, NEW i \in Nat, NEW j \in Nat
  PROVE  /\ i * b \in Nat /\ (i + j) * b = i * b + j * b /\ (i <= j => i * b <= j * b)
         /\ 1 * b = b /\ 0 * b = 0
OBVIOUS

\* What holds at first and is passed on holds to the end.
LEMMA Climb ==
  ASSUME NEW n \in Nat, NEW T, 0 \in T, \A i \in 1 .. n : i - 1 \in T => i \in T
  PROVE  \A i \in 0 .. n : i \in T
<1> DEFINE R == {i \in 0 .. n : i \notin T}
<1>1. SUFFICES ASSUME R # {}  PROVE FALSE
  OBVIOUS
<1>2. PICK m \in R : \A k \in R : m <= k
  <2>1. R \subseteq Nat
    OBVIOUS
  <2> HIDE DEF R
  <2>. QED  BY <1>1, <2>1, LeastNatural
<1>3. m \in 1 .. n /\ m - 1 \in 0 .. n /\ ~ (m <= m - 1)
  BY <1>2
<1>4. m - 1 \in T
  BY <1>2, <1>3
<1>. QED  BY <1>2, <1>3, <1>4

\* f starts at a and takes the steps of G up to n.
Steps(f, G, a, n) == f[0] = a /\ \A i \in 1 .. n : f[i] = G[i][f[i - 1]]

LEMMA StepsExist ==
  ASSUME NEW S, NEW a \in S, NEW G \in [Nat -> [S -> S]], NEW n \in Nat
  PROVE  \E f \in [0 .. n -> S] : Steps(f, G, a, n)
<1> DEFINE W == {m \in Nat : \E f \in [0 .. m -> S] : Steps(f, G, a, m)}
<1>1. 0 \in W
  <2> DEFINE f == [i \in 0 .. 0 |-> a]
  <2>1. f \in [0 .. 0 -> S] /\ Steps(f, G, a, 0)
    BY DEF Steps
  <2>. QED  BY <2>1
<1>2. ASSUME NEW m \in 1 .. n, m - 1 \in W  PROVE m \in W
  <2>1. PICK f \in [0 .. m - 1 -> S] : Steps(f, G, a, m - 1)
    BY <1>2
  <2> DEFINE x == G[m][f[m - 1]]
             g == [i \in 0 .. m |-> IF i = m THEN x ELSE f[i]]
  <2>2. x \in S
    OBVIOUS
  <2>3. f[0] = a /\ \A i \in 1 .. m - 1 : f[i] = G[i][f[i - 1]]
    BY <2>1, Zenon DEF Steps
  <2> HIDE DEF x
  <2>4. g \in [0 .. m -> S] /\ g[m] = x /\ \A i \in 0 .. m - 1 : g[i] = f[i]
    BY <2>2
  <2> HIDE DEF g
  <2>5. g[0] = a
    BY <2>3, <2>4
  <2>6. ASSUME NEW i \in 1 .. m  PROVE g[i] = G[i][g[i - 1]]
    <3>1. i - 1 \in 0 .. m - 1 /\ g[i - 1] = f[i - 1]
      BY <2>4
    <3>2. CASE i = m
      BY <2>4, <3>1, <3>2 DEF x
    <3>3. CASE i # m
      <4>1. i \in 1 .. m - 1 /\ i \in 0 .. m - 1
        BY <3>3
      <4>. QED  BY <2>3, <2>4, <3>1, <4>1
    <3>. QED  BY <3>2, <3>3
  <2>7. Steps(g, G, a, m)
    BY <2>5, <2>6, Zenon DEF Steps
  <2>. QED  BY <2>4, <2>7
<1> HIDE DEF W
<1>3. \A m \in 0 .. n : m \in W
  BY <1>1, <1>2, Climb
<1>. QED  BY <1>3 DEF W

LEMMA StepsAgree ==
  ASSUME NEW f, NEW g, NEW G, NEW a, NEW m \in Nat, NEW n \in Nat, Steps(f, G, a, m), Steps(g, G, a, n), n <= m
  PROVE  f[n] = g[n]
<1> DEFINE T == {i \in 0 .. n : f[i] = g[i]}
<1>1. 0 \in T
  BY DEF Steps
<1>2. ASSUME NEW i \in 1 .. n, i - 1 \in T  PROVE i \in T
  <2>1. i \in 1 .. m /\ f[i - 1] = g[i - 1]
    BY <1>2
  <2>2. f[i] = G[i][f[i - 1]] /\ g[i] = G[i][g[i - 1]]
    BY <2>1 DEF Steps
  <2>. QED  BY <2>1, <2>2
<1> HIDE DEF T
<1>3. \A i \in 0 .. n : i \in T
  BY <1>1, <1>2, Climb
<1>. QED  BY <1>3 DEF T

TwoAt(f, n) == IF n = 0 THEN 1 ELSE 2 * f[n - 1]

LEMMA TwoIs ==
  /\ Two[0] = 1
  /\ \A n \in Nat : Two[n] \in Nat \ {0}
  /\ \A n \in Nat : Two[n + 1] = 2 * Two[n]
<1> DEFINE P == Nat \ {0}
           D == [x \in P |-> 2 * x]
           G == [i \in Nat |-> D]
           F(m) == CHOOSE f : f \in [0 .. m -> P] /\ Steps(f, G, 1, m)
           h == [m \in Nat |-> F(m)[m]]
<1>1. D \in [P -> P] /\ \A x \in P : D[x] = 2 * x
  OBVIOUS
<1> HIDE DEF D
<1>2. 1 \in P /\ G \in [Nat -> [P -> P]] /\ \A i \in Nat : G[i] = D
  BY <1>1
<1> HIDE DEF P, G
<1>3. ASSUME NEW m \in Nat  PROVE F(m) \in [0 .. m -> P] /\ Steps(F(m), G, 1, m)
  <2>1. \E f : f \in [0 .. m -> P] /\ Steps(f, G, 1, m)
    BY <1>2, StepsExist
  <2>. QED  BY <2>1, Zenon
<1> HIDE DEF F
<1>4. \A m \in Nat : h[m] = F(m)[m]
  OBVIOUS
<1>5. \A m \in Nat : h[m] \in P
  <2> SUFFICES ASSUME NEW m \in Nat  PROVE F(m)[m] \in P
    BY <1>4
  <2>. QED  BY <1>3
<1>6. h = [m \in Nat |-> h[m]]
  OBVIOUS
<1> HIDE DEF h
<1>7. h[0] = 1
  BY <1>3, <1>4 DEF Steps
<1>8. ASSUME NEW m \in Nat, m # 0  PROVE h[m] = 2 * h[m - 1]
  <2>1. m - 1 \in Nat /\ m - 1 <= m /\ m \in 1 .. m
    BY <1>8
  <2>2. F(m)[m - 1] = F(m - 1)[m - 1]
    <3> DEFINE f == F(m)
               g == F(m - 1)
               k == m - 1
    <3>1. Steps(f, G, 1, m) /\ Steps(g, G, 1, k) /\ k \in Nat /\ k <= m
      BY <1>3, <2>1
    <3> HIDE DEF f, g, k
    <3>2. f[k] = g[k]
      BY <3>1, StepsAgree
    <3>. QED  BY <3>2 DEF f, g, k
  <2>3. F(m)[m] = G[m][F(m)[m - 1]]
    BY <1>3, <2>1 DEF Steps
  <2>4. F(m)[m - 1] = h[m - 1]
    BY <1>4, <2>1, <2>2
  <2>5. h[m - 1] \in P
    BY <1>5, <2>1
  <2>. QED  BY <1>1, <1>2, <1>4, <2>3, <2>4, <2>5
<1>9. h = [m \in Nat |-> TwoAt(h, m)]
  <2>1. ASSUME NEW m \in Nat  PROVE h[m] = TwoAt(h, m)
    <3>1. CASE m = 0
      BY <1>7, <3>1 DEF TwoAt
    <3>2. CASE m # 0
      BY <1>8, <3>2 DEF TwoAt
    <3>. QED  BY <3>1, <3>2
  <2>. QED  BY <1>6, <2>1
<1> DEFINE C == CHOOSE f : f = [m \in Nat |-> TwoAt(f, m)]
<1>10. Two = C
  BY Zenon DEF Two, TwoAt
<1>11. C = [m \in Nat |-> TwoAt(C, m)]
  BY <1>9, Zenon
<1> HIDE DEF C
<1>12. ASSUME NEW m \in Nat  PROVE C[m] = TwoAt(C, m)
  BY <1>11
<1>13. C[0] = 1
  BY <1>12 DEF TwoAt
<1>14. ASSUME NEW m \in Nat  PROVE C[m + 1] = 2 * C[m]
  <2>1. m + 1 \in Nat /\ m + 1 # 0 /\ (m + 1) - 1 = m
    OBVIOUS
  <2>2. C[m + 1] = TwoAt(C, m + 1)
    BY <1>12, <2>1
  <2> DEFINE k == m + 1
  <2>3. k # 0 /\ k - 1 = m /\ C[k] = TwoAt(C, k)
    BY <2>1, <2>2
  <2> HIDE DEF k
  <2>4. C[k] = 2 * C[m]
    BY <2>3 DEF TwoAt
  <2>. QED  BY <2>4 DEF k
<1>15. ASSUME NEW n \in Nat  PROVE C[n] \in Nat \ {0}
  <2> DEFINE T == {i \in 0 .. n : C[i] \in Nat \ {0}}
  <2>1. 0 \in T
    BY <1>13
  <2>2. ASSUME NEW i \in 1 .. n, i - 1 \in T  PROVE i \in T
    <3>1. i - 1 \in Nat /\ (i - 1) + 1 = i /\ C[i - 1] \in Nat \ {0}
      BY <2>2
    <3>2. C[(i - 1) + 1] = 2 * C[i - 1]
      BY <1>14, <3>1
    <3>. QED  BY <3>1, <3>2
  <2> HIDE DEF T
  <2>3. \A i \in 0 .. n : i \in T
    BY <2>1, <2>2, Climb
  <2>. QED  BY <2>3 DEF T
<1>. QED  BY <1>10, <1>13, <1>14, <1>15

LEMMA TwoSum ==
  ASSUME NEW m \in Nat, NEW n \in Nat
  PROVE  Two[m + n] = Two[m] * Two[n]
<1> DEFINE T == {i \in 0 .. n : Two[m + i] = Two[m] * Two[i]}
           a == Two[m]
<1>1. a \in Nat
  BY TwoIs
<1>2. 0 \in T
  <2>1. m + 0 = m /\ a * 1 = a /\ 0 \in 0 .. n
    BY <1>1
  <2>. QED  BY <2>1, TwoIs
<1>3. ASSUME NEW i \in 1 .. n, i - 1 \in T  PROVE i \in T
  <2> DEFINE b == Two[i - 1]
  <2>1. i - 1 \in Nat /\ (i - 1) + 1 = i /\ m + (i - 1) \in Nat /\ (m + (i - 1)) + 1 = m + i
    OBVIOUS
  <2>2. Two[i] = 2 * b /\ b \in Nat /\ Two[m + i] = 2 * Two[m + (i - 1)]
    BY <2>1, TwoIs
  <2>3. Two[m + (i - 1)] = a * b
    BY <1>3
  <2> HIDE DEF a, b
  <2>4. 2 * (a * b) = a * (2 * b)
    BY <1>1, <2>2
  <2>5. Two[m + i] = a * Two[i]
    BY <2>2, <2>3, <2>4
  <2>. QED  BY <2>5 DEF a
<1> HIDE DEF T
<1>4. \A i \in 0 .. n : i \in T
  BY <1>2, <1>3, Climb
<1>. QED  BY <1>4 DEF T

LEMMA TwoGrows ==
  ASSUME NEW m \in Nat, NEW n \in Nat, m <= n
  PROVE  Two[m] <= Two[n]
<1> DEFINE k == n - m
<1>1. k \in Nat /\ m + k = n
  OBVIOUS
<1> HIDE DEF k
<1>2. Two[n] = Two[m] * Two[k] /\ Two[m] \in Nat /\ Two[k] \in Nat \ {0}
  BY <1>1, TwoSum, TwoIs
<1> DEFINE a == Two[m]
           b == Two[k]
<1>3. a \in Nat /\ b \in Nat \ {0} => a <= a * b
  OBVIOUS
<1>. QED  BY <1>2, <1>3

\* Division by a product is division by the one and then by the other.
LEMMA DivideTwice ==
  ASSUME NEW v \in Nat, NEW b \in Nat \ {0}, NEW c \in Nat \ {0}
  PROVE  /\ v \div (b * c) = (v \div b) \div c
         /\ v % (b * c) = b * ((v \div b) % c) + (v % b)
<1> DEFINE q == v \div b
           r == v % b
           s == q \div c
           u == q % c
<1>1. q \in Nat /\ r \in 0 .. b - 1 /\ v = q * b + r
  BY Quotient
<1> HIDE DEF q, r
<1>2. s \in Nat /\ u \in 0 .. c - 1 /\ q = s * c + u
  BY <1>1, Quotient
<1> HIDE DEF s, u
<1> DEFINE p == b * c
           t == b * u
           w == t + r
<1>3. p \in Nat \ {0} /\ t \in Nat /\ u + 1 <= c
  BY <1>2
<1>4. t + b <= p
  <2>1. (u + 1) * b <= c * b /\ (u + 1) * b = u * b + b
    BY <1>2
  <2>2. u * b = b * u /\ c * b = b * c
    BY <1>2
  <2>. QED  BY <2>1, <2>2
<1>5. v = s * p + w
  <2>1. (s * c + u) * b = s * (b * c) + b * u
    BY <1>2
  <2> HIDE DEF p, t
  <2>2. q * b = s * p + t
    BY <1>2, <2>1 DEF p, t
  <2>3. s * p \in Nat /\ q * b \in Nat
    BY <1>1, <1>2, <1>3
  <2> DEFINE x == s * p
             y == q * b
  <2>4. y = x + t /\ v = y + r /\ x \in Nat /\ y \in Nat
    BY <1>1, <2>2, <2>3
  <2> HIDE DEF x, y
  <2>5. v = x + (t + r)
    BY <1>1, <1>3, <2>4
  <2>. QED  BY <2>5 DEF x
<1> HIDE DEF p, t
<1>6. w \in 0 .. p - 1
  BY <1>1, <1>3, <1>4
<1> HIDE DEF w
<1>7. v \div p = s /\ v % p = w
  BY <1>2, <1>3, <1>5, <1>6, QuotientIs
<1>. QED  BY <1>7 DEF p, q, r, s, u, t, w

-----------------------------------------------------------------------------
(* Numbers and their slices. *)

NumberAt(f, a, d, w, i) == IF i = 0 THEN a ELSE Two[w] * f[i - 1] + d[i]

\* The values the loop takes.
Grows(a, d, w) ==
  \E f \in [0 .. Len(d) -> Nat] :
    /\ f[0] = a /\ \A i \in 1 .. Len(d) : f[i] = Two[w] * f[i - 1] + d[i]
    /\ Number(a, d, w) = f[Len(d)]

LEMMA NumberIs ==
  ASSUME NEW a \in Nat, NEW d \in Seq(Nat), NEW w \in Nat
  PROVE  Grows(a, d, w)
<1> DEFINE n == Len(d)
           B == Two[w]
           E == [i \in Nat |-> IF i \in 1 .. n THEN d[i] ELSE 0]
           G == [i \in Nat |-> [x \in Nat |-> B * x + E[i]]]
<1>1. n \in Nat /\ B \in Nat /\ \A i \in 1 .. n : d[i] \in Nat
  <2>1. B \in Nat
    BY TwoIs
  <2> HIDE DEF B
  <2>. QED  BY <2>1
<1>2. E \in [Nat -> Nat] /\ \A i \in 1 .. n : E[i] = d[i]
  BY <1>1
<1> HIDE DEF B, E
<1>3. G \in [Nat -> [Nat -> Nat]] /\ \A i \in Nat : \A x \in Nat : G[i][x] = B * x + E[i]
  <2>1. ASSUME NEW i \in Nat, NEW x \in Nat  PROVE B * x + E[i] \in Nat
    <3>1. E[i] \in Nat
      BY <1>2
    <3>2. B * x \in Nat
      BY <1>1
    <3>. QED  BY <3>1, <3>2
  <2>. QED  BY <2>1
<1> HIDE DEF G, n
<1>4. PICK f \in [0 .. n -> Nat] : Steps(f, G, a, n)
  BY <1>1, <1>3, StepsExist, Zenon
<1>5. f[0] = a
  BY <1>4 DEF Steps
<1>6. ASSUME NEW i \in 1 .. n  PROVE f[i] = B * f[i - 1] + d[i]
  <2>1. i \in Nat /\ i - 1 \in 0 .. n
    BY <1>1
  <2>2. f[i] = G[i][f[i - 1]]
    BY <1>4 DEF Steps
  <2>3. f[i - 1] \in Nat
    BY <1>4, <2>1
  <2>4. G[i][f[i - 1]] = B * f[i - 1] + E[i]
    BY <1>3, <2>1, <2>3
  <2>. QED  BY <1>2, <2>2, <2>4
<1>7. f = [i \in 0 .. n |-> NumberAt(f, a, d, w, i)]
  <2>1. ASSUME NEW i \in 0 .. n  PROVE f[i] = NumberAt(f, a, d, w, i)
    <3>1. CASE i = 0
      BY <1>5, <3>1 DEF NumberAt
    <3>2. CASE i # 0
      BY <1>6, <3>2 DEF NumberAt, B
    <3>. QED  BY <3>1, <3>2
  <2>. QED  BY <1>4, <2>1
<1> DEFINE C == CHOOSE g : g = [i \in 0 .. n |-> NumberAt(g, a, d, w, i)]
<1>8. Number(a, d, w) = C[n]
  BY Zenon DEF Number, NumberAt, n
<1>9. C = [i \in 0 .. n |-> NumberAt(C, a, d, w, i)]
  BY <1>7, Zenon
<1> HIDE DEF C
<1>10. \A i \in 0 .. n : C[i] = NumberAt(C, a, d, w, i)
  BY <1>9
<1> DEFINE T == {i \in 0 .. n : C[i] = f[i]}
<1>11. 0 \in T
  BY <1>1, <1>5, <1>10 DEF NumberAt
<1>12. ASSUME NEW i \in 1 .. n, i - 1 \in T  PROVE i \in T
  <2>1. C[i - 1] = f[i - 1] /\ i \in 0 .. n /\ i # 0
    BY <1>12
  <2>2. C[i] = B * C[i - 1] + d[i]
    BY <1>10, <2>1 DEF NumberAt, B
  <2>. QED  BY <1>6, <2>1, <2>2
<1> HIDE DEF T
<1>13. \A i \in 0 .. n : i \in T
  BY <1>1, <1>11, <1>12, Climb
<1>14. C[n] = f[n]
  BY <1>1, <1>13 DEF T
<1>. QED  BY <1>4, <1>5, <1>6, <1>8, <1>14 DEF n, B, Grows

\* What is read has the type of a number.
LEMMA NumberNat ==
  ASSUME NEW a \in Nat, NEW d \in Seq(Nat), NEW w \in Nat
  PROVE  Number(a, d, w) \in Nat
<1>1. PICK f \in [0 .. Len(d) -> Nat] : Number(a, d, w) = f[Len(d)]
  BY NumberIs DEF Grows
<1>. QED  BY <1>1

LEMMA SlicesAre ==
  ASSUME NEW v \in Nat, NEW n \in Nat, NEW w \in Nat
  PROVE  /\ Slices(v, n, w) \in Seq(0 .. Two[w] - 1) /\ Len(Slices(v, n, w)) = n
         /\ \A i \in 1 .. n : Slices(v, n, w)[i] = (v \div Two[w * (n - i)]) % Two[w]
<1> DEFINE B == Two[w]
           D == 0 .. B - 1
<1>1. B \in Nat \ {0}
  BY TwoIs
<1>2. ASSUME NEW i \in 1 .. n  PROVE (v \div Two[w * (n - i)]) % B \in D
  <2> DEFINE k == n - i
             c == Two[w * k]
  <2>1. k \in Nat
    OBVIOUS
  <2> HIDE DEF k
  <2>2. w * k \in Nat
    BY <2>1
  <2>3. c \in Nat \ {0}
    BY <2>2, TwoIs
  <2> HIDE DEF c, B
  <2>4. v \div c \in Nat
    BY <2>3, Quotient
  <2>5. (v \div c) % B \in 0 .. B - 1
    BY <1>1, <2>4, Quotient
  <2>. QED  BY <2>5 DEF c, k
<1> HIDE DEF D
<1>3. [i \in 1 .. n |-> (v \div Two[w * (n - i)]) % B] \in Seq(D)
  BY <1>2
<1>. QED  BY <1>3 DEF Slices, D

\* The number that v's last n slices are is v but for the digits before them.
LEMMA NumberOfSlices ==
  ASSUME NEW x \in Nat, NEW v \in Nat, NEW n \in Nat, NEW w \in Nat
  PROVE  Number(x, Slices(v, n, w), w) = x * Two[w * n] + (v % Two[w * n])
<1> DEFINE d == Slices(v, n, w)
           B == Two[w]
<1>1. d \in Seq(Nat) /\ Len(d) = n /\ \A i \in 1 .. n : d[i] = (v \div Two[w * (n - i)]) % B
  <2>1. d \in Seq(0 .. B - 1) /\ Len(d) = n /\ \A i \in 1 .. n : d[i] = (v \div Two[w * (n - i)]) % B
    BY SlicesAre
  <2>2. B \in Nat
    BY TwoIs
  <2> HIDE DEF d
  <2>3. ASSUME NEW i \in 1 .. n  PROVE d[i] \in Nat
    BY <2>1, <2>2
  <2>. QED  BY <2>1, <2>3
<1>2. B \in Nat \ {0}
  BY TwoIs
<1> HIDE DEF d
<1>3. PICK f \in [0 .. n -> Nat] :
        /\ f[0] = x /\ \A i \in 1 .. n : f[i] = B * f[i - 1] + d[i]
        /\ Number(x, d, w) = f[n]
  <2>1. Grows(x, d, w)
    BY <1>1, NumberIs
  <2>. QED  BY <1>1, <2>1 DEF Grows
<1> DEFINE T == {i \in 0 .. n : f[i] = x * Two[w * i] + ((v \div Two[w * (n - i)]) % Two[w * i])}
<1>4. 0 \in T
  <2> DEFINE q == v \div Two[w * (n - 0)]
  <2>1. w * 0 = 0 /\ 0 \in 0 .. n /\ Two[0] = 1 /\ x * 1 = x
    BY TwoIs
  <2>2. q \in Nat
    <3>1. w * (n - 0) \in Nat
      OBVIOUS
    <3>2. Two[w * (n - 0)] \in Nat \ {0}
      BY <3>1, TwoIs
    <3>. QED  BY <3>2, Quotient
  <2> HIDE DEF q
  <2>3. q % 1 = 0
    BY <2>2
  <2>4. f[0] = x * Two[w * 0] + (q % Two[w * 0])
    BY <1>3, <2>1, <2>3
  <2>. QED  BY <2>1, <2>4 DEF q
<1>5. ASSUME NEW i \in 1 .. n, i - 1 \in T  PROVE i \in T
  <2> DEFINE k == n - i
             j == i - 1
             c == Two[w * k]
             P == Two[w * j]
             q == v \div c
             u == q \div B
             s == u % P
             z == q % B
  <2>1. k \in Nat /\ j \in Nat /\ n - j = k + 1 /\ i = 1 + j
    OBVIOUS
  <2> HIDE DEF k, j
  <2>2. w * k \in Nat /\ w * j \in Nat /\ w * (k + 1) = w * k + w /\ w * (1 + j) = w + w * j
    BY <2>1
  <2>3. c \in Nat \ {0} /\ P \in Nat \ {0}
    BY <2>2, TwoIs
  <2>4. Two[w * (n - j)] = c * B /\ Two[w * i] = B * P
    <3>1. w * k \in Nat /\ w \in Nat
      BY <2>2
    <3>2. Two[w * k + w] = Two[w * k] * Two[w] /\ Two[w + w * j] = Two[w] * Two[w * j]
      BY <2>2, TwoSum
    <3>. QED  BY <2>1, <2>2, <3>2
  <2> HIDE DEF c, P, B
  <2>5. q \in Nat
    BY <2>3, Quotient
  <2>6. v \div (c * B) = u
    BY <1>2, <2>3, DivideTwice
  <2> HIDE DEF q
  <2>7. q % (B * P) = B * s + z /\ u \in Nat /\ z \in Nat
    <3>1. q % (B * P) = B * s + z
      BY <1>2, <2>3, <2>5, DivideTwice, Zenon
    <3>2. u \in Nat /\ z \in 0 .. B - 1
      BY <1>2, <2>5, Quotient
    <3>. QED  BY <1>2, <3>1, <3>2
  <2> HIDE DEF u, z
  <2>8. s \in Nat
    BY <2>3, <2>7, Quotient
  <2>9. f[j] = x * P + s
    BY <1>5, <2>4, <2>6 DEF j, P, s
  <2>10. f[i] = B * f[j] + z
    BY <1>1, <1>3 DEF j, z, q, c, k
  <2> HIDE DEF s
  <2>11. B * (x * P + s) + z = x * (B * P) + (B * s + z)
    BY <1>2, <2>3, <2>7, <2>8
  <2>12. f[i] = x * (B * P) + (q % (B * P))
    BY <2>7, <2>9, <2>10, <2>11
  <2>13. f[i] = x * Two[w * i] + (q % Two[w * i])
    BY <2>4, <2>12
  <2>. QED  BY <2>13 DEF q, c, k
<1> HIDE DEF T
<1>6. \A i \in 0 .. n : i \in T
  BY <1>4, <1>5, Climb
<1>7. f[n] = x * Two[w * n] + ((v \div Two[w * (n - n)]) % Two[w * n])
  BY <1>6 DEF T
<1>8. v \div Two[w * (n - n)] = v
  <2>1. w * (n - n) = 0 /\ Two[0] = 1 /\ v \div 1 = v
    BY TwoIs
  <2>. QED  BY <2>1
<1>9. f[n] = x * Two[w * n] + (v % Two[w * n])
  BY <1>7, <1>8
<1>. QED  BY <1>3, <1>9 DEF d

-----------------------------------------------------------------------------
(* Bytes among the bits of a stream. *)

Octets == 0 .. Two[ByteWidth] - 1

LEMMA Wide == ByteWidth \in Nat \ {0} /\ ByteWidth - 2 \in Nat \ {0}
BY TlvAssumption

LEMMA BitsInAre ==
  ASSUME NEW m \in Nat, NEW n \in Nat
  PROVE  /\ BitsIn(m) \in Nat /\ BitsIn(m + n) = BitsIn(m) + BitsIn(n)
         /\ (m <= n => BitsIn(m) <= BitsIn(n)) /\ (BitsIn(m) <= BitsIn(n) => m <= n)
         /\ BitsIn(1) = ByteWidth /\ BitsIn(0) = 0
<1>1. /\ BitsIn(m) \in Nat /\ BitsIn(n) \in Nat /\ BitsIn(m + n) = BitsIn(m) + BitsIn(n)
      /\ (m <= n => BitsIn(m) <= BitsIn(n)) /\ BitsIn(1) = ByteWidth /\ BitsIn(0) = 0
  BY Wide, Multiples DEF BitsIn
<1>2. BitsIn(m) <= BitsIn(n) => m <= n
  <2>1. SUFFICES ASSUME BitsIn(m) <= BitsIn(n), n + 1 <= m  PROVE FALSE
    OBVIOUS
  <2>2. n + 1 \in Nat /\ (n + 1) * ByteWidth <= m * ByteWidth /\ (n + 1) * ByteWidth = n * ByteWidth + ByteWidth
    BY <2>1, Wide, Multiples
  <2> DEFINE x == m * ByteWidth
             y == n * ByteWidth
             z == (n + 1) * ByteWidth
  <2>3. x <= y /\ z <= x /\ z = y + ByteWidth /\ x \in Nat /\ y \in Nat
    BY <1>1, <2>1, <2>2 DEF BitsIn
  <2> HIDE DEF x, y, z
  <2>. QED  BY <2>3, Wide
<1>. QED  BY <1>1, <1>2

LEMMA BitsInNat == \A n \in Nat : BitsIn(n) \in Nat
BY BitsInAre

LEMMA FitIs ==
  ASSUME NEW n \in Nat, NEW b \in Nat
  PROVE  /\ Fit(n, b) \in 0 .. n /\ BitsIn(Fit(n, b)) <= b
         /\ Fit(n, b) = n <=> BitsIn(n) <= b
<1>1. CASE BitsIn(n) <= b
  BY <1>1 DEF Fit
<1>2. CASE ~ (BitsIn(n) <= b)
  <2> DEFINE q == b \div ByteWidth
  <2>1. Fit(n, b) = q
    BY <1>2 DEF Fit
  <2>2. q \in Nat /\ b % ByteWidth \in 0 .. ByteWidth - 1 /\ b = q * ByteWidth + (b % ByteWidth)
    BY Wide, Quotient
  <2> HIDE DEF q
  <2>3. BitsIn(q) \in Nat /\ BitsIn(q) <= b
    <3> DEFINE y == q * ByteWidth
               z == b % ByteWidth
    <3>1. BitsIn(q) = y /\ y \in Nat /\ b = y + z /\ z \in Nat
      BY <2>2, Wide, Multiples DEF BitsIn
    <3> HIDE DEF y, z
    <3>. QED  BY <3>1
  <2>4. ~ (n <= q)
    <3>1. SUFFICES ASSUME n <= q  PROVE FALSE
      OBVIOUS
    <3>2. BitsIn(n) <= BitsIn(q) /\ BitsIn(n) \in Nat
      BY <2>2, <3>1, BitsInAre
    <3>. QED  BY <1>2, <2>3, <3>2
  <2>. QED  BY <1>2, <2>1, <2>2, <2>3, <2>4
<1>. QED  BY <1>1, <1>2

Bit == {0, 1}

BitsOf(b) == Slices(b, ByteWidth, 1)

LEMMA BitsOfAre ==
  ASSUME NEW b \in Nat
  PROVE  /\ BitsOf(b) \in Seq(Bit) /\ Len(BitsOf(b)) = ByteWidth
         /\ b \in Octets => Number(0, BitsOf(b), 1) = b
<1>1. ByteWidth \in Nat /\ 1 \in Nat /\ 0 \in Nat /\ Two[1] = 2
  <2>1. 0 + 1 = 1 /\ Two[0 + 1] = 2 * Two[0] /\ Two[0] = 1
    BY TwoIs
  <2>. QED  BY <2>1, Wide
<1>2. 0 .. Two[1] - 1 = Bit
  BY <1>1 DEF Bit
<1>3. BitsOf(b) \in Seq(Bit) /\ Len(BitsOf(b)) = ByteWidth
  BY <1>1, <1>2, SlicesAre DEF BitsOf
<1>4. ASSUME b \in Octets  PROVE Number(0, BitsOf(b), 1) = b
  <2>1. Number(0, BitsOf(b), 1) = 0 * Two[1 * ByteWidth] + (b % Two[1 * ByteWidth])
    <3> DEFINE x == 0
               w == 1
               n == ByteWidth
    <3>1. x \in Nat /\ w \in Nat /\ n \in Nat
      BY <1>1
    <3> HIDE DEF x, w, n
    <3>2. Number(x, Slices(b, n, w), w) = x * Two[w * n] + (b % Two[w * n])
      BY <3>1, NumberOfSlices
    <3>. QED  BY <3>2, Zenon DEF BitsOf, x, w, n
  <2> DEFINE B == Two[ByteWidth]
  <2>2. 1 * ByteWidth = ByteWidth /\ B \in Nat \ {0}
    BY <1>1, TwoIs
  <2>3. b \in 0 .. B - 1
    BY <1>4 DEF Octets
  <2>4. Number(0, BitsOf(b), 1) = 0 * B + (b % B)
    BY <2>1, <2>2
  <2> HIDE DEF B
  <2>5. 0 * B = 0 /\ b % B = b
    BY <2>2, <2>3
  <2>. QED  BY <1>4, <2>4, <2>5 DEF Octets
<1>. QED  BY <1>3, <1>4

ByteAt(D, a, b) == \A j \in 1 .. ByteWidth : D[a + j] = BitsOf(b)[j]

BytesAt(D, a, s) ==
  a + BitsIn(Len(s)) <= Len(D) /\ \A i \in 1 .. Len(s) : ByteAt(D, a + BitsIn(i - 1), s[i])

LEMMA AsBitsAre ==
  ASSUME NEW s \in Seq(Octets)
  PROVE  /\ AsBits(s) \in Seq(Bit) /\ Len(AsBits(s)) = BitsIn(Len(s))
         /\ \A i \in 1 .. Len(s) : ByteAt(AsBits(s), BitsIn(i - 1), s[i])
<1> DEFINE n == Len(s)
           w == ByteWidth
           F(k) == BitsOf(s[1 + ((k - 1) \div w)])[1 + ((k - 1) % w)]
<1>1. n \in Nat /\ w \in Nat \ {0} /\ BitsIn(n) \in Nat /\ BitsIn(n) = n * w
  BY Wide, BitsInAre DEF BitsIn
<1>2. \A i \in 1 .. n : s[i] \in Octets /\ s[i] \in Nat
  <2>1. Octets \subseteq Nat
    BY DEF Octets
  <2>2. \A i \in 1 .. n : s[i] \in Octets
    OBVIOUS
  <2> HIDE DEF n
  <2>. QED  BY <2>1, <2>2
<1>3. AsBits(s) = [k \in 1 .. BitsIn(n) |-> F(k)]
  BY Zenon DEF AsBits, BitsOf
<1> HIDE DEF n, w
<1>4. ASSUME NEW i \in 1 .. n, NEW j \in 1 .. w
      PROVE  /\ BitsIn(i - 1) + j \in 1 .. BitsIn(n)
             /\ F(BitsIn(i - 1) + j) = BitsOf(s[i])[j]
  <2> DEFINE q == i - 1
             y == q * w
             r == j - 1
  <2>1. q \in Nat /\ r \in 0 .. w - 1 /\ i = 1 + q /\ j = 1 + r
    BY <1>1
  <2>2. BitsIn(i - 1) = y /\ y \in Nat
    BY <1>1, <2>1, Multiples DEF BitsIn, w
  <2>3. (y + r) \div w = q /\ (y + r) % w = r
    BY <1>1, <2>1, QuotientIs
  <2>4. i * w = y + w /\ i * w <= n * w
    <3>1. i \in Nat /\ i <= n
      BY <1>1
    <3>2. (q + 1) * w = q * w + 1 * w /\ 1 * w = w
      BY <1>1, <2>1, Multiples
    <3>3. q + 1 = i
      BY <2>1
    <3>4. i * w <= n * w
      BY <1>1, <3>1, Multiples
    <3>. QED  BY <3>2, <3>3, <3>4
  <2> DEFINE z == n * w
             x == i * w
  <2>5. x = y + w /\ x <= z /\ z = BitsIn(n)
    BY <1>1, <2>4
  <2> HIDE DEF q, y, r, z, x
  <2>6. (y + j) - 1 = y + r
    BY <2>1, <2>2
  <2>7. y + j \in 1 .. z
    BY <1>1, <2>2, <2>5
  <2>8. F(y + j) = BitsOf(s[1 + q])[1 + r]
    BY <2>3, <2>6
  <2>. QED  BY <2>1, <2>2, <2>5, <2>7, <2>8
<1>5. ASSUME NEW k \in 1 .. BitsIn(n)  PROVE F(k) \in Bit
  <2> DEFINE q == (k - 1) \div w
             r == (k - 1) % w
             y == q * w
  <2>1. k - 1 \in Nat
    BY <1>1
  <2>2. q \in Nat /\ r \in 0 .. w - 1 /\ k - 1 = q * w + r
    BY <1>1, <2>1, Quotient
  <2> HIDE DEF q, r
  <2>3. q < n
    <3>1. SUFFICES ASSUME n <= q  PROVE FALSE
      BY <1>1, <2>2
    <3>2. n * w <= q * w
      BY <1>1, <2>2, <3>1, Multiples
    <3> DEFINE z == n * w
    <3>3. y \in Nat /\ z \in Nat /\ z <= y /\ k - 1 = y + r /\ k \in 1 .. z
      BY <1>1, <2>2, <3>2, Multiples
    <3> HIDE DEF y, z
    <3>. QED  BY <2>2, <3>3
  <2>4. 1 + q \in 1 .. n /\ 1 + r \in 1 .. w
    BY <1>1, <2>2, <2>3
  <2>5. BitsOf(s[1 + q]) \in Seq(Bit) /\ Len(BitsOf(s[1 + q])) = w
    BY <1>2, <2>4, BitsOfAre DEF w
  <2>6. BitsOf(s[1 + q])[1 + r] \in Bit
    BY <2>4, <2>5
  <2>. QED  BY <2>6 DEF q, r
<1> HIDE DEF F
<1>6. AsBits(s) \in Seq(Bit) /\ Len(AsBits(s)) = BitsIn(n) /\ \A k \in 1 .. BitsIn(n) : AsBits(s)[k] = F(k)
  BY <1>1, <1>3, <1>5
<1>7. ASSUME NEW i \in 1 .. n, NEW j \in 1 .. w
      PROVE  AsBits(s)[BitsIn(i - 1) + j] = BitsOf(s[i])[j]
  BY <1>4, <1>6
<1>. QED  BY <1>6, <1>7 DEF ByteAt, n, w

-----------------------------------------------------------------------------
(* What the writer does. *)

IsWriter(w) ==
  /\ w = [bits |-> w.bits, cap |-> w.cap, rc |-> w.rc]
  /\ w.bits \in Seq(Bit) /\ w.cap \in Nat /\ Len(w.bits) <= BitsIn(w.cap)

\* x has what w has, and what came to it.
Extends(x, w) ==
  /\ IsWriter(x) /\ x.cap = w.cap
  /\ Len(w.bits) <= Len(x.bits) /\ \A i \in 1 .. Len(w.bits) : x.bits[i] = w.bits[i]

LEMMA ExtendsBy ==
  ASSUME NEW w, IsWriter(w), NEW y \in Seq(Bit), NEW c, Len(w.bits) + Len(y) <= BitsIn(w.cap),
         NEW x, x = [bits |-> w.bits \o y, cap |-> w.cap, rc |-> c]
  PROVE  Extends(x, w) /\ x.rc = c /\ x.bits = w.bits \o y
<1> DEFINE b == w.bits
<1>1. b \in Seq(Bit) /\ w.cap \in Nat
  BY DEF IsWriter
<1>2. x.bits = b \o y /\ x.cap = w.cap /\ x.rc = c
  OBVIOUS
<1> HIDE DEF b
<1>3. b \o y \in Seq(Bit) /\ Len(b \o y) = Len(b) + Len(y) /\ \A i \in 1 .. Len(b) : (b \o y)[i] = b[i]
  BY <1>1
<1>4. Len(b) <= Len(b) + Len(y) /\ Len(b) + Len(y) <= BitsIn(w.cap)
  <2>1. Len(b) \in Nat /\ Len(y) \in Nat
    BY <1>1
  <2>. QED  BY <2>1 DEF b
<1>5. x = [bits |-> x.bits, cap |-> x.cap, rc |-> x.rc]
  BY <1>2 DEF b
<1>6. IsWriter(x)
  BY <1>1, <1>2, <1>3, <1>4, <1>5 DEF IsWriter
<1>. QED  BY <1>2, <1>3, <1>4, <1>6 DEF Extends, b

LEMMA WriterGrows ==
  ASSUME NEW w, IsWriter(w), NEW y, NEW c
  PROVE  [w EXCEPT !.bits = @ \o y, !.rc = c] = [bits |-> w.bits \o y, cap |-> w.cap, rc |-> c]
<1> DEFINE b == w.bits
           p == w.cap
           r == w.rc
           z == b \o y
           g == [bits |-> b, cap |-> p, rc |-> r]
           h == [bits |-> z, cap |-> p, rc |-> r]
<1>1. w = g
  BY DEF IsWriter
<1> HIDE DEF b, p, r, z
<1>2. [g EXCEPT !.bits = z, !.rc = c] = [[g EXCEPT !.bits = z] EXCEPT !.rc = c]
  OBVIOUS
<1>3. [g EXCEPT !.bits = z] = h
  OBVIOUS
<1>4. [h EXCEPT !.rc = c] = [bits |-> z, cap |-> p, rc |-> c]
  OBVIOUS
<1>5. g.bits \o y = z
  BY DEF z
<1>6. [g EXCEPT !.bits = @ \o y, !.rc = c] = [g EXCEPT !.bits = z, !.rc = c]
  BY <1>5
<1> HIDE DEF g, h
<1>7. [w EXCEPT !.bits = @ \o y, !.rc = c] = [bits |-> z, cap |-> p, rc |-> c]
  BY <1>1, <1>2, <1>3, <1>4, <1>6, Zenon
<1>. QED  BY <1>7 DEF b, p, z

LEMMA ExtendsItself ==
  ASSUME NEW w, IsWriter(w), NEW c, NEW x, x = [w EXCEPT !.rc = c]
  PROVE  Extends(x, w) /\ x.rc = c
<1>1. x = [bits |-> w.bits, cap |-> w.cap, rc |-> c]
  <2>1. w = [bits |-> w.bits, cap |-> w.cap, rc |-> w.rc]
    BY DEF IsWriter
  <2>. QED  BY <2>1
<1>. QED  BY <1>1 DEF Extends, IsWriter

LEMMA WritesBits ==
  ASSUME NEW w, IsWriter(w), NEW v \in Nat, NEW n \in Nat
  PROVE  Extends(WriteBits(w, v, n), w)
<1>1. CASE n = 0 \/ n > WordBits
  <2>1. WriteBits(w, v, n) = [w EXCEPT !.rc = "INVALID"]
    BY <1>1 DEF WriteBits
  <2>. QED  BY <2>1, ExtendsItself
<1>2. CASE ~ (n = 0 \/ n > WordBits) /\ Len(w.bits) + n > BitsIn(w.cap)
  <2>1. WriteBits(w, v, n) = [w EXCEPT !.rc = "OVERFLOW"]
    BY <1>2 DEF WriteBits
  <2>. QED  BY <2>1, ExtendsItself
<1>3. CASE ~ (n = 0 \/ n > WordBits) /\ ~ (Len(w.bits) + n > BitsIn(w.cap))
  <2> DEFINE y == Slices(v, n, 1)
  <2>1. y \in Seq(Bit) /\ Len(y) = n
    <3>1. Two[1] = 2
      <4>1. 0 + 1 = 1 /\ Two[0 + 1] = 2 * Two[0] /\ Two[0] = 1
        BY TwoIs
      <4>. QED  BY <4>1
    <3>2. 0 .. Two[1] - 1 = Bit
      BY <3>1 DEF Bit
    <3>. QED  BY <3>2, SlicesAre
  <2>2. WriteBits(w, v, n) = [w EXCEPT !.bits = @ \o y, !.rc = "OK"]
    BY <1>3 DEF WriteBits
  <2> HIDE DEF y
  <2>4. [w EXCEPT !.bits = @ \o y, !.rc = "OK"] = [bits |-> w.bits \o y, cap |-> w.cap, rc |-> "OK"]
    BY WriterGrows
  <2>5. Len(w.bits) + Len(y) <= BitsIn(w.cap)
    <3>1. Len(w.bits) \in Nat /\ BitsIn(w.cap) \in Nat
      BY BitsInAre DEF IsWriter
    <3>. QED  BY <1>3, <2>1, <3>1
  <2>. QED  BY <2>1, <2>2, <2>4, <2>5, ExtendsBy
<1>. QED  BY <1>1, <1>2, <1>3

LEMMA WritesBytes ==
  ASSUME NEW w, IsWriter(w), NEW s \in Seq(Octets)
  PROVE  /\ Extends(WriteBytes(w, s), w)
         /\ WriteBytes(w, s).rc = "OK" => BytesAt(WriteBytes(w, s).bits, Len(w.bits), s)
<1> DEFINE room == BitsIn(w.cap) - Len(w.bits)
           n == Fit(Len(s), room)
           t == SubSeq(s, 1, n)
           y == AsBits(t)
           c == IF n = Len(s) THEN "OK" ELSE "OVERFLOW"
           x == WriteBytes(w, s)
<1>1. w.bits \in Seq(Bit) /\ w.cap \in Nat /\ Len(w.bits) <= BitsIn(w.cap)
  BY DEF IsWriter
<1>11. Len(w.bits) \in Nat /\ BitsIn(w.cap) \in Nat /\ Len(s) \in Nat
  <2>1. Len(w.bits) \in Nat /\ Len(s) \in Nat
    BY <1>1
  <2>. QED  BY <1>1, <2>1, BitsInNat
<1>2. room \in Nat /\ Len(w.bits) + room = BitsIn(w.cap)
  BY <1>1, <1>11
<1> HIDE DEF room
<1>3. n \in 0 .. Len(s) /\ BitsIn(n) <= room
  BY <1>2, <1>11, FitIs
<1>4. x = [w EXCEPT !.bits = @ \o y, !.rc = c]
  BY Zenon DEF WriteBytes, room
<1> HIDE DEF n
<1>5. t \in Seq(Octets) /\ Len(t) = n /\ (n = Len(s) => t = s)
  BY <1>3
<1> HIDE DEF t
<1>6. y \in Seq(Bit) /\ Len(y) = BitsIn(n) /\ \A i \in 1 .. n : ByteAt(y, BitsIn(i - 1), t[i])
  BY <1>5, AsBitsAre
<1> HIDE DEF x, y
<1>7. x = [bits |-> w.bits \o y, cap |-> w.cap, rc |-> c]
  <2> HIDE DEF c
  <2>1. [w EXCEPT !.bits = @ \o y, !.rc = c] = [bits |-> w.bits \o y, cap |-> w.cap, rc |-> c]
    BY WriterGrows
  <2>. QED  BY <1>4, <2>1
<1>8. Len(w.bits) + Len(y) <= BitsIn(w.cap)
  <2>1. BitsIn(n) \in Nat
    BY <1>3, <1>11, BitsInNat
  <2>. QED  BY <1>2, <1>3, <1>6, <1>11, <2>1
<1>9. Extends(x, w) /\ x.rc = c /\ x.bits = w.bits \o y
  <2> HIDE DEF c
  <2>. QED  BY <1>6, <1>7, <1>8, ExtendsBy
<1>10. ASSUME c = "OK"  PROVE BytesAt(x.bits, Len(w.bits), s)
  <2> DEFINE b == w.bits
             a == Len(b)
             D == b \o y
  <2>1. n = Len(s) /\ t = s /\ n \in Nat
    BY <1>3, <1>5, <1>10
  <2>2. a \in Nat /\ Len(D) = a + BitsIn(n) /\ \A k \in 1 .. BitsIn(n) : D[a + k] = y[k]
    <3>1. b \in Seq(Bit) /\ BitsIn(n) \in Nat
      BY <1>1, <2>1, BitsInAre
    <3> HIDE DEF b
    <3>. QED  BY <1>6, <3>1
  <2> HIDE DEF D, a
  <2>3. ASSUME NEW i \in 1 .. n, NEW j \in 1 .. ByteWidth  PROVE D[(a + BitsIn(i - 1)) + j] = BitsOf(s[i])[j]
    <3>1. y[BitsIn(i - 1) + j] = BitsOf(s[i])[j]
      BY <1>6, <2>1 DEF ByteAt
    <3>2. BitsIn(i - 1) \in Nat /\ BitsIn(i - 1) + j \in 1 .. BitsIn(n)
      <4>1. i - 1 \in Nat /\ 1 \in Nat /\ (i - 1) + 1 = i /\ i \in Nat /\ i <= n
        BY <2>1
      <4>2. BitsIn((i - 1) + 1) = BitsIn(i - 1) + BitsIn(1) /\ BitsIn(1) = ByteWidth /\ BitsIn(i - 1) \in Nat
        BY <4>1, BitsInAre
      <4>3. BitsIn(i) <= BitsIn(n) /\ BitsIn(n) \in Nat
        BY <2>1, <4>1, BitsInAre
      <4>4. BitsIn(i) = BitsIn(i - 1) + ByteWidth
        BY <4>1, <4>2
      <4>. QED  BY <4>2, <4>3, <4>4, Wide
    <3>3. (a + BitsIn(i - 1)) + j = a + (BitsIn(i - 1) + j)
      BY <2>2, <3>2
    <3>. QED  BY <2>2, <3>1, <3>2, <3>3
  <2>4. a + BitsIn(Len(s)) <= Len(D)
    <3>1. BitsIn(n) \in Nat
      BY <2>1, BitsInAre
    <3>. QED  BY <2>1, <2>2, <3>1
  <2>5. BytesAt(D, a, s)
    BY <2>1, <2>3, <2>4 DEF BytesAt, ByteAt
  <2>. QED  BY <1>9, <2>5 DEF D, a
<1>. QED  BY <1>9, <1>10 DEF x

\* What was written stays.
LEMMA BytesStay ==
  ASSUME NEW w, NEW x, IsWriter(w), Extends(x, w), NEW a \in Nat, NEW s \in Seq(Octets), BytesAt(w.bits, a, s)
  PROVE  BytesAt(x.bits, a, s)
<1>1. Len(w.bits) \in Nat /\ Len(x.bits) \in Nat /\ Len(w.bits) <= Len(x.bits)
  BY DEF IsWriter, Extends
<1>2. \A i \in 1 .. Len(w.bits) : x.bits[i] = w.bits[i]
  BY DEF Extends
<1>3. Len(s) \in Nat /\ BitsIn(Len(s)) \in Nat /\ a + BitsIn(Len(s)) <= Len(w.bits)
  BY BitsInAre DEF BytesAt
<1>4. ASSUME NEW i \in 1 .. Len(s)  PROVE ByteAt(x.bits, a + BitsIn(i - 1), s[i])
  <2>1. ByteAt(w.bits, a + BitsIn(i - 1), s[i])
    BY DEF BytesAt
  <2>2. i - 1 \in Nat /\ 1 \in Nat /\ (i - 1) + 1 = i /\ i \in Nat /\ i <= Len(s)
    BY <1>3
  <2>3. BitsIn((i - 1) + 1) = BitsIn(i - 1) + BitsIn(1) /\ BitsIn(1) = ByteWidth /\ BitsIn(i - 1) \in Nat
    BY <2>2, BitsInAre
  <2>4. BitsIn(i) <= BitsIn(Len(s))
    BY <1>3, <2>2, BitsInAre
  <2>5. BitsIn(i) = BitsIn(i - 1) + ByteWidth
    BY <2>2, <2>3
  <2>6. ASSUME NEW j \in 1 .. ByteWidth  PROVE (a + BitsIn(i - 1)) + j \in 1 .. Len(w.bits)
    BY <1>1, <1>3, <2>3, <2>4, <2>5, Wide
  <2>. QED  BY <1>2, <2>1, <2>6 DEF ByteAt
<1>. QED  BY <1>1, <1>3, <1>4 DEF BytesAt

\* Two runs of bytes, one after the other.
LEMMA BytesSplit ==
  ASSUME NEW D \in Seq(Bit), NEW a \in Nat, NEW s \in Seq(Octets), NEW t \in Seq(Octets), BytesAt(D, a, s \o t)
  PROVE  BytesAt(D, a, s) /\ BytesAt(D, a + BitsIn(Len(s)), t)
<1> DEFINE m == Len(s)
           n == Len(t)
           u == s \o t
<1>1. m \in Nat /\ n \in Nat /\ Len(u) = m + n
      /\ (\A i \in 1 .. m : u[i] = s[i]) /\ \A i \in 1 .. n : u[m + i] = t[i]
  OBVIOUS
<1>2. a + BitsIn(Len(u)) <= Len(D) /\ \A i \in 1 .. Len(u) : ByteAt(D, a + BitsIn(i - 1), u[i])
  BY DEF BytesAt
<1> HIDE DEF m, n, u
<1>3. BitsIn(m + n) = BitsIn(m) + BitsIn(n) /\ BitsIn(m) \in Nat /\ BitsIn(n) \in Nat /\ Len(D) \in Nat
  <2>1. m \in Nat /\ n \in Nat /\ Len(D) \in Nat
    BY <1>1
  <2>. QED  BY <2>1, BitsInAre, BitsInNat
<1>4. a + BitsIn(m) <= Len(D) /\ (a + BitsIn(m)) + BitsIn(n) <= Len(D)
  BY <1>1, <1>2, <1>3
<1>5. ASSUME NEW i \in 1 .. m  PROVE ByteAt(D, a + BitsIn(i - 1), s[i])
  <2>1. i \in 1 .. Len(u) /\ u[i] = s[i]
    BY <1>1
  <2>. QED  BY <1>2, <2>1
<1>6. ASSUME NEW i \in 1 .. n  PROVE ByteAt(D, (a + BitsIn(m)) + BitsIn(i - 1), t[i])
  <2>1. m + i \in 1 .. Len(u) /\ u[m + i] = t[i] /\ i - 1 \in Nat /\ (m + i) - 1 = m + (i - 1)
    BY <1>1
  <2>2. BitsIn(m + (i - 1)) = BitsIn(m) + BitsIn(i - 1) /\ BitsIn(i - 1) \in Nat
    BY <1>1, <2>1, BitsInAre
  <2>3. a + BitsIn((m + i) - 1) = (a + BitsIn(m)) + BitsIn(i - 1)
    BY <1>3, <2>1, <2>2
  <2>4. ByteAt(D, a + BitsIn((m + i) - 1), u[m + i])
    BY <1>2, <2>1
  <2>. QED  BY <2>1, <2>3, <2>4
<1>. QED  BY <1>4, <1>5, <1>6 DEF BytesAt, m, n

-----------------------------------------------------------------------------
(* What the reader does. *)

IsReader(r) ==
  /\ r = [len |-> r.len, pos |-> r.pos, data |-> r.data, rc |-> r.rc, out |-> r.out]
  /\ r.len \in Nat /\ r.pos \in Nat /\ r.pos <= BitsIn(r.len)
  /\ r.data \in Seq(Bit) /\ BitsIn(r.len) <= Len(r.data) /\ r.out \in Seq(Nat)

\* x is r after a call.
Follows(x, r) == IsReader(x) /\ x.len = r.len /\ x.data = r.data

LEMMA PassesTo ==
  ASSUME NEW r, IsReader(r), NEW a \in Nat, a <= BitsIn(r.len), NEW o \in Seq(Nat)
  PROVE  /\ Follows(Passes(r, a, o), r) /\ Passes(r, a, o).rc = "OK" /\ Passes(r, a, o).pos = a
         /\ Passes(r, a, o).out = o
<1> DEFINE l == r.len
           p == r.pos
           d == r.data
           e == r.rc
           u == r.out
           g == [len |-> l, pos |-> p, data |-> d, rc |-> e, out |-> u]
           h == [len |-> l, pos |-> a, data |-> d, rc |-> e, out |-> u]
           k == [len |-> l, pos |-> a, data |-> d, rc |-> "OK", out |-> u]
           x == [len |-> l, pos |-> a, data |-> d, rc |-> "OK", out |-> o]
<1>1. r = g
  BY DEF IsReader
<1>2. l \in Nat /\ d \in Seq(Bit) /\ BitsIn(l) <= Len(d) /\ a <= BitsIn(l)
  BY DEF IsReader
<1> HIDE DEF l, p, d, e, u
<1>3. [g EXCEPT !.pos = a, !.rc = "OK", !.out = o] = [[[g EXCEPT !.pos = a] EXCEPT !.rc = "OK"] EXCEPT !.out = o]
  OBVIOUS
<1>4. [g EXCEPT !.pos = a] = h /\ [h EXCEPT !.rc = "OK"] = k /\ [k EXCEPT !.out = o] = x
  OBVIOUS
<1> HIDE DEF g, h, k
<1>5. Passes(r, a, o) = x
  BY <1>1, <1>3, <1>4, Zenon DEF Passes
<1>6. x.len = l /\ x.pos = a /\ x.data = d /\ x.rc = "OK" /\ x.out = o
  OBVIOUS
<1>7. x = [len |-> x.len, pos |-> x.pos, data |-> x.data, rc |-> x.rc, out |-> x.out]
  OBVIOUS
<1> HIDE DEF x
<1>8. IsReader(x)
  BY <1>2, <1>6, <1>7, Zenon DEF IsReader
<1>. QED  BY <1>5, <1>6, <1>8 DEF Follows, l, d

LEMMA FailsTo ==
  ASSUME NEW r, IsReader(r), NEW c
  PROVE  Follows(Fails(r, c), r) /\ Fails(r, c).rc = c /\ Fails(r, c).out = r.out /\ Fails(r, c).pos = r.pos
<1> DEFINE l == r.len
           p == r.pos
           d == r.data
           e == r.rc
           u == r.out
           g == [len |-> l, pos |-> p, data |-> d, rc |-> e, out |-> u]
           x == [len |-> l, pos |-> p, data |-> d, rc |-> c, out |-> u]
<1>1. r = g
  BY DEF IsReader
<1>2. /\ l \in Nat /\ d \in Seq(Bit) /\ BitsIn(l) <= Len(d) /\ p \in Nat /\ p <= BitsIn(l) /\ u \in Seq(Nat)
  BY DEF IsReader
<1> HIDE DEF l, p, d, e, u
<1>3. [g EXCEPT !.rc = c] = x
  OBVIOUS
<1> HIDE DEF g
<1>5. Fails(r, c) = x
  BY <1>1, <1>3, Zenon DEF Fails
<1>6. x.len = l /\ x.pos = p /\ x.data = d /\ x.rc = c /\ x.out = u
  OBVIOUS
<1>7. x = [len |-> x.len, pos |-> x.pos, data |-> x.data, rc |-> x.rc, out |-> x.out]
  OBVIOUS
<1> HIDE DEF x
<1>8. IsReader(x)
  BY <1>2, <1>6, <1>7, Zenon DEF IsReader
<1>. QED  BY <1>5, <1>6, <1>8 DEF Follows, l, d, p, u

LEMMA Puts ==
  ASSUME NEW r, IsReader(r), NEW o \in Seq(Nat)
  PROVE  /\ Follows([r EXCEPT !.out = o], r) /\ [r EXCEPT !.out = o].out = o
         /\ [r EXCEPT !.out = o].rc = r.rc /\ [r EXCEPT !.out = o].pos = r.pos
<1> DEFINE l == r.len
           p == r.pos
           d == r.data
           e == r.rc
           u == r.out
           g == [len |-> l, pos |-> p, data |-> d, rc |-> e, out |-> u]
           x == [len |-> l, pos |-> p, data |-> d, rc |-> e, out |-> o]
<1>1. r = g
  BY DEF IsReader
<1>2. /\ l \in Nat /\ d \in Seq(Bit) /\ BitsIn(l) <= Len(d) /\ p \in Nat /\ p <= BitsIn(l)
  BY DEF IsReader
<1> HIDE DEF l, p, d, e, u
<1>3. [g EXCEPT !.out = o] = x
  OBVIOUS
<1> HIDE DEF g
<1>5. [r EXCEPT !.out = o] = x
  BY <1>1, <1>3, Zenon
<1>6. x.len = l /\ x.pos = p /\ x.data = d /\ x.rc = e /\ x.out = o
  OBVIOUS
<1>7. x = [len |-> x.len, pos |-> x.pos, data |-> x.data, rc |-> x.rc, out |-> x.out]
  OBVIOUS
<1> HIDE DEF x
<1>8. IsReader(x)
  BY <1>2, <1>6, <1>7, Zenon DEF IsReader
<1>. QED  BY <1>5, <1>6, <1>8 DEF Follows, l, d, p, e

LEMMA FollowsOn ==
  ASSUME NEW x, NEW y, NEW z, Follows(x, y), Follows(y, z)
  PROVE  Follows(x, z)
BY DEF Follows

LEMMA Runs ==
  ASSUME NEW d \in Seq(Bit), NEW a \in Nat, NEW n \in Nat, a + n <= Len(d)
  PROVE  /\ SubSeq(d, a + 1, a + n) \in Seq(Bit) /\ Len(SubSeq(d, a + 1, a + n)) = n
         /\ \A j \in 1 .. n : SubSeq(d, a + 1, a + n)[j] = d[a + j]
OBVIOUS

LEMMA BitsAreNat == ASSUME NEW s \in Seq(Bit) PROVE s \in Seq(Nat)
BY DEF Bit

LEMMA ReadsBits ==
  ASSUME NEW r, IsReader(r), NEW n \in Nat
  PROVE  Follows(ReadBits(r, n), r)
<1>1. CASE n = 0 \/ n > WordBits
  <2>1. ReadBits(r, n) = Fails(r, "INVALID")
    BY <1>1 DEF ReadBits
  <2>. QED  BY <2>1, FailsTo
<1>2. CASE ~ (n = 0 \/ n > WordBits) /\ r.pos + n > BitsIn(r.len)
  <2>1. ReadBits(r, n) = Fails(r, "OVERFLOW")
    BY <1>2 DEF ReadBits
  <2>. QED  BY <2>1, FailsTo
<1>3. CASE ~ (n = 0 \/ n > WordBits) /\ ~ (r.pos + n > BitsIn(r.len))
  <2> DEFINE v == Number(0, SubSeq(r.data, r.pos + 1, r.pos + n), 1)
             o == Append(r.out, v)
             a == r.pos + n
  <2>1. ReadBits(r, n) = Passes(r, a, o)
    BY <1>3 DEF ReadBits
  <2>2. r.pos \in Nat /\ r.len \in Nat /\ r.data \in Seq(Bit) /\ BitsIn(r.len) <= Len(r.data) /\ r.out \in Seq(Nat)
    BY DEF IsReader
  <2>3. BitsIn(r.len) \in Nat /\ Len(r.data) \in Nat
    <3>1. BitsIn(r.len) \in Nat
      BY <2>2, BitsInNat, Zenon
    <3>2. Len(r.data) \in Nat
      BY <2>2, LenProperties
    <3>. QED  BY <3>1, <3>2
  <2>4. a \in Nat /\ a <= BitsIn(r.len) /\ a <= Len(r.data)
    BY <1>3, <2>2, <2>3
  <2>5. v \in Nat
    <3>1. SubSeq(r.data, r.pos + 1, r.pos + n) \in Seq(Bit)
      BY <2>2, <2>4, Runs
    <3>2. 0 \in Nat /\ 1 \in Nat
      OBVIOUS
    <3>. QED  BY <3>1, <3>2, BitsAreNat, NumberNat
  <2> HIDE DEF v
  <2>6. o \in Seq(Nat)
    BY <2>2, <2>5
  <2> HIDE DEF a, o
  <2>. QED  BY <2>1, <2>4, <2>6, PassesTo
<1>. QED  BY <1>1, <1>2, <1>3

LEMMA LastIs ==
  ASSUME NEW S, NEW s \in Seq(S), NEW e \in S
  PROVE  /\ Append(s, e) \in Seq(S) /\ Len(Append(s, e)) = Len(s) + 1 /\ Last(Append(s, e)) = e
         /\ s \o <<e>> = Append(s, e) /\ <<e>> \in Seq(S) /\ <<>> \o <<e>> = <<e>> /\ Last(<<e>>) = e
BY DEF Last

\* A byte that is read is the byte that was written.
LEMMA ReadsByte ==
  ASSUME NEW d \in Seq(Bit), NEW a \in Nat, a + ByteWidth <= Len(d), NEW b \in Octets, ByteAt(d, a, b)
  PROVE  Number(0, SubSeq(d, a + 1, a + ByteWidth), 1) = b
<1> DEFINE s == SubSeq(d, a + 1, a + ByteWidth)
<1>1. s \in Seq(Bit) /\ Len(s) = ByteWidth /\ \A j \in 1 .. ByteWidth : s[j] = d[a + j]
  BY Wide, Runs
<1>2. b \in Nat
  BY DEF Octets
<1>3. BitsOf(b) \in Seq(Bit) /\ Len(BitsOf(b)) = ByteWidth /\ Number(0, BitsOf(b), 1) = b
  BY <1>2, BitsOfAre
<1> HIDE DEF s
<1>4. s = BitsOf(b)
  <2> DEFINE t == BitsOf(b)
  <2>1. \A j \in 1 .. ByteWidth : s[j] = t[j]
    BY <1>1 DEF ByteAt
  <2>2. t \in Seq(Bit) /\ Len(t) = ByteWidth
    BY <1>3
  <2> HIDE DEF t
  <2>3. s = t
    BY <1>1, <2>1, <2>2
  <2>. QED  BY <2>3 DEF t
<1>. QED  BY <1>3, <1>4 DEF s

Heard(r, m) ==
  [i \in 1 .. m |-> Number(0, SubSeq(r.data, r.pos + BitsIn(i - 1) + 1, r.pos + BitsIn(i)), 1)]

LEMMA HeardIs ==
  ASSUME NEW r, IsReader(r), NEW m \in Nat, r.pos + BitsIn(m) <= BitsIn(r.len)
  PROVE  /\ Heard(r, m) \in Seq(Nat) /\ Len(Heard(r, m)) = m
         /\ \A s \in Seq(Octets) : Len(s) = m /\ BytesAt(r.data, r.pos, s) => Heard(r, m) = s
<1> DEFINE d == r.data
           p == r.pos
           F(i) == Number(0, SubSeq(d, p + BitsIn(i - 1) + 1, p + BitsIn(i)), 1)
<1>1. p \in Nat /\ d \in Seq(Bit) /\ r.len \in Nat /\ BitsIn(r.len) <= Len(d)
  BY DEF IsReader
<1>2. BitsIn(r.len) \in Nat /\ BitsIn(m) \in Nat /\ Len(d) \in Nat
  <2>1. Len(d) \in Nat
    BY <1>1
  <2>. QED  BY <1>1, <2>1, BitsInNat
<1>3. p + BitsIn(m) <= Len(d)
  BY <1>1, <1>2
<1>4. Heard(r, m) = [i \in 1 .. m |-> F(i)]
  BY Zenon DEF Heard
<1> HIDE DEF d, p
<1>5. ASSUME NEW i \in 1 .. m
      PROVE  /\ p + BitsIn(i - 1) \in Nat /\ p + BitsIn(i) = (p + BitsIn(i - 1)) + ByteWidth
             /\ (p + BitsIn(i - 1)) + ByteWidth <= Len(d)
  <2>1. i - 1 \in Nat /\ 1 \in Nat /\ (i - 1) + 1 = i /\ i \in Nat /\ i <= m
    OBVIOUS
  <2>2. BitsIn((i - 1) + 1) = BitsIn(i - 1) + BitsIn(1) /\ BitsIn(1) = ByteWidth /\ BitsIn(i - 1) \in Nat
    BY <2>1, BitsInAre
  <2>3. BitsIn(i) <= BitsIn(m)
    BY <2>1, BitsInAre
  <2>4. BitsIn(i) = BitsIn(i - 1) + ByteWidth
    BY <2>1, <2>2
  <2>. QED  BY <1>1, <1>2, <1>3, <2>2, <2>3, <2>4, Wide
<1>6. ASSUME NEW i \in 1 .. m
      PROVE  F(i) \in Nat /\ \A b \in Octets : ByteAt(d, p + BitsIn(i - 1), b) => F(i) = b
  <2> DEFINE a == p + BitsIn(i - 1)
             s == SubSeq(d, a + 1, a + ByteWidth)
  <2>1. a \in Nat /\ p + BitsIn(i) = a + ByteWidth /\ a + ByteWidth <= Len(d)
    BY <1>5
  <2>2. F(i) = Number(0, s, 1)
    BY <2>1
  <2> HIDE DEF a, F
  <2>3. s \in Seq(Nat)
    <3>1. s \in Seq(Bit)
      BY <1>1, <2>1, Wide, Runs
    <3>. QED  BY <3>1, BitsAreNat
  <2>4. Number(0, s, 1) \in Nat
    <3>1. 0 \in Nat /\ 1 \in Nat
      OBVIOUS
    <3>. QED  BY <2>3, <3>1, NumberNat
  <2>5. \A b \in Octets : ByteAt(d, a, b) => Number(0, s, 1) = b
    BY <1>1, <2>1, ReadsByte
  <2>. QED  BY <2>2, <2>4, <2>5 DEF a
<1> HIDE DEF F
<1>7. Heard(r, m) \in Seq(Nat) /\ Len(Heard(r, m)) = m
  BY <1>4, <1>6
<1>8. ASSUME NEW s \in Seq(Octets), Len(s) = m, BytesAt(d, p, s)  PROVE Heard(r, m) = s
  <2>1. ASSUME NEW i \in 1 .. m  PROVE F(i) = s[i]
    <3>1. ByteAt(d, p + BitsIn(i - 1), s[i])
      BY <1>8 DEF BytesAt
    <3>2. s[i] \in Octets
      BY <1>8
    <3>. QED  BY <1>6, <3>1, <3>2
  <2>2. [i \in 1 .. m |-> F(i)] = [i \in 1 .. m |-> s[i]]
    BY <2>1
  <2>3. s = [i \in 1 .. m |-> s[i]]
    BY <1>8
  <2>. QED  BY <1>4, <2>2, <2>3
<1>. QED  BY <1>7, <1>8 DEF d, p

LEMMA ReadsBytes ==
  ASSUME NEW r, IsReader(r), NEW n \in Nat, NEW x, x = ReadBytes(r, n)
  PROVE  /\ Follows(x, r) /\ x.rc \in {"OK", "OVERFLOW"}
         /\ x.rc = "OK" <=> r.pos + BitsIn(n) <= BitsIn(r.len)
         /\ x.rc = "OK" => x.pos = r.pos + BitsIn(n) /\ x.out = r.out \o Heard(r, n)
<1> DEFINE room == BitsIn(r.len) - r.pos
           m == Fit(n, room)
           y == Heard(r, m)
           o == r.out \o y
           to == r.pos + BitsIn(m)
           a == Passes(r, to, o)
<1>1. r.pos \in Nat /\ r.len \in Nat /\ r.pos <= BitsIn(r.len) /\ r.out \in Seq(Nat) /\ BitsIn(r.len) \in Nat
  BY BitsInNat DEF IsReader
<1>2. room \in Nat /\ r.pos + room = BitsIn(r.len)
  BY <1>1
<1>3. x = IF m = n THEN a ELSE Fails(a, "OVERFLOW")
  BY Zenon DEF ReadBytes, Heard
<1> HIDE DEF room
<1>4. m \in 0 .. n /\ BitsIn(m) <= room /\ (m = n <=> BitsIn(n) <= room)
  BY <1>2, FitIs
<1> HIDE DEF m
<1>5. m \in Nat /\ BitsIn(m) \in Nat /\ BitsIn(n) \in Nat
  BY <1>4, BitsInNat
<1>6. to \in Nat /\ to <= BitsIn(r.len) /\ (m = n <=> r.pos + BitsIn(n) <= BitsIn(r.len))
  BY <1>1, <1>2, <1>4, <1>5
<1>7. y \in Seq(Nat)
  BY <1>5, <1>6, HeardIs
<1> HIDE DEF y
<1>8. o \in Seq(Nat)
  BY <1>1, <1>7
<1> HIDE DEF o
<1> HIDE DEF to
<1>9. Follows(a, r) /\ a.rc = "OK" /\ a.pos = to /\ a.out = o
  BY <1>6, <1>8, PassesTo
<1> HIDE DEF a
<1>10. CASE m = n
  BY <1>3, <1>6, <1>9, <1>10 DEF to, o, y
<1>11. CASE m # n
  <2> DEFINE f == Fails(a, "OVERFLOW")
  <2>1. x = f
    BY <1>3, <1>11
  <2>2. IsReader(a)
    BY <1>9 DEF Follows
  <2>3. Follows(f, a) /\ f.rc = "OVERFLOW"
    BY <2>2, FailsTo
  <2> HIDE DEF f
  <2>4. Follows(f, r)
    BY <1>9, <2>3, FollowsOn
  <2>. QED  BY <1>6, <1>11, <2>1, <2>3, <2>4
<1>. QED  BY <1>10, <1>11

-----------------------------------------------------------------------------
(* Lengths: the first byte tells how many follow, and has the highest bits. *)

LEMMA TwosAre ==
  /\ Two[0] = 1 /\ Two[1] = 2 /\ Two[2] = 4 /\ Two[3] = 8
  /\ Two[ByteWidth] = 4 * Two[ByteWidth - 2] /\ Two[ByteWidth - 2] \in Nat \ {0}
<1>1. Two[0 + 1] = 2 * Two[0] /\ Two[1 + 1] = 2 * Two[1] /\ Two[2 + 1] = 2 * Two[2] /\ Two[0] = 1
  BY TwoIs
<1>2. 0 + 1 = 1 /\ 1 + 1 = 2 /\ 2 + 1 = 3
  OBVIOUS
<1>3. Two[1] = 2 /\ Two[2] = 4 /\ Two[3] = 8
  BY <1>1, <1>2
<1>4. 2 + (ByteWidth - 2) = ByteWidth /\ 2 \in Nat /\ ByteWidth - 2 \in Nat
  BY Wide
<1>5. Two[2 + (ByteWidth - 2)] = Two[2] * Two[ByteWidth - 2] /\ Two[ByteWidth - 2] \in Nat \ {0}
  BY <1>4, TwoSum, TwoIs
<1>. QED  BY <1>1, <1>3, <1>4, <1>5

\* The lengths that a prefix has room for.
LEMMA RoomIs ==
  ASSUME NEW m \in Nat \ {0}
  PROVE  /\ BitsIn(m) - 2 \in Nat
         /\ Two[BitsIn(m) - 2] = Two[ByteWidth - 2] * Two[ByteWidth * (m - 1)]
         /\ Two[ByteWidth * (m - 1)] \in Nat \ {0} /\ m - 1 \in Nat
<1> DEFINE k == m - 1
           a == ByteWidth * k
<1>1. k \in Nat /\ m = k + 1
  OBVIOUS
<1>2. a \in Nat /\ BitsIn(m) = a + ByteWidth
  <2>1. (k + 1) * ByteWidth = k * ByteWidth + 1 * ByteWidth /\ 1 * ByteWidth = ByteWidth
        /\ k * ByteWidth \in Nat
    BY <1>1, Wide, Multiples
  <2>2. k * ByteWidth = a
    BY <1>1, Wide
  <2>. QED  BY <1>1, <2>1, <2>2 DEF BitsIn
<1> HIDE DEF a, k
<1>3. BitsIn(m) - 2 = (ByteWidth - 2) + a
  BY <1>2, Wide
<1>4. Two[(ByteWidth - 2) + a] = Two[ByteWidth - 2] * Two[a] /\ Two[a] \in Nat \ {0}
  BY <1>2, Wide, TwoSum, TwoIs
<1>. QED  BY <1>1, <1>2, <1>3, <1>4, Wide DEF a, k

LEMMA PrefixIs ==
  ASSUME NEW length \in Nat
  PROVE  /\ PrefixOf(length) \in 0 .. 3
         /\ PrefixOf(length) = 3 \/ length < Two[BitsIn(Two[PrefixOf(length)]) - 2]
<1> DEFINE R(p) == Two[BitsIn(Two[p]) - 2]
           A(p) == (p = 3 \/ length < R(p)) /\ (p = 0 \/ length >= R(p - 1))
<1>1. \A p \in 0 .. 3 : R(p) \in Nat
  <2>1. \A p \in 0 .. 3 : Two[p] \in Nat \ {0}
    BY TwoIs
  <2>2. \A p \in 0 .. 3 : BitsIn(Two[p]) - 2 \in Nat
    BY <2>1, RoomIs
  <2>. QED  BY <2>2, TwoIs
<1>2. 0 + 1 = 1 /\ 1 - 1 = 0 /\ 2 - 1 = 1 /\ 3 - 1 = 2
  OBVIOUS
<1>3. PrefixOf(length) = CHOOSE p \in 0 .. 3 : A(p)
  BY Zenon DEF PrefixOf
<1> HIDE DEF R
<1>4. \E p \in 0 .. 3 : A(p)
  <2>1. R(0) \in Nat /\ R(1) \in Nat /\ R(2) \in Nat
    BY <1>1
  <2>2. CASE length < R(0)
    BY <2>2
  <2>3. CASE ~ (length < R(0)) /\ length < R(1)
    <3>1. A(1)
      BY <1>2, <2>1, <2>3
    <3>. QED  BY <3>1
  <2>4. CASE ~ (length < R(1)) /\ length < R(2)
    <3>1. A(2)
      BY <1>2, <2>1, <2>4
    <3>. QED  BY <3>1
  <2>5. CASE ~ (length < R(2))
    <3>1. A(3)
      BY <1>2, <2>1, <2>5
    <3>. QED  BY <3>1
  <2>. QED  BY <2>2, <2>3, <2>4, <2>5
<1>5. PrefixOf(length) \in 0 .. 3 /\ A(PrefixOf(length))
  BY <1>3, <1>4
<1>. QED  BY <1>5 DEF R

\* What is left of a length when its prefix has taken the highest bits.
Shortened(length) == length % Two[SizeBits - 2]

LEMMA LengthFits ==
  ASSUME NEW length \in Nat
  PROVE  length % Two[BitsIn(Two[PrefixOf(length)]) - 2] = Shortened(length)
<1> DEFINE p == PrefixOf(length)
           low == Two[BitsIn(Two[p]) - 2]
           top == Two[SizeBits - 2]
<1>1. p \in 0 .. 3 /\ (p = 3 \/ length < low)
  BY PrefixIs
<1>2. Two[3] = 8 /\ BitsIn(8) = SizeBits /\ SizeBits - 2 \in Nat
  BY TwosAre, Wide DEF BitsIn, SizeBits
<1>3. CASE p = 3
  BY <1>2, <1>3 DEF Shortened
<1>4. CASE length < low
  <2>1. Two[p] \in Nat \ {0} /\ Two[p] <= Two[3]
    BY <1>1, TwoIs, TwoGrows
  <2> DEFINE m == Two[p]
  <2>2. m \in Nat /\ m <= 8 /\ BitsIn(m) - 2 \in Nat
    BY <1>2, <2>1, RoomIs
  <2>3. BitsIn(m) <= BitsIn(8) /\ BitsIn(m) \in Nat
    BY <2>2, BitsInAre
  <2>4. BitsIn(m) - 2 <= SizeBits - 2
    <3> DEFINE x == BitsIn(m)
               y == SizeBits
    <3>1. y = BitsIn(8) /\ y \in Nat
      BY <1>2, BitsInNat
    <3>2. x \in Nat /\ x <= y
      BY <2>3, <3>1
    <3> HIDE DEF x, y
    <3>3. x - 2 <= y - 2
      BY <3>1, <3>2
    <3>. QED  BY <3>3 DEF x, y
  <2>5. low <= top /\ low \in Nat \ {0} /\ top \in Nat \ {0}
    <3> DEFINE a == BitsIn(m) - 2
               b == SizeBits - 2
    <3>1. a \in Nat /\ b \in Nat /\ a <= b
      BY <1>2, <2>2, <2>4
    <3> HIDE DEF a, b
    <3>2. Two[a] <= Two[b] /\ Two[a] \in Nat \ {0} /\ Two[b] \in Nat \ {0}
      BY <3>1, TwoGrows, TwoIs
    <3>. QED  BY <3>2 DEF a, b
  <2> HIDE DEF low, top, p
  <2>6. length % low = length /\ length % top = length
    BY <1>4, <2>5
  <2>. QED  BY <2>6 DEF Shortened, low, top, p
<1>. QED  BY <1>1, <1>3, <1>4

LEMMA DivideSum ==
  ASSUME NEW a \in Nat, NEW u \in Nat, NEW b \in Nat \ {0}
  PROVE  (a * b + u) \div b = a + (u \div b) /\ (a * b + u) % b = u % b
<1> DEFINE z == u \div b
           r == u % b
<1>1. z \in Nat /\ r \in 0 .. b - 1 /\ u = z * b + r
  BY Quotient
<1> HIDE DEF z, r
<1>2. (a + z) * b + r = a * b + u
  <2>1. (a + z) * b = a * b + z * b
    BY <1>1, Multiples
  <2> DEFINE x == a * b
             y == z * b
             v == (a + z) * b
  <2>2. x \in Nat /\ y \in Nat /\ v = x + y /\ u = y + r
    BY <1>1, <2>1, Multiples
  <2> HIDE DEF x, y, v
  <2>3. v + r = x + u
    BY <1>1, <2>2
  <2>. QED  BY <2>3 DEF x, v
<1>3. ((a + z) * b + r) \div b = a + z /\ ((a + z) * b + r) % b = r
  <2>1. a + z \in Nat
    BY <1>1
  <2>. QED  BY <1>1, <2>1, QuotientIs
<1>. QED  BY <1>2, <1>3 DEF z, r

\* The first byte of a length, and those that follow.
FirstByte(length) == LengthBytes(length)[1]
Others(length) == SubSeq(LengthBytes(length), 2, Len(LengthBytes(length)))

LEMMA LengthBytesAre ==
  ASSUME NEW length \in Nat
  PROVE  /\ LengthBytes(length) \in Seq(Octets) /\ Len(LengthBytes(length)) = Two[PrefixOf(length)]
         /\ FirstByte(length) \in Octets /\ FirstByte(length) \in Nat
         /\ FirstByte(length) \div Two[ByteWidth - 2] = PrefixOf(length)
         /\ Others(length) \in Seq(Octets) /\ Len(Others(length)) = Two[PrefixOf(length)] - 1
         /\ Two[PrefixOf(length)] - 1 \in Nat
         /\ LengthBytes(length) = <<FirstByte(length)>> \o Others(length)
         /\ Number(FirstByte(length) % Two[ByteWidth - 2], Others(length), ByteWidth) = Shortened(length)
<1> DEFINE p == PrefixOf(length)
           m == Two[p]
           low == Two[BitsIn(m) - 2]
           u == length % low
           v == p * low + u
           w == ByteWidth
           c == Two[w * (m - 1)]
           q == Two[w - 2]
           s == Slices(v, m, w)
           z == u \div c
           f == p * q + z
<1>1. p \in 0 .. 3 /\ p \in Nat
  BY PrefixIs
<1>2. s = LengthBytes(length)
  BY Zenon DEF LengthBytes
<1>3. u = Shortened(length)
  BY LengthFits
<1> HIDE DEF p
<1>4. m \in Nat \ {0}
  BY <1>1, TwoIs
<1> HIDE DEF m
<1>5. low = q * c /\ c \in Nat \ {0} /\ q \in Nat \ {0} /\ m - 1 \in Nat /\ w \in Nat \ {0} /\ w - 2 \in Nat
  BY <1>4, RoomIs, TwosAre, Wide
<1>6. Two[w] = 4 * q
  BY TwosAre
<1> HIDE DEF w, c, q
<1>7. low \in Nat \ {0} /\ u \in 0 .. low - 1
  <2>1. low \in Nat \ {0}
    <3>1. q * c \in Nat \ {0}
      BY <1>5
    <3>. QED  BY <1>5, <3>1
  <2> HIDE DEF low
  <2>. QED  BY <2>1, Quotient
<1> HIDE DEF low, u
<1>71. u \in Nat
  BY <1>7
<1>8. v \in Nat
  <2>1. p * low \in Nat
    BY <1>1, <1>7, Multiples
  <2>. QED  BY <1>7, <2>1
<1>9. v = (p * q) * c + u /\ p * q \in Nat
  <2>1. p * (q * c) = (p * q) * c /\ p * q \in Nat
    BY <1>1, <1>5
  <2>. QED  BY <1>5, <2>1
<1> HIDE DEF v
<1>10. z \in Nat /\ z < q /\ u = z * c + (u % c) /\ u % c \in Nat
  <2>1. z \in Nat /\ u % c \in 0 .. c - 1 /\ u = z * c + (u % c)
    BY <1>5, <1>71, Quotient
  <2> HIDE DEF z
  <2>2. z < q
    <3>1. SUFFICES ASSUME q <= z  PROVE FALSE
      BY <1>5, <2>1
    <3>2. q * c <= z * c
      BY <1>5, <2>1, <3>1, Multiples
    <3> DEFINE x == z * c
               y == u % c
    <3>3. x \in Nat /\ y \in Nat /\ u = x + y /\ low <= x
      BY <1>5, <2>1, <3>2, Multiples
    <3> HIDE DEF x, y
    <3>. QED  BY <1>7, <3>3
  <2>. QED  BY <2>1, <2>2
<1>11. v \div c = f /\ v % c = u % c
  <2> DEFINE a == p * q
  <2>1. a \in Nat
    BY <1>9
  <2> HIDE DEF a
  <2>2. (a * c + u) \div c = a + (u \div c) /\ (a * c + u) % c = u % c
    BY <1>5, <1>71, <2>1, DivideSum
  <2>. QED  BY <1>9, <2>2 DEF a
<1> HIDE DEF z
<1>12. f \in 0 .. Two[w] - 1 /\ f \div q = p /\ f % q = z
  <2>1. z \in 0 .. q - 1
    BY <1>5, <1>10
  <2>2. (p * q + z) \div q = p /\ (p * q + z) % q = z
    BY <1>1, <1>5, <2>1, QuotientIs
  <2>3. p * q <= 3 * q
    BY <1>1, <1>5, Multiples
  <2> DEFINE x == p * q
  <2>4. x \in Nat /\ x <= 3 * q
    BY <1>9, <2>3
  <2> HIDE DEF x
  <2>5. x + z \in 0 .. 4 * q - 1
    BY <1>5, <1>10, <2>4
  <2>. QED  BY <1>6, <2>2, <2>5 DEF x
<1> HIDE DEF f
<1>13. s \in Seq(Octets) /\ Len(s) = m /\ \A i \in 1 .. m : s[i] = (v \div Two[w * (m - i)]) % Two[w]
  BY <1>4, <1>5, <1>8, SlicesAre DEF Octets, w
<1>14. s[1] = f
  <2>1. 1 \in 1 .. m
    BY <1>4
  <2>2. s[1] = (v \div c) % Two[w]
    BY <1>13, <2>1 DEF c
  <2> DEFINE B == Two[w]
  <2>3. B \in Nat \ {0} /\ f \in 0 .. B - 1
    BY <1>5, <1>6, <1>12
  <2>4. s[1] = f % B
    BY <1>11, <2>2
  <2> HIDE DEF B
  <2>. QED  BY <2>3, <2>4
<1> DEFINE t == SubSeq(s, 2, Len(s))
           k == m - 1
           r == Slices(v, k, w)
<1>15. r \in Seq(Octets) /\ Len(r) = k /\ \A i \in 1 .. k : r[i] = (v \div Two[w * (k - i)]) % Two[w]
  BY <1>5, <1>8, SlicesAre DEF Octets, w
<1>16. t = r
  <2> HIDE DEF s, r
  <2>1. t \in Seq(Octets) /\ Len(t) = k /\ \A i \in 1 .. k : t[i] = s[i + 1]
    BY <1>4, <1>13
  <2>2. ASSUME NEW i \in 1 .. k  PROVE t[i] = r[i]
    <3>1. m - (i + 1) = k - i /\ i + 1 \in 1 .. m
      BY <1>4
    <3>2. s[i + 1] = (v \div Two[w * (m - (i + 1))]) % Two[w]
      BY <1>13, <3>1
    <3>. QED  BY <1>15, <2>1, <3>1, <3>2
  <2> HIDE DEF t, k
  <2>. QED  BY <1>15, <2>1, <2>2
<1>17. Number(z, r, w) = u
  <2>1. Number(z, r, w) = z * Two[w * k] + (v % Two[w * k])
    <3>1. k \in Nat /\ w \in Nat
      BY <1>5
    <3> HIDE DEF k
    <3>. QED  BY <1>8, <1>10, <3>1, NumberOfSlices
  <2>2. Two[w * k] = c
    BY DEF c
  <2>. QED  BY <1>10, <1>11, <2>1, <2>2
<1>18. s = <<s[1]>> \o t /\ s[1] \in Octets
  <2> HIDE DEF s
  <2>1. s \in Seq(Octets) /\ Len(s) \in Nat \ {0}
    BY <1>4, <1>13
  <2>. QED  BY <2>1
<1>19. FirstByte(length) = f /\ Others(length) = t
  BY <1>2, <1>14 DEF FirstByte, Others
<1>20. f \in Octets /\ f \in Nat
  BY <1>12 DEF Octets, w
<1> HIDE DEF s, t, r
<1>. QED  BY <1>2, <1>3, <1>5, <1>12, <1>13, <1>14, <1>15, <1>16, <1>17, <1>18, <1>19, <1>20 DEF p, m, q, w, k

-----------------------------------------------------------------------------
(* The reader, at the head of a block. *)

LEMMA OctetsAreNat == ASSUME NEW s \in Seq(Octets) PROVE s \in Seq(Nat)
<1>1. Octets \subseteq Nat
  BY DEF Octets
<1>2. Len(s) \in Nat /\ \A i \in 1 .. Len(s) : s[i] \in Octets
  OBVIOUS
<1> HIDE DEF Octets
<1>3. \A i \in 1 .. Len(s) : s[i] \in Nat
  BY <1>1, <1>2
<1>4. s = [i \in 1 .. Len(s) |-> s[i]]
  OBVIOUS
<1>5. [i \in 1 .. Len(s) |-> s[i]] \in Seq(Nat)
  BY <1>2, <1>3, IsASeq
<1>. QED  BY <1>4, <1>5

OneMore(x, r) == \E l \in Nat : x.out = Append(r.out, l)

\* The bytes that follow the first one of a length.
RestRead(x, r, start, s) ==
  BytesAt(r.data, r.pos, s) /\ x.rc = "OK" => x.out = Append(r.out, Number(start, s, ByteWidth))

LEMMA RestIs ==
  ASSUME NEW r, IsReader(r), NEW first \in Nat, NEW n \in Nat, NEW x, x = ReadRest(r, first, n)
  PROVE  /\ Follows(x, r) /\ x.rc \in {"OK", "UNDERFLOW"}
         /\ x.rc = "OK" <=> r.pos + BitsIn(n) <= BitsIn(r.len)
         /\ x.rc = "OK" => x.pos = r.pos + BitsIn(n) /\ OneMore(x, r)
         /\ \A s \in Seq(Octets) : Len(s) = n => RestRead(x, r, first % Two[ByteWidth - 2], s)
<1> DEFINE q == [r EXCEPT !.out = <<>>]
           b == ReadBytes(q, n)
           start == first % Two[ByteWidth - 2]
           v == Number(start, b.out, ByteWidth)
           o == Append(r.out, v)
           y == [b EXCEPT !.out = o]
           u == Underflow(b)
<1>1. x = IF b.rc # "OK" THEN u ELSE y
  BY Zenon DEF ReadRest
<1>2. start \in Nat
  <2> DEFINE c == Two[ByteWidth - 2]
  <2>1. c \in Nat \ {0}
    BY TwosAre
  <2> HIDE DEF c
  <2>2. first % c \in 0 .. c - 1
    BY <2>1, Quotient
  <2>3. first % c \in Nat
    BY <2>1, <2>2
  <2>. QED  BY <2>3 DEF c
<1> HIDE DEF start
<1>3. Follows(q, r) /\ q.out = <<>> /\ q.pos = r.pos /\ q.rc = r.rc
  <2>1. <<>> \in Seq(Nat)
    OBVIOUS
  <2>. QED  BY <2>1, Puts
<1>4. IsReader(q) /\ q.len = r.len /\ q.data = r.data
  BY <1>3 DEF Follows
<1> HIDE DEF q
<1>5. Follows(b, q) /\ b.rc \in {"OK", "OVERFLOW"} /\ (b.rc = "OK" <=> r.pos + BitsIn(n) <= BitsIn(r.len))
      /\ (b.rc = "OK" => b.pos = r.pos + BitsIn(n) /\ b.out = q.out \o Heard(q, n))
  BY <1>3, <1>4, ReadsBytes
<1> HIDE DEF b
<1>6. IsReader(b) /\ Follows(b, r)
  BY <1>3, <1>5, FollowsOn DEF Follows
<1>7. CASE b.rc # "OK"
  <2>1. x = u
    BY <1>1, <1>7
  <2>2. Follows(u, b) /\ u.rc = "UNDERFLOW"
    BY <1>6, FailsTo DEF Underflow
  <2> HIDE DEF u
  <2>3. Follows(u, r)
    BY <1>6, <2>2, FollowsOn
  <2>. QED  BY <1>5, <1>7, <2>1, <2>2, <2>3 DEF RestRead
<1>8. CASE b.rc = "OK"
  <2>1. x = y
    BY <1>1, <1>8
  <2>2. Heard(q, n) \in Seq(Nat) /\ Len(Heard(q, n)) = n
        /\ \A s \in Seq(Octets) : Len(s) = n /\ BytesAt(q.data, q.pos, s) => Heard(q, n) = s
    BY <1>3, <1>4, <1>5, <1>8, HeardIs
  <2>3. b.out = Heard(q, n) /\ b.out \in Seq(Nat)
    BY <1>3, <1>5, <1>8, <2>2
  <2>4. v \in Nat
    BY <1>2, <2>3, Wide, NumberNat
  <2>5. o \in Seq(Nat)
    <3> HIDE DEF v
    <3>1. r.out \in Seq(Nat)
      BY DEF IsReader
    <3>. QED  BY <2>4, <3>1
  <2>6. Follows(y, b) /\ y.out = o /\ y.rc = b.rc /\ y.pos = b.pos
    <3> HIDE DEF o
    <3>. QED  BY <1>6, <2>5, Puts
  <2>7. OneMore(y, r)
    <3> HIDE DEF y, v
    <3>. QED  BY <2>4, <2>6 DEF OneMore
  <2>8. ASSUME NEW s \in Seq(Octets), Len(s) = n  PROVE RestRead(y, r, start, s)
    <3> HIDE DEF y
    <3>1. BytesAt(r.data, r.pos, s) => b.out = s
      BY <1>3, <1>4, <2>2, <2>3, <2>8
    <3>. QED  BY <2>6, <3>1 DEF RestRead
  <2> HIDE DEF y
  <2>9. Follows(y, r)
    BY <1>6, <2>6, FollowsOn
  <2>. QED  BY <1>5, <1>8, <2>1, <2>6, <2>7, <2>8, <2>9 DEF start
<1>. QED  BY <1>7, <1>8

\* One byte that is read.
ByteRead(x, r, b) == BytesAt(r.data, r.pos, <<b>>) /\ x.rc = "OK" => x.out = Append(r.out, b)

LEMMA ReadsOne ==
  ASSUME NEW r, IsReader(r), NEW x, x = ReadBytes(r, 1)
  PROVE  /\ Follows(x, r)
         /\ x.rc = "OK" <=> r.pos + BitsIn(1) <= BitsIn(r.len)
         /\ x.rc = "OK" => x.pos = r.pos + BitsIn(1) /\ OneMore(x, r)
         /\ \A b \in Octets : ByteRead(x, r, b)
<1> DEFINE n == 1
           h == Heard(r, n)
<1>1. n \in Nat
  OBVIOUS
<1>2. x = ReadBytes(r, n)
  OBVIOUS
<1> HIDE DEF n
<1>3. Follows(x, r) /\ (x.rc = "OK" <=> r.pos + BitsIn(n) <= BitsIn(r.len))
      /\ (x.rc = "OK" => x.pos = r.pos + BitsIn(n) /\ x.out = r.out \o h)
  BY <1>1, <1>2, ReadsBytes
<1>4. r.out \in Seq(Nat)
  BY DEF IsReader
<1>5. CASE x.rc = "OK"
  <2>1. h \in Seq(Nat) /\ Len(h) = n /\ \A s \in Seq(Octets) : Len(s) = n /\ BytesAt(r.data, r.pos, s) => h = s
    BY <1>1, <1>3, <1>5, HeardIs
  <2> HIDE DEF h
  <2>2. PICK l \in Nat : h = <<l>>
    <3>1. h = <<h[1]>> /\ h[1] \in Nat
      BY <2>1 DEF n
    <3>. QED  BY <3>1
  <2>3. x.out = Append(r.out, l)
    BY <1>3, <1>4, <1>5, <2>2
  <2>4. ASSUME NEW b \in Octets, BytesAt(r.data, r.pos, <<b>>)  PROVE b = l
    <3>1. <<b>> \in Seq(Octets) /\ Len(<<b>>) = n
      BY DEF n
    <3>2. h = <<b>>
      BY <2>1, <2>4, <3>1
    <3>. QED  BY <2>2, <3>2
  <2>. QED  BY <1>3, <1>5, <2>3, <2>4 DEF OneMore, ByteRead, n
<1>6. CASE x.rc # "OK"
  BY <1>3, <1>6 DEF ByteRead, n
<1>. QED  BY <1>5, <1>6

\* A length that is read from where it was written.
AtLength(r, length) == BytesAt(r.data, r.pos, LengthBytes(length))
LengthEnd(r, length) == r.pos + BitsIn(Len(LengthBytes(length)))

LengthRead(x, r, length) ==
  AtLength(r, length) =>
    /\ x.rc = "OK" <=> LengthEnd(r, length) <= BitsIn(r.len)
    /\ x.rc = "OK" => x.pos = LengthEnd(r, length) /\ x.out = Append(r.out, Shortened(length))

LEMMA LengthBegins ==
  ASSUME NEW r, IsReader(r), NEW length \in Nat, AtLength(r, length)
  PROVE  /\ BytesAt(r.data, r.pos, <<FirstByte(length)>>)
         /\ BytesAt(r.data, r.pos + BitsIn(1), Others(length))
         /\ LengthEnd(r, length) = (r.pos + BitsIn(1)) + BitsIn(Len(Others(length)))
<1> DEFINE f == FirstByte(length)
           t == Others(length)
           s == LengthBytes(length)
           D == r.data
           a == r.pos
<1>1. s = <<f>> \o t /\ f \in Octets /\ t \in Seq(Octets)
  BY LengthBytesAre
<1>2. D \in Seq(Bit) /\ a \in Nat /\ BytesAt(D, a, s)
  BY DEF IsReader, AtLength
<1>3. LengthEnd(r, length) = a + BitsIn(Len(s))
  BY DEF LengthEnd
<1> HIDE DEF f, t, s, D, a
<1>4. <<f>> \in Seq(Octets) /\ Len(<<f>>) = 1 /\ Len(t) \in Nat /\ Len(<<f>> \o t) = 1 + Len(t)
  BY <1>1
<1> DEFINE h == <<f>>
<1>5. h \in Seq(Octets) /\ Len(h) = 1 /\ s = h \o t
  BY <1>1, <1>4
<1> HIDE DEF h
<1>6. BytesAt(D, a, h) /\ BytesAt(D, a + BitsIn(Len(h)), t)
  BY <1>1, <1>2, <1>5, BytesSplit
<1> DEFINE i == 1
           j == Len(t)
<1>7. i \in Nat /\ j \in Nat /\ Len(s) = i + j
  BY <1>1, <1>4
<1> HIDE DEF i, j
<1>8. BitsIn(i + j) = BitsIn(i) + BitsIn(j) /\ BitsIn(i) \in Nat /\ BitsIn(j) \in Nat
  BY <1>7, BitsInAre
<1>9. LengthEnd(r, length) = (a + BitsIn(i)) + BitsIn(j)
  BY <1>2, <1>3, <1>7, <1>8
<1>. QED  BY <1>5, <1>6, <1>9 DEF f, t, h, i, j, D, a

LEMMA ReadsLength ==
  ASSUME NEW r, IsReader(r), NEW x, x = ReadLength(r)
  PROVE  /\ Follows(x, r) /\ x.rc \in {"OK", "UNDERFLOW"}
         /\ x.rc = "OK" => OneMore(x, r)
         /\ \A length \in Nat : LengthRead(x, r, length)
<1> DEFINE a == ReadBytes(r, 1)
           u == Underflow(a)
           c == Two[ByteWidth - 2]
           l == Last(a.out)
           n == Two[l \div c] - 1
           b == [a EXCEPT !.out = r.out]
           y == ReadRest(b, l, n)
<1>1. x = IF a.rc # "OK" THEN u ELSE y
  BY Zenon DEF ReadLength
<1>2. Follows(a, r) /\ (a.rc = "OK" <=> r.pos + BitsIn(1) <= BitsIn(r.len))
      /\ (a.rc = "OK" => a.pos = r.pos + BitsIn(1) /\ OneMore(a, r))
      /\ \A f \in Octets : ByteRead(a, r, f)
  BY ReadsOne
<1> HIDE DEF a
<1>3. IsReader(a)
  BY <1>2 DEF Follows
<1>4. r.pos \in Nat /\ BitsIn(r.len) \in Nat /\ BitsIn(1) \in Nat /\ r.out \in Seq(Nat)
  <2>1. r.pos \in Nat /\ r.len \in Nat /\ r.out \in Seq(Nat) /\ 1 \in Nat
    BY DEF IsReader
  <2>. QED  BY <2>1, BitsInNat
<1>5. CASE a.rc # "OK"
  <2>1. x = u
    BY <1>1, <1>5
  <2>2. Follows(u, a) /\ u.rc = "UNDERFLOW"
    BY <1>3, FailsTo DEF Underflow
  <2> HIDE DEF u
  <2>3. Follows(u, r)
    BY <1>2, <2>2, FollowsOn
  <2>4. ASSUME NEW length \in Nat, AtLength(r, length)  PROVE ~ (LengthEnd(r, length) <= BitsIn(r.len))
    <3>1. LengthEnd(r, length) = (r.pos + BitsIn(1)) + BitsIn(Len(Others(length)))
      BY <2>4, LengthBegins
    <3>2. Len(Others(length)) \in Nat
      BY LengthBytesAre
    <3>3. BitsIn(Len(Others(length))) \in Nat
      BY <3>2, BitsInNat
    <3>. QED  BY <1>2, <1>4, <1>5, <3>1, <3>3
  <2>. QED  BY <2>1, <2>2, <2>3, <2>4 DEF LengthRead
<1>6. CASE a.rc = "OK"
  <2>1. x = y
    BY <1>1, <1>6
  <2>2. l \in Nat /\ \A f \in Octets : BytesAt(r.data, r.pos, <<f>>) => l = f
    <3>1. PICK e \in Nat : a.out = Append(r.out, e)
      BY <1>2, <1>6 DEF OneMore
    <3>2. l = e
      <4>1. Last(Append(r.out, e)) = e
        BY <1>4, LastIs
      <4>. QED  BY <3>1, <4>1
    <3>3. ASSUME NEW f \in Octets, BytesAt(r.data, r.pos, <<f>>)  PROVE l = f
      <4>1. a.out = Append(r.out, f)
        BY <1>2, <1>6, <3>3 DEF ByteRead
      <4>2. f \in Nat
        BY DEF Octets
      <4>3. Last(Append(r.out, f)) = f
        BY <1>4, <4>2, LastIs
      <4>. QED  BY <4>1, <4>3
    <3>. QED  BY <3>2, <3>3
  <2> HIDE DEF l
  <2>3. n \in Nat
    <3>1. c \in Nat \ {0}
      BY TwosAre
    <3> HIDE DEF c
    <3> DEFINE k == l \div c
    <3>2. k \in Nat
      BY <2>2, <3>1, Quotient
    <3> HIDE DEF k
    <3>3. Two[k] \in Nat \ {0}
      BY <3>2, TwoIs
    <3> DEFINE t == Two[k]
    <3> HIDE DEF t
    <3>4. t - 1 \in Nat
      BY <3>3 DEF t
    <3>. QED  BY <3>4 DEF t, k
  <2>4. Follows(b, a) /\ b.out = r.out /\ b.pos = a.pos /\ b.rc = a.rc
    BY <1>3, <1>4, Puts
  <2>5. IsReader(b) /\ Follows(b, r) /\ b.pos = r.pos + BitsIn(1) /\ b.len = r.len /\ b.data = r.data
    BY <1>2, <1>6, <2>4, FollowsOn DEF Follows
  <2> HIDE DEF b, n
  <2>6. /\ Follows(y, b) /\ y.rc \in {"OK", "UNDERFLOW"}
        /\ y.rc = "OK" <=> b.pos + BitsIn(n) <= BitsIn(b.len)
        /\ y.rc = "OK" => y.pos = b.pos + BitsIn(n) /\ OneMore(y, b)
        /\ \A s \in Seq(Octets) : Len(s) = n => RestRead(y, b, l % Two[ByteWidth - 2], s)
    BY <2>2, <2>3, <2>5, RestIs
  <2> HIDE DEF y
  <2>7. Follows(y, r) /\ (y.rc = "OK" => OneMore(y, r))
    BY <2>4, <2>5, <2>6, FollowsOn DEF OneMore
  <2>8. ASSUME NEW length \in Nat, AtLength(r, length)
        PROVE  /\ y.rc = "OK" <=> LengthEnd(r, length) <= BitsIn(r.len)
               /\ y.rc = "OK" => y.pos = LengthEnd(r, length) /\ y.out = Append(r.out, Shortened(length))
    <3> DEFINE f == FirstByte(length)
               t == Others(length)
    <3>1. /\ BytesAt(r.data, r.pos, <<f>>) /\ BytesAt(r.data, r.pos + BitsIn(1), t)
          /\ LengthEnd(r, length) = (r.pos + BitsIn(1)) + BitsIn(Len(t))
      BY <2>8, LengthBegins
    <3>2. /\ f \in Octets /\ f \div c = PrefixOf(length)
          /\ t \in Seq(Octets) /\ Len(t) = Two[PrefixOf(length)] - 1
          /\ Number(f % Two[ByteWidth - 2], t, ByteWidth) = Shortened(length)
      BY LengthBytesAre
    <3> HIDE DEF f, t
    <3>3. l = f
      BY <2>2, <3>1, <3>2
    <3>4. n = Len(t)
      BY <3>2, <3>3 DEF n
    <3>5. RestRead(y, b, l % Two[ByteWidth - 2], t)
      BY <2>6, <3>2, <3>4
    <3>6. y.rc = "OK" => y.out = Append(b.out, Number(l % Two[ByteWidth - 2], t, ByteWidth))
      BY <2>5, <3>1, <3>5 DEF RestRead
    <3>7. y.rc = "OK" => y.out = Append(r.out, Shortened(length))
      BY <2>4, <3>2, <3>3, <3>6
    <3>. QED  BY <2>5, <2>6, <3>1, <3>4, <3>7
  <2>. QED  BY <2>1, <2>6, <2>7, <2>8 DEF LengthRead
<1>. QED  BY <1>5, <1>6

LEMMA Rows ==
  ASSUME NEW a \in Nat, NEW b \in Nat, NEW c \in Nat
  PROVE  Append(<<a>>, b) = <<a, b>> /\ Append(<<a, b>>, c) = <<a, b, c>>
<1>1. Append(<<a>>, b) = <<a, b>>
  <2> DEFINE s == Append(<<a>>, b)
             t == <<a, b>>
  <2>1. s \in Seq(Nat) /\ t \in Seq(Nat) /\ Len(s) = 2 /\ Len(t) = 2 /\ s[1] = a /\ s[2] = b /\ t[1] = a /\ t[2] = b
    OBVIOUS
  <2> HIDE DEF s, t
  <2>2. s = t
    BY <2>1
  <2>. QED  BY <2>2 DEF s, t
<1>2. Append(<<a, b>>, c) = <<a, b, c>>
  <2> DEFINE s == Append(<<a, b>>, c)
             t == <<a, b, c>>
  <2>1. s \in Seq(Nat) /\ t \in Seq(Nat) /\ Len(s) = 3 /\ Len(t) = 3 /\ s[1] = a /\ s[2] = b /\ s[3] = c
        /\ t[1] = a /\ t[2] = b /\ t[3] = c
    OBVIOUS
  <2> HIDE DEF s, t
  <2>2. \A i \in 1 .. 3 : s[i] = t[i]
    BY <2>1
  <2>3. \A i \in 1 .. Len(s) : s[i] = t[i]
    BY <2>1, <2>2
  <2>4. s = t
    BY <2>1, <2>3, SeqEqual
  <2>. QED  BY <2>4 DEF s, t
<1>. QED  BY <1>1, <1>2

AtHead(r, tag, length) == BytesAt(r.data, r.pos, <<tag>> \o LengthBytes(length))
HeadEnd(r, length) == r.pos + BitsIn(1 + Len(LengthBytes(length)))

HeadRead(x, r, tag, length) ==
  AtHead(r, tag, length) =>
    /\ x.rc = "OK" <=> HeadEnd(r, length) <= BitsIn(r.len)
    /\ x.rc = "OK" => x.pos = HeadEnd(r, length) /\ x.out = <<tag, Shortened(length)>> /\ Last(x.out) = Shortened(length)

LEMMA ReadsHead ==
  ASSUME NEW r, IsReader(r), r.out = <<>>, NEW x, x = ReadHead(r)
  PROVE  /\ Follows(x, r) /\ x.rc \in {"OK", "UNDERFLOW"}
         /\ x.rc = "OK" => Last(x.out) \in Nat
         /\ \A tag \in Octets, length \in Nat : HeadRead(x, r, tag, length)
<1> DEFINE a == ReadBytes(r, 1)
           u == Underflow(a)
           y == ReadLength(a)
<1>1. x = IF a.rc # "OK" THEN u ELSE y
  BY Zenon DEF ReadHead
<1>2. Follows(a, r) /\ (a.rc = "OK" <=> r.pos + BitsIn(1) <= BitsIn(r.len))
      /\ (a.rc = "OK" => a.pos = r.pos + BitsIn(1) /\ OneMore(a, r))
      /\ \A f \in Octets : ByteRead(a, r, f)
  BY ReadsOne
<1> HIDE DEF a
<1>3. IsReader(a) /\ a.out \in Seq(Nat)
  BY <1>2 DEF Follows, IsReader
<1>4. r.pos \in Nat /\ BitsIn(r.len) \in Nat /\ BitsIn(1) \in Nat /\ r.data \in Seq(Bit)
  <2>1. r.pos \in Nat /\ r.len \in Nat /\ r.data \in Seq(Bit) /\ 1 \in Nat
    BY DEF IsReader
  <2>. QED  BY <2>1, BitsInNat
<1>5. ASSUME NEW tag \in Octets, NEW length \in Nat, AtHead(r, tag, length)
      PROVE  /\ BytesAt(r.data, r.pos, <<tag>>) /\ BytesAt(r.data, r.pos + BitsIn(1), LengthBytes(length))
             /\ HeadEnd(r, length) = (r.pos + BitsIn(1)) + BitsIn(Len(LengthBytes(length)))
             /\ BitsIn(Len(LengthBytes(length))) \in Nat
  <2> DEFINE t == LengthBytes(length)
             D == r.data
             p == r.pos
             h == <<tag>>
             i == 1
             j == Len(t)
  <2>1. t \in Seq(Octets) /\ h \in Seq(Octets) /\ D \in Seq(Bit) /\ p \in Nat
    <3>1. t \in Seq(Octets)
      BY LengthBytesAre
    <3>2. h \in Seq(Octets)
      OBVIOUS
    <3>. QED  BY <1>4, <3>1, <3>2
  <2>2. BytesAt(D, p, h \o t)
    BY <1>5 DEF AtHead
  <2>3. HeadEnd(r, length) = p + BitsIn(i + j)
    BY DEF HeadEnd
  <2>4. Len(h) = i /\ i \in Nat
    OBVIOUS
  <2> HIDE DEF t, h, D, p, i
  <2>5. j \in Nat
    BY <2>1
  <2> HIDE DEF j
  <2>6. BytesAt(D, p, h) /\ BytesAt(D, p + BitsIn(Len(h)), t)
    BY <2>1, <2>2, BytesSplit
  <2>7. BitsIn(i + j) = BitsIn(i) + BitsIn(j) /\ BitsIn(i) \in Nat /\ BitsIn(j) \in Nat
    BY <2>4, <2>5, BitsInAre
  <2>8. HeadEnd(r, length) = (p + BitsIn(i)) + BitsIn(j)
    BY <2>1, <2>3, <2>7
  <2>. QED  BY <2>4, <2>6, <2>7, <2>8 DEF h, t, D, p, i, j
<1>6. CASE a.rc # "OK"
  <2>1. x = u
    BY <1>1, <1>6
  <2>2. Follows(u, a) /\ u.rc = "UNDERFLOW"
    BY <1>3, FailsTo DEF Underflow
  <2> HIDE DEF u
  <2>3. Follows(u, r)
    BY <1>2, <2>2, FollowsOn
  <2>4. ASSUME NEW tag \in Octets, NEW length \in Nat, AtHead(r, tag, length)
        PROVE  ~ (HeadEnd(r, length) <= BitsIn(r.len))
    <3> DEFINE b == BitsIn(Len(LengthBytes(length)))
               e == HeadEnd(r, length)
    <3>1. e = (r.pos + BitsIn(1)) + b /\ b \in Nat
      BY <1>5, <2>4
    <3> HIDE DEF b, e
    <3>2. ~ (e <= BitsIn(r.len))
      BY <1>2, <1>4, <1>6, <3>1
    <3>. QED  BY <3>2 DEF e
  <2>. QED  BY <2>1, <2>2, <2>3, <2>4 DEF HeadRead
<1>7. CASE a.rc = "OK"
  <2>1. x = y
    BY <1>1, <1>7
  <2>2. Follows(y, a) /\ y.rc \in {"OK", "UNDERFLOW"} /\ (y.rc = "OK" => OneMore(y, a))
        /\ \A length \in Nat : LengthRead(y, a, length)
    BY <1>3, ReadsLength
  <2> HIDE DEF y
  <2>3. Follows(y, r)
    BY <1>2, <2>2, FollowsOn
  <2>4. ASSUME y.rc = "OK"  PROVE Last(y.out) \in Nat
    <3>1. PICK l \in Nat : y.out = Append(a.out, l)
      BY <2>2, <2>4 DEF OneMore
    <3>2. Last(Append(a.out, l)) = l
      BY <1>3, LastIs
    <3>. QED  BY <3>1, <3>2
  <2>5. ASSUME NEW tag \in Octets, NEW length \in Nat, AtHead(r, tag, length)
        PROVE  /\ y.rc = "OK" <=> HeadEnd(r, length) <= BitsIn(r.len)
               /\ y.rc = "OK" => y.pos = HeadEnd(r, length) /\ y.out = <<tag, Shortened(length)>>
                                   /\ Last(y.out) = Shortened(length)
    <3>1. a.pos = r.pos + BitsIn(1) /\ a.len = r.len /\ a.data = r.data
      BY <1>2, <1>7 DEF Follows
    <3>2. AtLength(a, length) /\ LengthEnd(a, length) = HeadEnd(r, length)
      BY <1>5, <2>5, <3>1 DEF AtLength, LengthEnd
    <3>3. LengthRead(y, a, length)
      BY <2>2
    <3>4. (y.rc = "OK" <=> HeadEnd(r, length) <= BitsIn(r.len))
          /\ (y.rc = "OK" => y.pos = HeadEnd(r, length) /\ y.out = Append(a.out, Shortened(length)))
      BY <3>1, <3>2, <3>3 DEF LengthRead
    <3>5. a.out = <<tag>>
      <4>1. ByteRead(a, r, tag) /\ BytesAt(r.data, r.pos, <<tag>>)
        BY <1>2, <1>5, <2>5
      <4>2. a.out = Append(r.out, tag)
        BY <1>7, <4>1 DEF ByteRead
      <4>. QED  BY <4>2
    <3> DEFINE k == Shortened(length)
    <3>6. k \in Nat
      <4> DEFINE c == Two[SizeBits - 2]
      <4>1. c \in Nat \ {0}
        <5>1. SizeBits - 2 \in Nat
          BY Wide DEF SizeBits
        <5>. QED  BY <5>1, TwoIs
      <4> HIDE DEF c
      <4>2. length % c \in 0 .. c - 1
        BY <4>1, Quotient
      <4>3. length % c \in Nat
        BY <4>1, <4>2
      <4>. QED  BY <4>3 DEF c, Shortened
    <3> HIDE DEF k
    <3>7. Last(Append(a.out, k)) = k
      BY <1>3, <3>6, LastIs
    <3>8. Append(a.out, k) = <<tag, k>>
      <4>1. tag \in Nat
        BY DEF Octets
      <4>2. Append(<<tag>>, k) = <<tag, k>>
        BY <3>6, <4>1, Rows
      <4>. QED  BY <3>5, <4>2, Zenon
    <3>. QED  BY <3>4, <3>7, <3>8 DEF k
  <2>. QED  BY <2>1, <2>2, <2>3, <2>4, <2>5 DEF HeadRead
<1>. QED  BY <1>6, <1>7

-----------------------------------------------------------------------------
(* Past a value: the sum and the product do not wrap where a block lies. *)

LEMMA Skips ==
  ASSUME NEW r, IsReader(r), NEW n \in Nat, NEW x, x = SkipBits(r, n)
  PROVE  /\ Follows(x, r) /\ x.rc \in {"OK", "OVERFLOW"} /\ x.out = r.out
         /\ r.pos + n < Two[SizeBits] =>
              /\ x.rc = "OK" <=> r.pos + n <= BitsIn(r.len)
              /\ x.rc = "OK" => x.pos = r.pos + n
<1> DEFINE T == Two[SizeBits]
           to == (r.pos + n) % T
           p == Passes(r, to, r.out)
           f == Fails(r, "OVERFLOW")
<1>1. x = IF to > BitsIn(r.len) THEN f ELSE p
  BY Zenon DEF SkipBits
<1>2. r.pos \in Nat /\ r.out \in Seq(Nat) /\ BitsIn(r.len) \in Nat
  <2>1. r.pos \in Nat /\ r.out \in Seq(Nat) /\ r.len \in Nat
    BY DEF IsReader
  <2>. QED  BY <2>1, BitsInNat
<1>3. T \in Nat \ {0}
  <2>1. SizeBits \in Nat
    BY Wide DEF SizeBits
  <2>. QED  BY <2>1, TwoIs
<1>4. to \in Nat /\ (r.pos + n < T => to = r.pos + n)
  <2> DEFINE y == r.pos + n
  <2>1. y \in Nat
    BY <1>2
  <2> HIDE DEF y, T
  <2>2. y % T \in 0 .. T - 1 /\ (y < T => y % T = y)
    BY <1>3, <2>1
  <2>3. y % T \in Nat
    BY <1>3, <2>2
  <2>. QED  BY <2>2, <2>3 DEF y
<1> HIDE DEF to
<1>5. CASE to > BitsIn(r.len)
  <2>1. x = f
    BY <1>1, <1>5
  <2>2. Follows(f, r) /\ f.rc = "OVERFLOW" /\ f.out = r.out
    BY FailsTo
  <2> HIDE DEF f
  <2>. QED  BY <1>2, <1>4, <1>5, <2>1, <2>2
<1>6. CASE ~ (to > BitsIn(r.len))
  <2>1. x = p
    BY <1>1, <1>6
  <2>2. to <= BitsIn(r.len)
    BY <1>2, <1>4, <1>6
  <2>3. Follows(p, r) /\ p.rc = "OK" /\ p.pos = to /\ p.out = r.out
    BY <1>2, <1>4, <2>2, PassesTo
  <2> HIDE DEF p
  <2>. QED  BY <1>2, <1>4, <2>1, <2>2, <2>3
<1>. QED  BY <1>5, <1>6

LEMMA Seeks ==
  ASSUME NEW r, IsReader(r), NEW to \in Nat
  PROVE  Follows(Seek(r, to), r)
<1>1. BitsIn(r.len) \in Nat /\ r.out \in Seq(Nat)
  <2>1. r.len \in Nat /\ r.out \in Seq(Nat)
    BY DEF IsReader
  <2>. QED  BY <2>1, BitsInNat
<1>2. CASE to > BitsIn(r.len)
  BY <1>2, FailsTo DEF Seek
<1>3. CASE ~ (to > BitsIn(r.len))
  <2>1. to <= BitsIn(r.len)
    BY <1>1, <1>3
  <2>. QED  BY <1>1, <1>3, <2>1, PassesTo DEF Seek
<1>. QED  BY <1>2, <1>3

LEMMA SkipsValue ==
  ASSUME NEW r, IsReader(r), Last(r.out) \in Nat, NEW x, x = SkipValue(r)
  PROVE  /\ Follows(x, r) /\ x.rc \in {"OK", "OVERFLOW"} /\ x.out = r.out
         /\ r.pos + BitsIn(Last(r.out)) < Two[SizeBits] =>
              /\ x.rc = "OK" <=> r.pos + BitsIn(Last(r.out)) <= BitsIn(r.len)
              /\ x.rc = "OK" => x.pos = r.pos + BitsIn(Last(r.out))
<1> DEFINE T == Two[SizeBits]
           b == BitsIn(Last(r.out))
           n == b % T
<1>1. x = SkipBits(r, n)
  BY DEF SkipValue
<1>2. b \in Nat /\ r.pos \in Nat
  BY BitsInNat DEF IsReader
<1>3. T \in Nat \ {0}
  <2>1. SizeBits \in Nat
    BY Wide DEF SizeBits
  <2>. QED  BY <2>1, TwoIs
<1> HIDE DEF b, T
<1>4. n \in Nat /\ (r.pos + b < T => n = b)
  <2>1. b % T \in 0 .. T - 1 /\ (b < T => b % T = b)
    BY <1>2, <1>3
  <2>2. b % T \in Nat
    BY <1>3, <2>1
  <2>3. r.pos + b < T => b < T
    BY <1>2, <1>3
  <2>. QED  BY <2>1, <2>2, <2>3
<1> HIDE DEF n
<1>5. Follows(x, r) /\ x.rc \in {"OK", "OVERFLOW"} /\ x.out = r.out
      /\ (r.pos + n < T => (x.rc = "OK" <=> r.pos + n <= BitsIn(r.len)) /\ (x.rc = "OK" => x.pos = r.pos + n))
  BY <1>1, <1>4, Skips DEF T
<1>6. r.pos + b < T => r.pos + n < T /\ n = b
  BY <1>4
<1>. QED  BY <1>5, <1>6 DEF b, T

-----------------------------------------------------------------------------
(* A block that is read from where it was written. *)

AtItem(r, tag, value) == BytesAt(r.data, r.pos, <<tag>> \o LengthBytes(Len(value)) \o value)
ValueEnd(r, value) == HeadEnd(r, Len(value)) + BitsIn(Len(value))

LEMMA ItemBegins ==
  ASSUME NEW r, IsReader(r), Len(r.data) < Two[SizeBits - 1],
         NEW tag \in Octets, NEW value \in Seq(Octets), AtItem(r, tag, value)
  PROVE  /\ AtHead(r, tag, Len(value)) /\ Len(value) \in Nat
         /\ HeadEnd(r, Len(value)) \in Nat /\ BitsIn(Len(value)) \in Nat
         /\ ValueEnd(r, value) < Two[SizeBits]
         /\ Shortened(Len(value)) = Len(value)
         /\ HeadEnd(r, Len(value)) % ByteWidth = r.pos % ByteWidth
<1> DEFINE l == LengthBytes(Len(value))
           h == <<tag>> \o l
           D == r.data
           a == r.pos
           L == Len(value)
           m == 1 + Len(l)
<1>1. L \in Nat
  OBVIOUS
<1>2. D \in Seq(Bit) /\ a \in Nat /\ Len(D) \in Nat
  BY DEF IsReader
<1>3. l \in Seq(Octets)
  BY <1>1, LengthBytesAre
<1>4. BytesAt(D, a, (<<tag>> \o l) \o value)
  BY DEF AtItem
<1>5. HeadEnd(r, L) = a + BitsIn(m)
  BY DEF HeadEnd
<1> HIDE DEF l
<1>6. h \in Seq(Octets) /\ Len(h) = m /\ m \in Nat
  <2>1. <<tag>> \in Seq(Octets) /\ Len(<<tag>>) = 1
    OBVIOUS
  <2> DEFINE t == <<tag>>
  <2> HIDE DEF t
  <2>2. t \o l \in Seq(Octets) /\ Len(t \o l) = Len(t) + Len(l) /\ Len(l) \in Nat
    BY <1>3, <2>1 DEF t
  <2>3. Len(t) = 1 /\ Len(t \o l) = 1 + Len(l)
    BY <2>1, <2>2 DEF t
  <2>. QED  BY <2>2, <2>3 DEF t
<1> HIDE DEF h, m
<1>7. BytesAt(D, a, h) /\ BytesAt(D, a + BitsIn(m), value)
  <2>1. BytesAt(D, a, h \o value)
    BY <1>4 DEF h
  <2> HIDE DEF D, a
  <2>2. BytesAt(D, a, h) /\ BytesAt(D, a + BitsIn(Len(h)), value)
    BY <1>2, <1>6, <2>1, BytesSplit
  <2>. QED  BY <1>6, <2>2
<1> DEFINE e == a + BitsIn(m)
           b == BitsIn(L)
<1>8. BitsIn(m) \in Nat /\ b \in Nat /\ e \in Nat
  <2>1. BitsIn(m) \in Nat /\ b \in Nat
    BY <1>1, <1>6, BitsInNat
  <2>. QED  BY <1>2, <2>1
<1>9. e + b <= Len(D)
  BY <1>7 DEF BytesAt
<1>10. Two[SizeBits] = 2 * Two[SizeBits - 1] /\ Two[SizeBits - 1] = 2 * Two[SizeBits - 2]
       /\ Two[SizeBits - 2] \in Nat \ {0} /\ Two[SizeBits - 1] \in Nat \ {0}
  <2> DEFINE k == SizeBits - 2
             j == k + 1
             i == j + 1
  <2>1. k \in Nat /\ j = SizeBits - 1 /\ i = SizeBits
    BY Wide DEF SizeBits
  <2>2. j \in Nat /\ i \in Nat
    BY <2>1
  <2> HIDE DEF k
  <2>3. Two[k + 1] = 2 * Two[k] /\ Two[k] \in Nat \ {0}
    BY <2>1, TwoIs
  <2>4. Two[j] = 2 * Two[k] /\ Two[j] \in Nat \ {0}
    BY <2>2, <2>3, TwoIs
  <2> HIDE DEF j
  <2>5. Two[i] = 2 * Two[j]
    BY <2>2, TwoIs
  <2>. QED  BY <2>1, <2>3, <2>4, <2>5 DEF k
<1> DEFINE T == Two[SizeBits]
           U == Two[SizeBits - 1]
           V == Two[SizeBits - 2]
<1>11. Len(D) < U
  OBVIOUS
<1> HIDE DEF e, b, T, U, V
<1>12. e + b < T /\ b < U
  BY <1>2, <1>8, <1>9, <1>10, <1>11 DEF T, U, V
<1>13. L < V
  <2>1. 2 * L <= b
    BY <1>1, TlvAssumption DEF b, BitsIn
  <2>2. b \in Nat /\ U = 2 * V /\ V \in Nat
    BY <1>8, <1>10 DEF U, V
  <2> HIDE DEF L
  <2>3. L \in Nat
    BY <1>1 DEF L
  <2>. QED  BY <1>12, <2>1, <2>2, <2>3
<1>14. Shortened(L) = L
  <2>1. V \in Nat \ {0} /\ L \in Nat
    BY <1>1, <1>10 DEF V
  <2>2. L % V = L
    BY <1>13, <2>1
  <2>. QED  BY <2>2 DEF Shortened, V
<1>15. e % ByteWidth = a % ByteWidth
  <2> DEFINE w == ByteWidth
  <2>1. w \in Nat \ {0}
    BY Wide
  <2> HIDE DEF w, a
  <2>2. (m * w + a) % w = a % w /\ m * w \in Nat
    <3>1. m \in Nat /\ a \in Nat
      BY <1>2, <1>6
    <3>2. (m * w + a) % w = a % w
      BY <2>1, <3>1, DivideSum
    <3>3. m * w \in Nat
      BY <2>1, <3>1, Multiples
    <3>. QED  BY <3>2, <3>3
  <2> DEFINE y == m * w
  <2>3. y = BitsIn(m) /\ y \in Nat
    BY <2>2 DEF BitsIn, w
  <2> HIDE DEF y
  <2>4. e = y + a
    BY <1>2, <2>3 DEF e
  <2>. QED  BY <2>2, <2>4 DEF y, w
<1>16. AtHead(r, tag, L)
  BY <1>7 DEF AtHead, h, l
<1>17. HeadEnd(r, L) = e /\ ValueEnd(r, value) = e + b
  BY <1>5 DEF ValueEnd, e, b
<1>18. HeadEnd(r, L) \in Nat /\ ValueEnd(r, value) < Two[SizeBits] /\ HeadEnd(r, L) % ByteWidth = a % ByteWidth
  BY <1>8, <1>12, <1>15, <1>17 DEF T
<1>. QED  BY <1>1, <1>8, <1>14, <1>16, <1>18 DEF b

DecodeRead(x, r, tag, value) ==
  AtItem(r, tag, value) =>
    IF ValueEnd(r, value) <= BitsIn(r.len) /\ r.pos % ByteWidth = 0
    THEN x.rc = "OK" /\ x.out = <<tag, Len(value), HeadEnd(r, Len(value))>> /\ x.pos = ValueEnd(r, value)
    ELSE x.rc = IF HeadEnd(r, Len(value)) <= BitsIn(r.len) /\ r.pos % ByteWidth # 0 THEN "INVALID" ELSE "UNDERFLOW"

SkipRead(x, r, tag, value) ==
  AtItem(r, tag, value) =>
    /\ x.rc = "OK" <=> ValueEnd(r, value) <= BitsIn(r.len)
    /\ x.rc = "OK" => x.pos = ValueEnd(r, value)

LEMMA SkipsItem ==
  ASSUME NEW r, IsReader(r), r.out = <<>>, NEW x, x = TlvSkip(r)
  PROVE  /\ Follows(x, r)
         /\ Len(r.data) < Two[SizeBits - 1] =>
              \A tag \in Octets, value \in Seq(Octets) : SkipRead(x, r, tag, value)
<1> DEFINE h == ReadHead(r)
           y == SkipValue(h)
<1>1. x = IF h.rc # "OK" THEN h ELSE y
  BY Zenon DEF TlvSkip
<1>2. /\ Follows(h, r) /\ h.rc \in {"OK", "UNDERFLOW"}
      /\ h.rc = "OK" => Last(h.out) \in Nat
      /\ \A tag \in Octets, length \in Nat : HeadRead(h, r, tag, length)
  BY ReadsHead
<1> HIDE DEF h
<1>3. IsReader(h) /\ h.len = r.len /\ h.data = r.data /\ BitsIn(r.len) \in Nat
  BY <1>2, BitsInNat DEF Follows, IsReader
<1>4. CASE h.rc # "OK"
  <2>1. ASSUME NEW tag \in Octets, NEW value \in Seq(Octets), Len(r.data) < Two[SizeBits - 1], AtItem(r, tag, value)
        PROVE  ~ (ValueEnd(r, value) <= BitsIn(r.len))
    <3>1. AtHead(r, tag, Len(value)) /\ Len(value) \in Nat
          /\ HeadEnd(r, Len(value)) \in Nat /\ BitsIn(Len(value)) \in Nat
      BY <2>1, ItemBegins
    <3>2. ~ (HeadEnd(r, Len(value)) <= BitsIn(r.len))
      BY <1>2, <1>4, <3>1 DEF HeadRead
    <3>. QED  BY <1>3, <3>1, <3>2 DEF ValueEnd
  <2>. QED  BY <1>1, <1>2, <1>4, <2>1 DEF SkipRead
<1>5. CASE h.rc = "OK"
  <2>1. x = y
    BY <1>1, <1>5
  <2>2. /\ Follows(y, h) /\ y.out = h.out
        /\ h.pos + BitsIn(Last(h.out)) < Two[SizeBits] =>
             /\ y.rc = "OK" <=> h.pos + BitsIn(Last(h.out)) <= BitsIn(h.len)
             /\ y.rc = "OK" => y.pos = h.pos + BitsIn(Last(h.out))
    BY <1>2, <1>3, <1>5, SkipsValue
  <2> HIDE DEF y
  <2>3. Follows(y, r)
    BY <1>2, <2>2, FollowsOn
  <2>4. ASSUME NEW tag \in Octets, NEW value \in Seq(Octets), Len(r.data) < Two[SizeBits - 1], AtItem(r, tag, value)
        PROVE  /\ y.rc = "OK" <=> ValueEnd(r, value) <= BitsIn(r.len)
               /\ y.rc = "OK" => y.pos = ValueEnd(r, value)
    <3>1. AtHead(r, tag, Len(value)) /\ Len(value) \in Nat /\ ValueEnd(r, value) < Two[SizeBits]
          /\ Shortened(Len(value)) = Len(value)
      BY <2>4, ItemBegins
    <3>2. h.pos = HeadEnd(r, Len(value)) /\ Last(h.out) = Len(value)
      BY <1>2, <1>5, <3>1 DEF HeadRead
    <3>3. h.pos + BitsIn(Last(h.out)) = ValueEnd(r, value)
      BY <3>2 DEF ValueEnd
    <3>. QED  BY <1>3, <2>2, <3>1, <3>3
  <2>. QED  BY <2>1, <2>3, <2>4 DEF SkipRead
<1>. QED  BY <1>4, <1>5

LEMMA DecodesItem ==
  ASSUME NEW r, IsReader(r), r.out = <<>>, NEW x, x = Decode(r)
  PROVE  /\ Follows(x, r)
         /\ Len(r.data) < Two[SizeBits - 1] =>
              \A tag \in Octets, value \in Seq(Octets) : DecodeRead(x, r, tag, value)
<1> DEFINE h == ReadHead(r)
           w == ByteWidth
           f == Fails(h, "INVALID")
           u == Underflow(h)
           v == SkipValue(h)
           o == Append(v.out, h.pos)
           y == [v EXCEPT !.out = o]
           far == h.pos \div w + Last(h.out) > h.len
<1>1. x = IF h.rc # "OK" THEN h ELSE IF h.pos % w # 0 THEN f ELSE IF far THEN u ELSE y
  BY Zenon DEF Decode
<1>2. /\ Follows(h, r) /\ h.rc \in {"OK", "UNDERFLOW"}
      /\ h.rc = "OK" => Last(h.out) \in Nat
      /\ \A tag \in Octets, length \in Nat : HeadRead(h, r, tag, length)
  BY ReadsHead
<1> HIDE DEF h
<1>3. IsReader(h) /\ h.len = r.len /\ h.data = r.data /\ BitsIn(r.len) \in Nat /\ h.pos \in Nat
      /\ h.out \in Seq(Nat) /\ r.len \in Nat
  BY <1>2, BitsInNat DEF Follows, IsReader
<1>4. ASSUME h.rc = "OK", NEW tag \in Octets, NEW value \in Seq(Octets), Len(r.data) < Two[SizeBits - 1],
             AtItem(r, tag, value)
      PROVE  /\ h.pos = HeadEnd(r, Len(value)) /\ Last(h.out) = Len(value) /\ Len(value) \in Nat
             /\ h.out = <<tag, Len(value)>> /\ h.pos % w = r.pos % w /\ ValueEnd(r, value) < Two[SizeBits]
             /\ h.pos + BitsIn(Last(h.out)) = ValueEnd(r, value) /\ HeadEnd(r, Len(value)) <= BitsIn(r.len)
             /\ BitsIn(Len(value)) \in Nat
  <2>1. AtHead(r, tag, Len(value)) /\ Len(value) \in Nat /\ Shortened(Len(value)) = Len(value)
        /\ ValueEnd(r, value) < Two[SizeBits] /\ HeadEnd(r, Len(value)) % w = r.pos % w
        /\ BitsIn(Len(value)) \in Nat
    BY <1>4, ItemBegins
  <2>2. h.pos = HeadEnd(r, Len(value)) /\ Last(h.out) = Len(value) /\ h.out = <<tag, Len(value)>>
        /\ HeadEnd(r, Len(value)) <= BitsIn(r.len)
    BY <1>2, <1>4, <2>1 DEF HeadRead
  <2>3. h.pos + BitsIn(Last(h.out)) = ValueEnd(r, value)
    BY <2>2 DEF ValueEnd
  <2>. QED  BY <2>1, <2>2, <2>3
<1>5. CASE h.rc # "OK"
  <2>1. ASSUME NEW tag \in Octets, NEW value \in Seq(Octets), Len(r.data) < Two[SizeBits - 1], AtItem(r, tag, value)
        PROVE  ~ (ValueEnd(r, value) <= BitsIn(r.len)) /\ ~ (HeadEnd(r, Len(value)) <= BitsIn(r.len))
    <3>1. AtHead(r, tag, Len(value)) /\ Len(value) \in Nat
          /\ HeadEnd(r, Len(value)) \in Nat /\ BitsIn(Len(value)) \in Nat
      BY <2>1, ItemBegins
    <3>2. ~ (HeadEnd(r, Len(value)) <= BitsIn(r.len))
      BY <1>2, <1>5, <3>1 DEF HeadRead
    <3>. QED  BY <1>3, <3>1, <3>2 DEF ValueEnd
  <2>2. x = h /\ h.rc = "UNDERFLOW"
    BY <1>1, <1>2, <1>5
  <2>. QED  BY <1>2, <2>1, <2>2 DEF DecodeRead
<1>6. CASE h.rc = "OK" /\ h.pos % w # 0
  <2>1. x = f
    BY <1>1, <1>6
  <2>2. Follows(f, h) /\ f.rc = "INVALID"
    BY <1>3, FailsTo
  <2> HIDE DEF f
  <2>3. Follows(f, r)
    BY <1>2, <2>2, FollowsOn
  <2>4. ASSUME NEW tag \in Octets, NEW value \in Seq(Octets), Len(r.data) < Two[SizeBits - 1], AtItem(r, tag, value)
        PROVE  r.pos % w # 0 /\ HeadEnd(r, Len(value)) <= BitsIn(r.len)
    BY <1>4, <1>6, <2>4
  <2>. QED  BY <2>1, <2>2, <2>3, <2>4 DEF DecodeRead
<1>7. ASSUME h.rc = "OK", h.pos % w = 0, NEW tag \in Octets, NEW value \in Seq(Octets),
             Len(r.data) < Two[SizeBits - 1], AtItem(r, tag, value)
      PROVE  far <=> ~ (ValueEnd(r, value) <= BitsIn(r.len))
  <2> DEFINE q == h.pos \div w
             L == Len(value)
             g == r.len
  <2>1. q \in Nat /\ h.pos = BitsIn(q)
    <3>1. w \in Nat \ {0}
      BY Wide
    <3> HIDE DEF w
    <3>2. q \in Nat /\ h.pos = q * w + (h.pos % w) /\ q * w \in Nat
      BY <1>3, <3>1, Quotient, Multiples
    <3> DEFINE z == q * w
    <3> HIDE DEF z
    <3>3. h.pos = z
      BY <1>7, <3>2 DEF z
    <3>. QED  BY <3>2, <3>3 DEF z, BitsIn, w
  <2>2. Last(h.out) = L /\ L \in Nat /\ h.pos + BitsIn(L) = ValueEnd(r, value)
    BY <1>4, <1>7
  <2>3. g \in Nat /\ h.len = g
    BY <1>3
  <2>4. far <=> q + L > g
    BY <2>2, <2>3
  <2> HIDE DEF q, L, g, far
  <2>5. BitsIn(q + L) = ValueEnd(r, value)
    BY <2>1, <2>2, BitsInAre
  <2> DEFINE k == q + L
  <2>6. k \in Nat
    BY <2>1, <2>2
  <2> HIDE DEF k
  <2>7. (k <= g => BitsIn(k) <= BitsIn(g)) /\ (BitsIn(k) <= BitsIn(g) => k <= g)
    BY <2>3, <2>6, BitsInAre
  <2>8. far <=> ~ (k <= g)
    BY <2>3, <2>4, <2>6 DEF k
  <2>. QED  BY <2>5, <2>7, <2>8 DEF k, g
<1>8. CASE h.rc = "OK" /\ h.pos % w = 0 /\ far
  <2>1. x = u
    BY <1>1, <1>8
  <2>2. Follows(u, h) /\ u.rc = "UNDERFLOW"
    BY <1>3, FailsTo DEF Underflow
  <2> HIDE DEF u
  <2>3. Follows(u, r)
    BY <1>2, <2>2, FollowsOn
  <2>4. ASSUME NEW tag \in Octets, NEW value \in Seq(Octets), Len(r.data) < Two[SizeBits - 1], AtItem(r, tag, value)
        PROVE  r.pos % w = 0 /\ ~ (ValueEnd(r, value) <= BitsIn(r.len))
    BY <1>4, <1>7, <1>8, <2>4
  <2>. QED  BY <2>1, <2>2, <2>3, <2>4 DEF DecodeRead
<1>9. CASE h.rc = "OK" /\ h.pos % w = 0 /\ ~ far
  <2>1. x = y
    BY <1>1, <1>9
  <2>2. /\ Follows(v, h) /\ v.out = h.out
        /\ h.pos + BitsIn(Last(h.out)) < Two[SizeBits] =>
             /\ v.rc = "OK" <=> h.pos + BitsIn(Last(h.out)) <= BitsIn(h.len)
             /\ v.rc = "OK" => v.pos = h.pos + BitsIn(Last(h.out))
    BY <1>2, <1>3, <1>9, SkipsValue
  <2> HIDE DEF v
  <2>3. IsReader(v) /\ o \in Seq(Nat)
    BY <1>3, <2>2 DEF Follows
  <2>4. o = Append(h.out, h.pos)
    BY <2>2
  <2> HIDE DEF o
  <2>5. Follows(y, v) /\ y.out = o /\ y.rc = v.rc /\ y.pos = v.pos
    BY <2>3, Puts
  <2> HIDE DEF y
  <2>6. Follows(y, r)
    BY <1>2, <2>2, <2>5, FollowsOn
  <2>7. ASSUME NEW tag \in Octets, NEW value \in Seq(Octets), Len(r.data) < Two[SizeBits - 1], AtItem(r, tag, value)
        PROVE  /\ ValueEnd(r, value) <= BitsIn(r.len) /\ r.pos % w = 0
               /\ y.rc = "OK" /\ y.pos = ValueEnd(r, value)
               /\ y.out = <<tag, Len(value), HeadEnd(r, Len(value))>>
    <3>1. ValueEnd(r, value) <= BitsIn(r.len)
      BY <1>7, <1>9, <2>7
    <3>2. /\ h.pos = HeadEnd(r, Len(value)) /\ Len(value) \in Nat
          /\ h.out = <<tag, Len(value)>> /\ h.pos % w = r.pos % w /\ ValueEnd(r, value) < Two[SizeBits]
          /\ h.pos + BitsIn(Last(h.out)) = ValueEnd(r, value)
      BY <1>4, <1>9, <2>7
    <3>3. v.rc = "OK" /\ v.pos = ValueEnd(r, value)
      BY <1>3, <2>2, <3>1, <3>2
    <3>4. Append(<<tag, Len(value)>>, h.pos) = <<tag, Len(value), h.pos>>
      <4>1. tag \in Nat
        BY DEF Octets
      <4>. QED  BY <1>3, <3>2, <4>1, Rows
    <3>5. y.out = <<tag, Len(value), HeadEnd(r, Len(value))>>
      BY <2>4, <2>5, <3>2, <3>4, Zenon
    <3>. QED  BY <1>9, <2>5, <3>1, <3>2, <3>3, <3>5
  <2>. QED  BY <2>1, <2>6, <2>7 DEF DecodeRead
<1>. QED  BY <1>5, <1>6, <1>8, <1>9

-----------------------------------------------------------------------------
(* The stream. *)

Contents == {<<>>} \cup {<<length>> : length \in Lengths} \cup Tags \X Values
Item == [at : Nat, is : Contents]

\* An item is in the bits where it was written.
Placed(item, D) ==
  /\ \A length \in Lengths : item.is = <<length>> => BytesAt(D, item.at, LengthBytes(length))
  /\ \A tag \in Tags, value \in Values :
       item.is = <<tag, value>> => BytesAt(D, item.at, <<tag>> \o LengthBytes(Len(value)) \o value)

WriterSound ==
  /\ IsWriter(writer) /\ writer.cap \in Capacities
  /\ items \in Seq(Item) /\ Len(items) <= MaxItems
  /\ \A item \in ToSet(items) : Placed(item, writer.bits)

ReaderSound ==
  /\ reads \in 0 .. MaxReads
  /\ reader = NoReader => got.call = "none"
  /\ reader # NoReader =>
       /\ reader = [len |-> reader.len, pos |-> reader.pos]
       /\ reader.len \in 0 .. writer.cap /\ reader.pos \in 0 .. BitsIn(reader.len)

StreamInv == WriterSound /\ ReaderSound /\ ReadIsWritten

LEMMA WhatIsWritten ==
  /\ Tags \subseteq Octets /\ Values \subseteq Seq(Octets) /\ Lengths \subseteq Nat /\ Chunks \subseteq Nat
  /\ \A length \in Lengths : LengthBytes(length) \in Seq(Octets)
  /\ \A tag \in Tags, value \in Values :
       /\ Len(value) \in Nat /\ LengthBytes(Len(value)) \in Seq(Octets)
       /\ <<tag>> \o LengthBytes(Len(value)) \o value \in Seq(Octets)
<1>1. Tags \subseteq Octets /\ Values \subseteq Seq(Octets) /\ Lengths \subseteq Nat /\ Chunks \subseteq Nat
  BY TlvAssumption DEF Octets
<1>2. \A length \in Lengths : LengthBytes(length) \in Seq(Octets)
  BY <1>1, LengthBytesAre
<1>3. ASSUME NEW tag \in Tags, NEW value \in Values
      PROVE  /\ Len(value) \in Nat /\ LengthBytes(Len(value)) \in Seq(Octets)
             /\ <<tag>> \o LengthBytes(Len(value)) \o value \in Seq(Octets)
  <2>1. tag \in Octets /\ value \in Seq(Octets)
    BY <1>1
  <2>2. Len(value) \in Nat
    BY <2>1
  <2> DEFINE l == LengthBytes(Len(value))
             t == <<tag>>
  <2>3. l \in Seq(Octets)
    BY <2>2, LengthBytesAre
  <2>4. t \in Seq(Octets)
    BY <2>1
  <2> HIDE DEF l, t
  <2>5. (t \o l) \o value \in Seq(Octets)
    BY <2>1, <2>3, <2>4
  <2>. QED  BY <2>2, <2>3, <2>5 DEF l, t
<1>. QED  BY <1>1, <1>2, <1>3

LEMMA ItemsAre ==
  ASSUME NEW item \in Item
  PROVE  /\ item.at \in Nat
         /\ Len(item.is) = 1 => \E length \in Lengths : item.is = <<length>> /\ item.is[1] = length
         /\ Len(item.is) = 2 => \E tag \in Tags, value \in Values :
                                  item.is = <<tag, value>> /\ item.is[1] = tag /\ item.is[2] = value
<1>1. item.at \in Nat /\ item.is \in Contents
  BY DEF Item
<1>2. CASE item.is = <<>>
  <2>1. Len(<<>>) = 0
    OBVIOUS
  <2>. QED  BY <1>1, <1>2, <2>1
<1>3. CASE item.is \in {<<length>> : length \in Lengths}
  <2>1. PICK length \in Lengths : item.is = <<length>>
    BY <1>3
  <2>2. Len(<<length>>) = 1 /\ <<length>>[1] = length
    OBVIOUS
  <2>. QED  BY <1>1, <2>1, <2>2
<1>4. CASE item.is \in Tags \X Values
  <2>1. PICK tag \in Tags, value \in Values : item.is = <<tag, value>>
    BY <1>4
  <2>2. Len(<<tag, value>>) = 2 /\ <<tag, value>>[1] = tag /\ <<tag, value>>[2] = value
    OBVIOUS
  <2>. QED  BY <1>1, <2>1, <2>2
<1>. QED  BY <1>1, <1>2, <1>3, <1>4 DEF Contents

LEMMA PlacedStays ==
  ASSUME NEW w, NEW x, IsWriter(w), Extends(x, w), NEW item \in Item, Placed(item, w.bits)
  PROVE  Placed(item, x.bits)
<1>1. item.at \in Nat
  BY ItemsAre
<1>2. \A s \in Seq(Octets) : BytesAt(w.bits, item.at, s) => BytesAt(x.bits, item.at, s)
  BY <1>1, BytesStay
<1>. QED  BY <1>2, WhatIsWritten DEF Placed

LEMMA WritesItem ==
  ASSUME WriterSound, NEW x, NEW is \in Contents, Extends(x, writer), Written(x, is),
         x.rc = "OK" => Placed([at |-> Len(writer.bits), is |-> is], x.bits)
  PROVE  WriterSound'
<1> DEFINE new == [at |-> Len(writer.bits), is |-> is]
<1>1. IsWriter(x) /\ x.cap = writer.cap /\ IsWriter(writer)
  BY DEF Extends, WriterSound
<1>2. new \in Item
  <2>1. Len(writer.bits) \in Nat
    BY <1>1 DEF IsWriter
  <2>. QED  BY <2>1 DEF Item
<1>3. \A item \in ToSet(items) : item \in Item
  BY DEF WriterSound, ToSet
<1>4. \A item \in ToSet(items) : Placed(item, x.bits)
  <2>1. SUFFICES ASSUME NEW item \in ToSet(items)  PROVE Placed(item, x.bits)
    OBVIOUS
  <2>2. item \in Item /\ Placed(item, writer.bits)
    BY <1>3 DEF WriterSound
  <2>. QED  BY <1>1, <2>2, PlacedStays
<1>5. writer' = x /\ items' = IF x.rc = "OK" THEN Append(items, new) ELSE items
  BY DEF Written
<1>6. items \in Seq(Item) /\ Len(items) + 1 <= MaxItems
  <2>1. items \in Seq(Item) /\ Len(items) < MaxItems /\ MaxItems \in Nat
    BY TlvAssumption DEF WriterSound, Written
  <2>2. Len(items) \in Nat
    BY <2>1
  <2>. QED  BY <2>1, <2>2
<1> HIDE DEF new
<1>7. CASE x.rc = "OK"
  <2>1. items' = Append(items, new) /\ Placed(new, x.bits)
    BY <1>5, <1>7 DEF new
  <2>2. items' \in Seq(Item) /\ Len(items') <= MaxItems
    BY <1>2, <1>6, <2>1
  <2>3. \A item \in ToSet(Append(items, new)) : item \in ToSet(items) \/ item = new
    BY <1>2, <1>6 DEF ToSet
  <2>4. \A item \in ToSet(items') : Placed(item, x.bits)
    BY <1>4, <2>1, <2>3
  <2>. QED  BY <1>1, <1>5, <2>2, <2>4 DEF WriterSound
<1>8. CASE x.rc # "OK"
  <2>1. items' = items
    BY <1>5, <1>8
  <2>2. Len(items) \in Nat /\ Len(items) <= MaxItems
    BY <1>6 DEF WriterSound
  <2>. QED  BY <1>1, <1>4, <1>5, <1>6, <2>1, <2>2 DEF WriterSound
<1>. QED  BY <1>7, <1>8

LEMMA BufferIs ==
  ASSUME NEW w, IsWriter(w)
  PROVE  /\ Buffer(w) \in Seq(Bit) /\ Len(Buffer(w)) = BitsIn(w.cap)
         /\ \A a \in Nat, s \in Seq(Octets) : BytesAt(w.bits, a, s) => BytesAt(Buffer(w), a, s)
<1> DEFINE n == BitsIn(w.cap) - Len(w.bits)
           y == [i \in 1 .. n |-> 0]
           x == [bits |-> w.bits \o y, cap |-> w.cap, rc |-> "OK"]
<1>1. w.bits \in Seq(Bit) /\ w.cap \in Nat /\ Len(w.bits) <= BitsIn(w.cap)
  BY DEF IsWriter
<1>2. Len(w.bits) \in Nat /\ BitsIn(w.cap) \in Nat
  BY <1>1, BitsInNat
<1>3. n \in Nat
  BY <1>1, <1>2
<1>4. Buffer(w) = w.bits \o y
  BY DEF Buffer
<1> HIDE DEF n
<1>5. y \in Seq(Bit) /\ Len(y) = n
  BY <1>3 DEF Bit
<1> HIDE DEF y
<1>6. Len(w.bits) + Len(y) = BitsIn(w.cap)
  BY <1>1, <1>2, <1>3, <1>5 DEF n
<1>7. Len(w.bits) + Len(y) <= BitsIn(w.cap)
  BY <1>2, <1>6
<1>8. Extends(x, w) /\ x.bits = w.bits \o y
  BY <1>5, <1>7, ExtendsBy
<1> HIDE DEF x
<1>9. Buffer(w) = x.bits
  BY <1>4, <1>8
<1>10. \A a \in Nat, s \in Seq(Octets) : BytesAt(w.bits, a, s) => BytesAt(x.bits, a, s)
  BY <1>8, BytesStay
<1>11. w.bits \o y \in Seq(Bit) /\ Len(w.bits \o y) = Len(w.bits) + Len(y)
  BY <1>1, <1>5
<1>12. Buffer(w) \in Seq(Bit) /\ Len(Buffer(w)) = BitsIn(w.cap)
  BY <1>4, <1>6, <1>11
<1>13. \A a \in Nat, s \in Seq(Octets) : BytesAt(w.bits, a, s) => BytesAt(Buffer(w), a, s)
  BY <1>9, <1>10
<1>. QED  BY <1>12, <1>13

LEMMA ReaderIs ==
  ASSUME WriterSound, ReaderSound, reader # NoReader
  PROVE  /\ IsReader(Reader) /\ Reader.out = <<>> /\ Reader.len = reader.len /\ Reader.pos = reader.pos
         /\ Len(Reader.data) < Two[SizeBits - 1]
         /\ \A a \in Nat, s \in Seq(Octets) : BytesAt(writer.bits, a, s) => BytesAt(Reader.data, a, s)
<1> DEFINE l == reader.len
           p == reader.pos
           d == Buffer(writer)
           c == writer.cap
<1>1. c \in Nat /\ IsWriter(writer) /\ BitsIn(c) < Two[SizeBits - 1]
  BY TlvAssumption DEF WriterSound
<1>2. l \in 0 .. c /\ p \in 0 .. BitsIn(l)
  BY DEF ReaderSound
<1>3. d \in Seq(Bit) /\ Len(d) = BitsIn(c)
      /\ \A a \in Nat, s \in Seq(Octets) : BytesAt(writer.bits, a, s) => BytesAt(d, a, s)
  BY <1>1, BufferIs
<1>4. Reader = [len |-> l, pos |-> p, data |-> d, rc |-> "OK", out |-> <<>>]
  BY DEF Reader
<1> HIDE DEF l, p, d, c
<1>5. l \in Nat /\ l <= c
  BY <1>1, <1>2
<1>6. BitsIn(l) \in Nat /\ BitsIn(l) <= BitsIn(c)
  BY <1>1, <1>5, BitsInAre
<1>7. p \in Nat /\ p <= BitsIn(l)
  BY <1>2, <1>6
<1>8. /\ Reader.len = l /\ Reader.pos = p /\ Reader.data = d /\ Reader.rc = "OK" /\ Reader.out = <<>>
  BY <1>4
<1>9. <<>> \in Seq(Nat)
  OBVIOUS
<1>10. IsReader(Reader)
  BY <1>3, <1>4, <1>5, <1>6, <1>7, <1>8, <1>9 DEF IsReader
<1>. QED  BY <1>1, <1>3, <1>8, <1>10 DEF l, p

\* What a call leaves is sound, whatever it was.
LEMMA CallIsSound ==
  ASSUME WriterSound, ReaderSound, NEW call, NEW x, Called(call, x), Follows(x, Reader)
  PROVE  WriterSound' /\ ReaderSound'
<1>1. reader # NoReader /\ reads < MaxReads /\ reader' = [len |-> x.len, pos |-> x.pos] /\ reads' = reads + 1
      /\ UNCHANGED <<writer, items>>
  BY DEF Called
<1>2. Reader.len = reader.len /\ reader.len \in 0 .. writer.cap
  BY <1>1, ReaderIs DEF ReaderSound
<1>3. x.len = reader.len /\ x.pos \in Nat /\ x.pos <= BitsIn(x.len) /\ x.len \in Nat
  BY <1>2 DEF Follows, IsReader
<1>4. reader'.len = x.len /\ reader'.pos = x.pos /\ reader' = [len |-> reader'.len, pos |-> reader'.pos]
  BY <1>1
<1>5. BitsIn(x.len) \in Nat
  BY <1>3, BitsInNat
<1>6. reader'.len \in 0 .. writer.cap /\ reader'.pos \in 0 .. BitsIn(reader'.len)
  BY <1>2, <1>3, <1>4, <1>5
<1>7. reads' \in 0 .. MaxReads
  BY <1>1, TlvAssumption DEF ReaderSound
<1>8. reader' # NoReader
  <2>1. reader'.len # -1
    BY <1>3, <1>4
  <2>. QED  BY <2>1 DEF NoReader
<1>9. WriterSound'
  BY <1>1 DEF WriterSound
<1>. QED  BY <1>1, <1>4, <1>6, <1>7, <1>8, <1>9 DEF ReaderSound

\* What the calls say of the item that was read.
ReadOf(item) ==
  LET value == item.is[2]
      head == item.at + BitsIn(1 + Len(LengthBytes(Len(value))))
      fits == head + BitsIn(Len(value)) <= BitsIn(reader.len)
  IN /\ got.call = "decode" /\ Len(item.is) = 2 =>
          IF fits /\ item.at % ByteWidth = 0
          THEN got.rc = "OK" /\ got.out = <<item.is[1], Len(value), head>>
                 /\ reader.pos = head + BitsIn(Len(value))
          ELSE got.rc = IF head <= BitsIn(reader.len) /\ item.at % ByteWidth # 0 THEN "INVALID" ELSE "UNDERFLOW"
     /\ got.call = "skip" /\ Len(item.is) = 2 =>
          (got.rc = "OK" <=> fits) /\ (fits => reader.pos = head + BitsIn(Len(value)))
     /\ got.call = "length" /\ Len(item.is) = 1 =>
          LET end == item.at + BitsIn(Len(LengthBytes(item.is[1]))) IN
          IF end <= BitsIn(reader.len)
          THEN got.rc = "OK" /\ got.out = <<item.is[1] % Two[SizeBits - 2]>>
          ELSE got.rc = "UNDERFLOW"

LEMMA ReadIsOfItems ==
  ReadIsWritten' <=> \A item \in ToSet(items') : item.at = got'.from => ReadOf(item)'
BY Zenon DEF ReadIsWritten, ReadOf

\* A call that says nothing of what is written.
LEMMA OtherCalls ==
  ASSUME WriterSound, ReaderSound, NEW call, NEW x, Called(call, x), Follows(x, Reader),
         call \notin {"decode", "skip", "length"}
  PROVE  StreamInv'
<1>1. got'.call = call
  BY DEF Called
<1>2. \A item \in ToSet(items') : ReadOf(item)'
  BY <1>1 DEF ReadOf
<1>3. ReadIsWritten'
  BY <1>2, ReadIsOfItems
<1>. QED  BY <1>3, CallIsSound DEF StreamInv

\* A call that does: one that reads an item from where it was written reads it.
Asks(call, x, r, item) ==
  /\ call = "decode" =>
       \A tag \in Tags, value \in Values : item.is = <<tag, value>> => DecodeRead(x, r, tag, value)
  /\ call = "skip" =>
       \A tag \in Tags, value \in Values : item.is = <<tag, value>> => SkipRead(x, r, tag, value)
  /\ call = "length" =>
       /\ x.rc \in {"OK", "UNDERFLOW"}
       /\ \A length \in Lengths : item.is = <<length>> => LengthRead(x, r, length)

LEMMA CallReads ==
  ASSUME WriterSound, ReaderSound, NEW call, NEW x, Called(call, x), Follows(x, Reader),
         call \in {"decode", "skip", "length"},
         \A item \in ToSet(items) : Asks(call, x, Reader, item)
  PROVE  StreamInv'
<1>1. /\ got'.call = call /\ got'.rc = x.rc /\ got'.from = reader.pos /\ got'.out = x.out /\ items' = items
      /\ reader'.len = x.len /\ reader'.pos = x.pos /\ reader # NoReader
  BY DEF Called
<1>2. /\ IsReader(Reader) /\ Reader.out = <<>> /\ Reader.len = reader.len /\ Reader.pos = reader.pos
      /\ \A a \in Nat, s \in Seq(Octets) : BytesAt(writer.bits, a, s) => BytesAt(Reader.data, a, s)
  BY <1>1, ReaderIs
<1> DEFINE r == Reader
<1> HIDE DEF r
<1>3. x.len = r.len
  BY DEF Follows, r
<1>4. ASSUME NEW item \in ToSet(items'), item.at = got'.from  PROVE ReadOf(item)'
  <2>1. item \in ToSet(items) /\ item.at = r.pos
    BY <1>1, <1>2, <1>4 DEF r
  <2>2. item \in Item /\ Placed(item, writer.bits) /\ Asks(call, x, r, item)
    BY <2>1 DEF WriterSound, ToSet, r
  <2>3. item.at \in Nat
    BY <2>2, ItemsAre
  <2> DEFINE a == item.at
             is == item.is
  <2>4. \A length \in Lengths : is = <<length>> => AtLength(r, length)
    BY <1>2, <2>1, <2>2, <2>3, WhatIsWritten DEF Placed, AtLength, r
  <2>5. \A tag \in Tags, value \in Values : is = <<tag, value>> => AtItem(r, tag, value)
    BY <1>2, <2>1, <2>2, <2>3, WhatIsWritten DEF Placed, AtItem, r
  <2>6. CASE call = "length"
    <3>1. ASSUME Len(is) = 1
          PROVE  LET end == a + BitsIn(Len(LengthBytes(is[1]))) IN
                 IF end <= BitsIn(reader'.len) THEN got'.rc = "OK" /\ got'.out = <<is[1] % Two[SizeBits - 2]>>
                 ELSE got'.rc = "UNDERFLOW"
      <4>1. PICK length \in Lengths : is = <<length>> /\ is[1] = length
        BY <2>2, <3>1, ItemsAre
      <4>2. LengthRead(x, r, length) /\ AtLength(r, length) /\ x.rc \in {"OK", "UNDERFLOW"}
        BY <2>2, <2>4, <2>6, <4>1 DEF Asks
      <4>3. /\ x.rc = "OK" <=> LengthEnd(r, length) <= BitsIn(r.len)
            /\ x.rc = "OK" => x.out = Append(r.out, Shortened(length))
        BY <4>2 DEF LengthRead
      <4>4. LengthEnd(r, length) = a + BitsIn(Len(LengthBytes(is[1])))
        BY <2>1, <4>1 DEF LengthEnd
      <4>5. Append(r.out, Shortened(length)) = <<is[1] % Two[SizeBits - 2]>>
        <5> DEFINE k == Shortened(length)
        <5>1. k = is[1] % Two[SizeBits - 2]
          BY <4>1 DEF Shortened
        <5> HIDE DEF k
        <5>2. Append(<<>>, k) = <<k>>
          OBVIOUS
        <5>3. r.out = <<>>
          BY <1>2 DEF r
        <5>. QED  BY <5>1, <5>2, <5>3 DEF k
      <4> DEFINE e == LengthEnd(r, length)
      <4> HIDE DEF e
      <4>6. CASE e <= BitsIn(r.len)
        BY <1>1, <1>3, <4>3, <4>4, <4>5, <4>6 DEF e
      <4>7. CASE ~ (e <= BitsIn(r.len))
        BY <1>1, <1>3, <4>2, <4>3, <4>4, <4>7 DEF e
      <4>. QED  BY <4>6, <4>7
    <3>. QED  BY <1>1, <2>6, <3>1, Zenon DEF ReadOf
  <2>7. ASSUME call \in {"decode", "skip"}, Len(is) = 2
        PROVE  /\ \E tag \in Tags, value \in Values : is = <<tag, value>> /\ is[1] = tag /\ is[2] = value
               /\ AtItem(r, is[1], is[2]) /\ HeadEnd(r, Len(is[2])) = a + BitsIn(1 + Len(LengthBytes(Len(is[2]))))
               /\ ValueEnd(r, is[2]) = HeadEnd(r, Len(is[2])) + BitsIn(Len(is[2]))
    <3>1. PICK tag \in Tags, value \in Values : is = <<tag, value>> /\ is[1] = tag /\ is[2] = value
      BY <2>2, <2>7, ItemsAre
    <3>2. AtItem(r, tag, value)
      BY <2>5, <3>1
    <3>. QED  BY <2>1, <3>1, <3>2 DEF HeadEnd, ValueEnd
  <2> DEFINE value == is[2]
             head == a + BitsIn(1 + Len(LengthBytes(Len(value))))
             end == head + BitsIn(Len(value))
             size == BitsIn(reader'.len)
  <2>8. CASE call = "skip"
    <3>1. ASSUME Len(is) = 2  PROVE (got'.rc = "OK" <=> end <= size) /\ (end <= size => reader'.pos = end)
      <4>1. SkipRead(x, r, is[1], value)
        BY <2>2, <2>7, <2>8, <3>1 DEF Asks
      <4>2. ValueEnd(r, value) = end /\ AtItem(r, is[1], value)
        BY <2>7, <2>8, <3>1
      <4>. QED  BY <1>1, <1>3, <4>1, <4>2 DEF SkipRead
    <3> HIDE DEF end, size
    <3>2. call # "decode" /\ call # "length"
      BY <2>8
    <3>. QED  BY <1>1, <3>1, <3>2, Zenon DEF ReadOf, end, size
  <2>9. CASE call = "decode"
    <3>1. ASSUME Len(is) = 2
          PROVE  IF end <= size /\ a % ByteWidth = 0
                 THEN got'.rc = "OK" /\ got'.out = <<is[1], Len(value), head>> /\ reader'.pos = end
                 ELSE got'.rc = IF head <= size /\ a % ByteWidth # 0 THEN "INVALID" ELSE "UNDERFLOW"
      <4>1. DecodeRead(x, r, is[1], value)
        BY <2>2, <2>7, <2>9, <3>1 DEF Asks
      <4>2. ValueEnd(r, value) = end /\ HeadEnd(r, Len(value)) = head /\ AtItem(r, is[1], value)
        BY <2>7, <2>9, <3>1
      <4>. QED  BY <1>1, <1>3, <2>1, <4>1, <4>2, Zenon DEF DecodeRead
    <3> HIDE DEF end, size, head
    <3>2. call # "skip" /\ call # "length"
      BY <2>9
    <3>. QED  BY <1>1, <3>1, <3>2, Zenon DEF ReadOf, end, size, head
  <2>. QED  BY <2>6, <2>8, <2>9
<1>5. ReadIsWritten'
  BY <1>4, ReadIsOfItems
<1>. QED  BY <1>5, CallIsSound DEF StreamInv

LEMMA StreamBegins == StreamInit => StreamInv
<1> SUFFICES ASSUME StreamInit  PROVE StreamInv
  OBVIOUS
<1>1. PICK c \in Capacities : writer = [bits |-> <<>>, cap |-> c, rc |-> "OK"]
  BY DEF StreamInit
<1>2. c \in Nat /\ BitsIn(c) \in Nat
  BY TlvAssumption, BitsInNat
<1>3. writer.bits = <<>> /\ writer.cap = c /\ writer.rc = "OK"
  BY <1>1
<1>4. <<>> \in Seq(Bit) /\ Len(<<>>) = 0 /\ <<>> \in Seq(Item)
  OBVIOUS
<1>5. IsWriter(writer)
  BY <1>1, <1>2, <1>3, <1>4 DEF IsWriter
<1>6. items = <<>> /\ reader = NoReader /\ reads = 0 /\ got.call = "none"
  BY DEF StreamInit
<1>7. ToSet(items) = {}
  BY <1>6 DEF ToSet
<1>8. WriterSound
  BY <1>3, <1>4, <1>5, <1>6, <1>7, TlvAssumption DEF WriterSound
<1>9. ReaderSound
  BY <1>6, TlvAssumption DEF ReaderSound
<1>10. ReadIsWritten
  BY <1>7, Zenon DEF ReadIsWritten
<1>. QED  BY <1>8, <1>9, <1>10 DEF StreamInv

\* Nothing is written once there is a reader, and nothing has been read before.
LEMMA WritingIsSound ==
  ASSUME StreamInv, NEW x, NEW is \in Contents, Extends(x, writer), Written(x, is),
         x.rc = "OK" => Placed([at |-> Len(writer.bits), is |-> is], x.bits)
  PROVE  StreamInv'
<1>1. WriterSound'
  BY WritesItem DEF StreamInv
<1>2. reader = NoReader /\ UNCHANGED <<reader, reads, got>>
  BY DEF Written
<1>3. got'.call = "none" /\ ReaderSound'
  BY <1>2 DEF StreamInv, ReaderSound
<1>4. \A item \in ToSet(items') : ReadOf(item)'
  BY <1>3 DEF ReadOf
<1>5. ReadIsWritten'
  BY <1>4, ReadIsOfItems
<1>. QED  BY <1>1, <1>3, <1>5 DEF StreamInv

LEMMA StreamGoesOn == StreamInv /\ [StreamNext]_stream => StreamInv'
<1> SUFFICES ASSUME StreamInv, [StreamNext]_stream  PROVE StreamInv'
  OBVIOUS
<1>1. WriterSound /\ ReaderSound /\ IsWriter(writer)
  BY DEF StreamInv, WriterSound
<1> DEFINE a == Len(writer.bits)
<1>2. a \in Nat
  BY <1>1 DEF IsWriter
<1>3. ASSUME NEW n \in Chunks, WriteSome(n)  PROVE StreamInv'
  <2> DEFINE x == WriteBits(writer, Two[n] - 1, n)
             is == <<>>
             new == [at |-> a, is |-> is]
  <2>1. n \in Nat /\ Two[n] - 1 \in Nat
    <3>1. n \in Nat
      BY WhatIsWritten
    <3> DEFINE t == Two[n]
    <3>2. t \in Nat \ {0}
      BY <3>1, TwoIs
    <3> HIDE DEF t
    <3>3. t - 1 \in Nat
      BY <3>2
    <3>. QED  BY <3>1, <3>3 DEF t
  <2> DEFINE v == Two[n] - 1
  <2>2. Extends(x, writer)
    <3> HIDE DEF v
    <3>1. v \in Nat
      BY <2>1 DEF v
    <3>2. Extends(WriteBits(writer, v, n), writer)
      BY <1>1, <2>1, <3>1, WritesBits
    <3>. QED  BY <3>2 DEF v
  <2>3. Written(x, is)
    BY <1>3 DEF WriteSome
  <2>4. is \in Contents
    BY DEF Contents
  <2>5. Placed(new, x.bits)
    <3>1. new.is = <<>>
      OBVIOUS
    <3>2. (\A length \in Lengths : <<>> # <<length>>) /\ \A tag \in Tags, value \in Values : <<>> # <<tag, value>>
      OBVIOUS
    <3> HIDE DEF new, x
    <3>. QED  BY <3>1, <3>2 DEF Placed
  <2> HIDE DEF x, is
  <2>. QED  BY <2>2, <2>3, <2>4, <2>5, WritingIsSound
<1>4. ASSUME NEW length \in Lengths, WriteLength(length)  PROVE StreamInv'
  <2> DEFINE s == LengthBytes(length)
             x == WriteBytes(writer, s)
             is == <<length>>
             new == [at |-> a, is |-> is]
  <2>1. s \in Seq(Octets)
    BY WhatIsWritten
  <2>2. Extends(x, writer) /\ (x.rc = "OK" => BytesAt(x.bits, a, s))
    <3> HIDE DEF s
    <3>. QED  BY <1>1, <2>1, WritesBytes
  <2>3. Written(x, is)
    BY <1>4 DEF WriteLength
  <2>4. is \in Contents
    BY DEF Contents
  <2>5. x.rc = "OK" => Placed(new, x.bits)
    <3>1. new.is = <<length>> /\ new.at = a
      OBVIOUS
    <3>2. (\A other \in Lengths : <<length>> = <<other>> => other = length)
          /\ \A tag \in Tags, value \in Values : <<length>> # <<tag, value>>
      OBVIOUS
    <3> HIDE DEF new, x
    <3>. QED  BY <2>2, <3>1, <3>2 DEF Placed
  <2> HIDE DEF x, is
  <2>. QED  BY <2>2, <2>3, <2>4, <2>5, WritingIsSound
<1>5. ASSUME NEW tag \in Tags, NEW value \in Values, WriteBlock(tag, value)  PROVE StreamInv'
  <2> DEFINE s == <<tag>> \o LengthBytes(Len(value)) \o value
             x == WriteBytes(writer, s)
             is == <<tag, value>>
             new == [at |-> a, is |-> is]
  <2>1. s \in Seq(Octets)
    BY WhatIsWritten
  <2>2. Extends(x, writer) /\ (x.rc = "OK" => BytesAt(x.bits, a, s))
    <3> HIDE DEF s
    <3>. QED  BY <1>1, <2>1, WritesBytes
  <2>3. Written(x, is)
    BY <1>5 DEF WriteBlock, Encode
  <2>4. is \in Contents
    BY DEF Contents
  <2>5. x.rc = "OK" => Placed(new, x.bits)
    <3>1. new.is = <<tag, value>> /\ new.at = a
      OBVIOUS
    <3>2. (\A other \in Lengths : <<tag, value>> # <<other>>)
          /\ \A g \in Tags, w \in Values : <<tag, value>> = <<g, w>> => g = tag /\ w = value
      OBVIOUS
    <3> HIDE DEF new, x
    <3>. QED  BY <2>2, <3>1, <3>2 DEF Placed
  <2> HIDE DEF x, is
  <2>. QED  BY <2>2, <2>3, <2>4, <2>5, WritingIsSound
<1>6. ASSUME NEW n \in 0 .. writer.cap, InitReader(n)  PROVE StreamInv'
  <2>1. reader = NoReader /\ reader' = [len |-> n, pos |-> 0] /\ UNCHANGED <<writer, items, reads, got>>
    BY <1>6 DEF InitReader
  <2>2. got'.call = "none"
    BY <1>1, <2>1 DEF ReaderSound
  <2>3. WriterSound'
    BY <1>1, <2>1 DEF WriterSound
  <2>4. n \in Nat /\ BitsIn(n) \in Nat
    <3>1. writer.cap \in Nat
      BY <1>1 DEF IsWriter
    <3>2. n \in Nat
      BY <3>1
    <3>. QED  BY <3>2, BitsInNat
  <2>5. reader'.len = n /\ reader'.pos = 0
    BY <2>1
  <2>6. ReaderSound'
    BY <1>1, <2>1, <2>2, <2>4, <2>5 DEF ReaderSound
  <2>7. \A item \in ToSet(items') : ReadOf(item)'
    BY <2>2 DEF ReadOf
  <2>8. ReadIsWritten'
    BY <2>7, ReadIsOfItems
  <2>. QED  BY <2>3, <2>6, <2>8 DEF StreamInv
<1>7. reader # NoReader => IsReader(Reader) /\ Reader.out = <<>> /\ Len(Reader.data) < Two[SizeBits - 1]
  BY <1>1, ReaderIs
<1>8. ASSUME NEW call, NEW x, Called(call, x)  PROVE reader # NoReader
  BY <1>8 DEF Called
<1>9. ASSUME NEW n \in Chunks, Called("bits", ReadBits(Reader, n))  PROVE StreamInv'
  <2>1. n \in Nat
    BY WhatIsWritten
  <2>2. Follows(ReadBits(Reader, n), Reader)
    BY <1>7, <1>8, <1>9, <2>1, ReadsBits
  <2>. QED  BY <1>1, <1>9, <2>2, OtherCalls
<1>10. ASSUME NEW n \in Chunks, Called("bytes", ReadBytes(Reader, n))  PROVE StreamInv'
  <2>1. n \in Nat
    BY WhatIsWritten
  <2>2. Follows(ReadBytes(Reader, n), Reader)
    BY <1>7, <1>8, <1>10, <2>1, ReadsBytes
  <2>. QED  BY <1>1, <1>10, <2>2, OtherCalls
<1>11. ASSUME NEW item \in ToSet(items), Called("seek", Seek(Reader, item.at))  PROVE StreamInv'
  <2>1. item.at \in Nat
    <3>1. item \in Item
      BY <1>1 DEF WriterSound, ToSet
    <3>. QED  BY <3>1, ItemsAre
  <2>2. Follows(Seek(Reader, item.at), Reader)
    BY <1>7, <1>8, <1>11, <2>1, Seeks
  <2>. QED  BY <1>1, <1>11, <2>2, OtherCalls
<1>12. ASSUME Called("length", ReadLength(Reader))  PROVE StreamInv'
  <2> DEFINE x == ReadLength(Reader)
  <2>1. Follows(x, Reader) /\ x.rc \in {"OK", "UNDERFLOW"} /\ \A length \in Nat : LengthRead(x, Reader, length)
    BY <1>7, <1>8, <1>12, ReadsLength
  <2>2. Called("length", x)
    BY <1>12
  <2> HIDE DEF x
  <2>3. \A item \in ToSet(items) : Asks("length", x, Reader, item)
    BY <2>1, WhatIsWritten DEF Asks
  <2>. QED  BY <1>1, <2>1, <2>2, <2>3, CallReads
<1>13. ASSUME Called("decode", Decode(Reader))  PROVE StreamInv'
  <2> DEFINE x == Decode(Reader)
  <2>1. Follows(x, Reader) /\ \A tag \in Octets, value \in Seq(Octets) : DecodeRead(x, Reader, tag, value)
    BY <1>7, <1>8, <1>13, DecodesItem
  <2>2. Called("decode", x)
    BY <1>13
  <2> HIDE DEF x
  <2>3. \A item \in ToSet(items) : Asks("decode", x, Reader, item)
    BY <2>1, WhatIsWritten DEF Asks
  <2>. QED  BY <1>1, <2>1, <2>2, <2>3, CallReads
<1>14. ASSUME Called("skip", TlvSkip(Reader))  PROVE StreamInv'
  <2> DEFINE x == TlvSkip(Reader)
  <2>1. Follows(x, Reader) /\ \A tag \in Octets, value \in Seq(Octets) : SkipRead(x, Reader, tag, value)
    BY <1>7, <1>8, <1>14, SkipsItem
  <2>2. Called("skip", x)
    BY <1>14
  <2> HIDE DEF x
  <2>3. \A item \in ToSet(items) : Asks("skip", x, Reader, item)
    BY <2>1, WhatIsWritten DEF Asks
  <2>. QED  BY <1>1, <2>1, <2>2, <2>3, CallReads
<1>15. ASSUME UNCHANGED stream  PROVE StreamInv'
  <2>1. UNCHANGED <<writer, items, reader, reads, got>>
    BY <1>15 DEF stream
  <2>2. WriterSound' /\ ReaderSound'
    BY <1>1, <2>1 DEF WriterSound, ReaderSound
  <2>3. ReadIsWritten'
    BY <2>1 DEF StreamInv, ReadIsWritten
  <2>. QED  BY <2>2, <2>3 DEF StreamInv
<1>. QED  BY <1>3, <1>4, <1>5, <1>6, <1>9, <1>10, <1>11, <1>12, <1>13, <1>14, <1>15 DEF StreamNext, DoneReading

LEMMA StreamTyped == StreamInv => StreamTypes
<1> SUFFICES ASSUME StreamInv  PROVE StreamTypes
  OBVIOUS
<1>1. Len(writer.bits) <= BitsIn(writer.cap) /\ writer.cap \in Nat /\ reads \in 0 .. MaxReads /\ Len(items) <= MaxItems
  BY DEF StreamInv, WriterSound, ReaderSound, IsWriter
<1>2. ASSUME NEW n \in Int, n >= 0 \/ n = -1  PROVE Max({n, 0}) = IF n >= 0 THEN n ELSE 0
  <2> DEFINE m == IF n >= 0 THEN n ELSE 0
  <2>1. m \in {n, 0} /\ \A y \in {n, 0} : m >= y
    BY <1>2
  <2>2. \A x \in {n, 0} : (\A y \in {n, 0} : x >= y) => x = m
    BY <1>2
  <2> HIDE DEF m
  <2>3. (CHOOSE x \in {n, 0} : \A y \in {n, 0} : x >= y) = m
    BY <2>1, <2>2
  <2>. QED  BY <2>3 DEF Max, m
<1>3. CASE reader = NoReader
  <2>1. reader.len = -1 /\ reader.pos = 0
    BY <1>3 DEF NoReader
  <2>2. Max({-1, 0}) = 0
    BY <1>2
  <2>3. BitsIn(0) = 0
    BY BitsInAre
  <2>4. reader.pos \in 0 .. BitsIn(Max({reader.len, 0})) /\ reader.len <= writer.cap
    BY <1>1, <2>1, <2>2, <2>3
  <2>. QED  BY <1>1, <2>4 DEF StreamTypes
<1>4. CASE reader # NoReader
  <2>1. reader.len \in 0 .. writer.cap /\ reader.pos \in 0 .. BitsIn(reader.len)
    BY <1>4 DEF StreamInv, ReaderSound
  <2>2. reader.len \in Int /\ reader.len >= 0 /\ reader.len <= writer.cap
    BY <1>1, <2>1
  <2>3. Max({reader.len, 0}) = reader.len
    BY <1>2, <2>2
  <2>. QED  BY <1>1, <2>1, <2>2, <2>3 DEF StreamTypes
<1>. QED  BY <1>3, <1>4

\* Whatever bitstream.c and tlv.c read from the place where they wrote it is
\* what they wrote, or is refused where the buffer ends before it does.
THEOREM ReadsAreWrites == StreamSpec => []ReadIsWritten
<1>1. StreamInv => ReadIsWritten
  BY DEF StreamInv
<1>. QED  BY <1>1, StreamBegins, StreamGoesOn, PTL DEF StreamSpec

\* Neither a BitWriter nor a BitReader leaves its buffer.
THEOREM StreamsStayWithin == StreamSpec => []StreamTypes
BY StreamBegins, StreamGoesOn, StreamTyped, PTL DEF StreamSpec
================================================================================
