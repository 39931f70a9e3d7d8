------------------------------ MODULE FrameRelay ------------------------------
(***************************************************************************)
(* Cleartext frames over TCP: `airbot net-send` and a network of `airbot   *)
(* relay` processes (netcmd.c, transport.c). Each relay serves one         *)
(* connection at a time; a frame with hops left goes on to the relay's     *)
(* --next, in a connection of its own, any other is reported there. Other  *)
(* programs can connect and write what they like; anyone can stop writing  *)
(* in the middle.                                                          *)
(*                                                                         *)
(* A connection holds the frame its writer sets out to send and how much   *)
(* of it was written. A digest is the payload it was computed from.        *)
(***************************************************************************)
EXTENDS Integers, Sequences, FiniteSets

CONSTANTS
  Relays, Clients,
  Requested,      \* the processes started with AIRBOT_PRIVACY=1
  Nexts,          \* what the relays may have as --next
  Wants,          \* and as --count
  NoNext,         \* no --next
  Garbled,        \* a --next without a port
  Sends,          \* for each client, the frames it may send, before any relay
  Backlog,        \* the connections that can wait: 8
  HeaderSize, DigestSize, MaxPayload

ASSUME FrameAssumption ==
  /\ Relays \cap Clients = {} /\ Requested \subseteq Relays \cup Clients
  /\ NoNext \notin Relays /\ Garbled \notin Relays \cup {NoNext}
  /\ Nexts \subseteq [Relays -> Relays \cup {NoNext, Garbled}]
  /\ Wants \subseteq [Relays -> Int]
  /\ \A c \in Clients : \A f \in Sends[c] : f.magic \in BOOLEAN /\ f.hops \in Int /\ f.length \in Nat
  /\ Backlog \in Nat /\ HeaderSize \in Nat \ {0} /\ DigestSize \in Nat \ {0} /\ MaxPayload \in Nat

VARIABLES
  conns,      \* the connections in the order of their dials; their frames
              \* carry a history: who sent them, with how many hops and for
              \* which digest, and how many relays they have crossed
  client,     \* what each client does: "start", "send", "done" or "failed"
  relay,      \* and each relay: "start", "accept", "header", "body",
              \* "handle", "dial", "forward", "close" or "down"
  served,     \* its count of connections
  peer,       \* its peer, an index of conns,
  frame,      \* the frame it has read, once "handle" is reached
  fwd,        \* its connection to the next relay, while it forwards
  next, want, \* its arguments
  reports     \* history: the frames reported at the end of their way

arguments == <<next, want>>
handling == <<served, peer, frame, fwd>>
vars == <<conns, client, relay, handling, arguments, reports>>

Processes == Relays \cup Clients

\* The bytes of a frame on the wire.
Total(f) == HeaderSize + f.length + DigestSize

Init ==
  /\ conns = <<>> /\ reports = <<>>
  /\ client = [c \in Clients |-> "start"]
  /\ relay = [r \in Relays |-> "start"]
  /\ served = [r \in Relays |-> 0]
  /\ peer = [r \in Relays |-> 0] /\ fwd = [r \in Relays |-> 0]
  /\ frame = [r \in Relays |-> <<>>]
  /\ next \in Nexts /\ want \in Wants

Goes(r, place) == relay' = [relay EXCEPT ![r] = place]

-----------------------------------------------------------------------------
Waiting(r) == {i \in 1 .. Len(conns) : conns[i].to = r /\ conns[i].state = "queued"}

Listening(r) == relay[r] \notin {"start", "down"}

\* The system takes a connection while the relay listens, whatever the relay
\* is doing.
CanDial(r) == Listening(r) /\ Cardinality(Waiting(r)) < Backlog

Connection(p, r, f) == [from |-> p, to |-> r, frame |-> f, sent |-> 0, open |-> TRUE, state |-> "queued"]

\* Its relay is gone: whoever still waits is cut off.
CutOff(r) == [i \in 1 .. Len(conns) |-> IF i \in Waiting(r) THEN [conns[i] EXCEPT !.state = "closed"] ELSE conns[i]]

\* A frame that c sends. A hop count beyond a byte is cut.
Fresh(c, f) ==
  [magic |-> f.magic, hops |-> f.hops % 256, length |-> f.length, payload |-> f.payload,
   digest |-> f.digest, origin |-> c, asked |-> f.hops % 256, meant |-> f.digest, crossed |-> 0]

\* cmd_net_send, or another program: dial.
ClientDial(c) ==
  /\ client[c] = "start" /\ c \notin Requested
  /\ \E r \in Relays, f \in Sends[c] :
       /\ CanDial(r)
       /\ conns' = Append(conns, Connection(c, r, Fresh(c, f)))
  /\ client' = [client EXCEPT ![c] = "send"]
  /\ UNCHANGED <<relay, handling, arguments, reports>>

\* The dial fails, or privacy mode forbids it.
ClientDialFails(c) ==
  /\ client[c] = "start"
  /\ client' = [client EXCEPT ![c] = "failed"]
  /\ UNCHANGED <<conns, relay, handling, arguments, reports>>

\* send takes as much as it likes; send_all goes on.
Send(i) ==
  /\ conns[i].open /\ conns[i].sent < Total(conns[i].frame)
  /\ \E n \in conns[i].sent + 1 .. Total(conns[i].frame) : conns' = [conns EXCEPT ![i].sent = n]
  /\ UNCHANGED <<client, relay, handling, arguments, reports>>

\* The client closes: all was written, or send failed, or it was killed.
ClientCloses(c) ==
  /\ client[c] = "send"
  /\ \E i \in 1 .. Len(conns) :
       /\ conns[i].from = c
       /\ conns' = [conns EXCEPT ![i].open = FALSE]
       /\ client' = [client EXCEPT ![c] =
                       IF conns[i].sent = Total(conns[i].frame) THEN "done" ELSE "failed"]
  /\ UNCHANGED <<relay, handling, arguments, reports>>

-----------------------------------------------------------------------------
\* cmd_relay up to its loop: privacy that was asked for is kept, and binding
\* can fail.
Listen(r) ==
  /\ relay[r] = "start"
  /\ \/ r \notin Requested /\ Goes(r, "accept")
     \/ Goes(r, "down")
  /\ UNCHANGED <<conns, client, handling, arguments, reports>>

Accept(r) ==
  /\ relay[r] = "accept" /\ served[r] < want[r] /\ Waiting(r) # {}
  /\ LET i == CHOOSE i \in Waiting(r) : \A j \in Waiting(r) : i <= j IN
     /\ conns' = [conns EXCEPT ![i].state = "accepted"]
     /\ peer' = [peer EXCEPT ![r] = i]
  /\ Goes(r, "header")
  /\ UNCHANGED <<client, served, frame, fwd, arguments, reports>>

\* The count is reached, or accept fails: the relay ends.
Quit(r) ==
  /\ relay[r] = "accept"
  /\ conns' = CutOff(r)
  /\ Goes(r, "down")
  /\ UNCHANGED <<client, handling, arguments, reports>>

Peer(r) == conns[peer[r]]

\* recv_all and the header's tests.
RecvHeader(r) ==
  /\ relay[r] = "header" /\ Peer(r).sent >= HeaderSize
  /\ Goes(r, IF Peer(r).frame.magic /\ Peer(r).frame.length <= MaxPayload THEN "body" ELSE "close")
  /\ UNCHANGED <<conns, client, handling, arguments, reports>>

\* Seeded fault: the digest is not compared.
RecvFrameUnchecked(r) ==
  /\ relay[r] = "body" /\ Peer(r).sent >= Total(Peer(r).frame)
  /\ frame' = [frame EXCEPT ![r] = Peer(r).frame]
  /\ Goes(r, "handle")
  /\ UNCHANGED <<conns, client, served, peer, fwd, arguments, reports>>

\* The payload and the digest have arrived.
RecvFrame(r) ==
  /\ relay[r] = "body" /\ Peer(r).sent >= Total(Peer(r).frame)
  /\ IF Peer(r).frame.digest = Peer(r).frame.payload
     THEN frame' = [frame EXCEPT ![r] = Peer(r).frame] /\ Goes(r, "handle")
     ELSE Goes(r, "close") /\ UNCHANGED frame
  /\ UNCHANGED <<conns, client, served, peer, fwd, arguments, reports>>

\* The peer has closed, and what it wrote does not suffice.
RecvFails(r) ==
  /\ relay[r] \in {"header", "body"} /\ ~ Peer(r).open
  /\ Peer(r).sent < (IF relay[r] = "header" THEN HeaderSize ELSE Total(Peer(r).frame))
  /\ Goes(r, "close")
  /\ UNCHANGED <<conns, client, handling, arguments, reports>>

\* Seeded fault: the hops are not looked at.
ForwardsForever(r) == next[r] # NoNext

Forwards(r) == next[r] # NoNext /\ frame[r].hops > 0

\* Seeded fault: a frame that is forwarded is reported as well.
HandleReportsAlways(r) ==
  /\ relay[r] = "handle"
  /\ Goes(r, IF Forwards(r) /\ next[r] # Garbled THEN "dial" ELSE "close")
  /\ reports' = Append(reports, [relay |-> r, frame |-> frame[r]])
  /\ UNCHANGED <<conns, client, handling, arguments>>

\* The frame goes on, or it has arrived. With a --next that has no port it
\* does neither.
Handle(r) ==
  /\ relay[r] = "handle"
  /\ Goes(r, IF Forwards(r) /\ next[r] # Garbled THEN "dial" ELSE "close")
  /\ reports' = IF Forwards(r) THEN reports ELSE Append(reports, [relay |-> r, frame |-> frame[r]])
  /\ UNCHANGED <<conns, client, handling, arguments>>

\* The digest is computed anew, from what the relay has read.
Passed(f) == [f EXCEPT !.hops = (@ - 1) % 256, !.crossed = @ + 1, !.digest = f.payload]

Dial(r) ==
  /\ relay[r] = "dial" /\ CanDial(next[r])
  /\ conns' = Append(conns, Connection(r, next[r], Passed(frame[r])))
  /\ fwd' = [fwd EXCEPT ![r] = Len(conns) + 1]
  /\ Goes(r, "forward")
  /\ UNCHANGED <<client, served, peer, frame, arguments, reports>>

DialFails(r) ==
  /\ relay[r] = "dial"
  /\ Goes(r, "close")
  /\ UNCHANGED <<conns, client, handling, arguments, reports>>

\* transport_send_frame has written everything, or has failed; cmd_relay does
\* not ask which.
Forwarded(r) ==
  /\ relay[r] = "forward"
  /\ conns' = [conns EXCEPT ![fwd[r]].open = FALSE]
  /\ Goes(r, "close")
  /\ UNCHANGED <<client, handling, arguments, reports>>

\* Seeded fault: a connection that fails is not counted.
CloseCountsFrames(r) ==
  /\ relay[r] = "close"
  /\ conns' = [conns EXCEPT ![peer[r]].state = "closed"]
  /\ served' = IF frame[r] = <<>> THEN served ELSE [served EXCEPT ![r] = @ + 1]
  /\ peer' = [peer EXCEPT ![r] = 0] /\ fwd' = [fwd EXCEPT ![r] = 0]
  /\ frame' = [frame EXCEPT ![r] = <<>>]
  /\ Goes(r, "accept")
  /\ UNCHANGED <<client, arguments, reports>>

Close(r) ==
  /\ relay[r] = "close"
  /\ conns' = [conns EXCEPT ![peer[r]].state = "closed"]
  /\ served' = [served EXCEPT ![r] = @ + 1]
  /\ peer' = [peer EXCEPT ![r] = 0] /\ fwd' = [fwd EXCEPT ![r] = 0]
  /\ frame' = [frame EXCEPT ![r] = <<>>]
  /\ Goes(r, "accept")
  /\ UNCHANGED <<client, arguments, reports>>

\* The process is killed.
Killed(r) ==
  /\ Listening(r)
  /\ conns' = [i \in 1 .. Len(conns) |->
                 IF conns[i].from = r THEN [CutOff(r)[i] EXCEPT !.open = FALSE]
                 ELSE IF conns[i].to = r THEN [conns[i] EXCEPT !.state = "closed"] ELSE conns[i]]
  /\ Goes(r, "down")
  /\ UNCHANGED <<client, handling, arguments, reports>>

\* Every process has come to its end.
Finished ==
  /\ \A c \in Clients : client[c] \in {"done", "failed"}
  /\ \A r \in Relays : relay[r] = "down"
  /\ UNCHANGED vars

Next ==
  \/ \E c \in Clients : ClientDial(c) \/ ClientDialFails(c) \/ ClientCloses(c)
  \/ \E i \in 1 .. Len(conns) : Send(i)
  \/ \E r \in Relays :
       \/ Listen(r) \/ Accept(r) \/ Quit(r) \/ RecvHeader(r) \/ RecvFrame(r) \/ RecvFails(r)
       \/ Handle(r) \/ Dial(r) \/ DialFails(r) \/ Forwarded(r) \/ Close(r) \/ Killed(r)
  \/ Finished

Spec == Init /\ [][Next]_vars

-----------------------------------------------------------------------------
\* Types, and: a relay has at most one connection in hand and its count is
\* that of the connections it is through with; nobody listens in privacy mode.
TypeOK ==
  /\ \A i \in 1 .. Len(conns) :
       /\ conns[i].from \in Processes /\ conns[i].to \in Relays
       /\ conns[i].sent \in 0 .. Total(conns[i].frame) /\ conns[i].frame.hops \in 0 .. 255
       /\ conns[i].state \in {"queued", "accepted", "closed"}
  /\ client \in [Clients -> {"start", "send", "done", "failed"}]
  /\ relay \in [Relays -> {"start", "accept", "header", "body", "handle", "dial", "forward",
                          "close", "down"}]
  /\ \A r \in Relays :
       LET mine == {i \in 1 .. Len(conns) : conns[i].to = r} IN
       /\ Listening(r) => r \notin Requested
       /\ served[r] \in 0 .. Len(conns) /\ (want[r] >= 0 => served[r] <= want[r])
       /\ Cardinality(Waiting(r)) <= Backlog
       /\ Listening(r) => /\ served[r] = Cardinality({i \in mine : conns[i].state = "closed"})
                          /\ {i \in mine : conns[i].state = "accepted"} =
                               IF relay[r] = "accept" THEN {} ELSE {peer[r]}

\* What is reported or passed on is what was sent, although connections break
\* and every relay computes the digest anew: the payload is the one the first
\* sender's digest is for, and the hops that are left and the relays that were
\* crossed add up to the hops it asked for, round any ring of relays. A frame has
\* one copy under way and one end: it is reported once.
FramesAreAsSent ==
  LET AsSent(f) == f.payload = f.meant /\ f.hops + f.crossed = f.asked IN
  /\ \A i \in 1 .. Len(reports) : AsSent(reports[i].frame)
  /\ \A i \in 1 .. Len(conns) : conns[i].from \in Relays => AsSent(conns[i].frame)
  /\ \A i, j \in 1 .. Len(reports) :
        reports[i].frame.origin = reports[j].frame.origin => i = j
=============================================================================
