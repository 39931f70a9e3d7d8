----------------------------- MODULE Policy_proofs ----------------------------
(***************************************************************************)
(* The two programs that run behind the policy gate.                       *)
(*                                                                         *)
(* NetClient: what privacy mode promises of a network command, proved for  *)
(* every set of hosts, ports and proxies and every failure the network may *)
(* choose. The mode is settled in the first step of a command, before any  *)
(* socket is open; after it each place of the program has one mode         *)
(* (RoleFits) and holds the sockets of one role (HoldsItsRole), and the    *)
(* places behind the preflight are reached only by the proxy it vetted     *)
(* (VettedBehind).                                                         *)
(*                                                                         *)
(* LiveTest: the verdict of the live test, proved for a chain of any       *)
(* length. What the main thread reads of unlocked contexts is enough,      *)
(* because a payload comes out of the exit only when every relay before it *)
(* has peeled. Each relay's place in relay_thread fixes what its context   *)
(* and the links hold (FrontPeeled, FlagsFitPlace); the main thread knows  *)
(* at each of its places what its checks have established (VerdictSoFar).  *)
(***************************************************************************)
EXTENDS NetClient, LiveTest, TLAPS

PrivacySteps ==
  {"vet", "probe", "probed", "connect", "circuit", "request", "reply", "bound", "stream"}
RelaySteps == {"serve", "frame", "forward"}

\* Each place of the program has its mode.
RoleFits ==
  /\ pc = "exchange" => mode # "privacy"
  /\ pc \in RelaySteps => mode # "privacy"
  /\ pc \in PrivacySteps => mode = "privacy"

\* The kinds of sockets a command may hold where it is.
RoleKinds ==
  IF pc = "exchange" THEN {"direct"}
  ELSE IF pc = "serve" THEN {"listener"}
  ELSE IF pc = "frame" THEN {"listener", "peer"}
  ELSE IF pc = "forward" THEN {"listener", "peer", "forward"}
  ELSE IF pc = "probed" THEN {"probe"}
  ELSE IF pc \in {"circuit", "request", "reply", "bound", "stream"} THEN {"tor"}
  ELSE {}

HoldsItsRole == \A s \in open : s.kind \in RoleKinds

\* Before the preflight nothing is validated, behind it the proxy is vetted.
VettedBehind ==
  /\ pc \in {"start", "vet"} => ~ validated
  /\ pc \in {"connect", "circuit", "request", "reply", "bound", "stream"} =>
       validated /\ vetted = proxy

\* No name has been looked up before the mode is settled.
StartsClean == pc = "start" => counters.local_dns_performed = 0

\* A connection in service leaves room for its count.
RoomToServe == pc \in {"frame", "forward"} => served < Want

IInv ==
  /\ TypeOK /\ RequestedIsKept /\ OnlyProxySockets /\ NoLocalLookup
  /\ RoleFits /\ HoldsItsRole /\ VettedBehind /\ StartsClean /\ RoomToServe

-----------------------------------------------------------------------------
\* Authorizing a dial counts, and counts no lookup.
LEMMA CountDialFacts ==
  ASSUME NEW c \in Counters, NEW host, NEW viaProxy
  PROVE  /\ CountDial(c, host, viaProxy) \in Counters
         /\ CountDial(c, host, viaProxy).local_dns_performed = c.local_dns_performed
BY DEF CountDial, Counters

\* A dial keeps the counters counters.
LEMMA DialCountersType ==
  ASSUME NEW c \in Counters, NEW host, NEW viaProxy
  PROVE  DialCounters(c, host, viaProxy) \in Counters
BY CountDialFacts DEF DialCounters, Counters

\* In privacy mode a dial looks up no name, whatever the host.
LEMMA PrivacyLooksNothingUp ==
  ASSUME NEW c \in Counters, NEW host, NEW viaProxy, mode = "privacy"
  PROVE  DialCounters(c, host, viaProxy).local_dns_performed = c.local_dns_performed
<1>1. AuthorizeDns(host) = "ok" => host \in Literal
  BY DEF AuthorizeDns
<1> QED
  BY <1>1, CountDialFacts DEF DialCounters, Counters

\* Both calls of the gate on the way to the proxy.
LEMMA HopCountersFacts ==
  ASSUME NEW c \in Counters
  PROVE  /\ HopCounters(c) \in Counters
         /\ mode = "privacy" =>
              HopCounters(c).local_dns_performed = c.local_dns_performed
<1> DEFINE asked == CountDial(c, proxy.host, TRUE)
           dialled == DialCounters(asked, proxy.host, TRUE)
<1>1. asked \in Counters /\ asked.local_dns_performed = c.local_dns_performed
  BY CountDialFacts, Zenon
<1>2. dialled \in Counters
  <2> HIDE DEF asked
  <2> QED
    BY <1>1, DialCountersType, Zenon
<1>3. mode = "privacy" => dialled.local_dns_performed = asked.local_dns_performed
  <2> HIDE DEF asked
  <2> QED
    BY <1>1, PrivacyLooksNothingUp, Zenon
<1>4. HopCounters(c) \in {asked, dialled}
  BY Zenon DEF HopCounters
<1> QED
  <2> HIDE DEF asked, dialled
  <2> QED
    BY <1>1, <1>2, <1>3, <1>4

\* What privacy mode permits at all: a dial through the proxy, to a loopback
\* literal.
LEMMA PrivacyDial ==
  ASSUME NEW host, NEW viaProxy, mode = "privacy", DialPermitted(host, viaProxy)
  PROVE  viaProxy /\ host \in Loopback \cap Literal
BY DEF DialPermitted, AuthorizeDial, AuthorizeDns

\* A successful dial was permitted.
LEMMA DialSucceeds ==
  ASSUME NEW host, NEW viaProxy, "ok" \in DialResults(host, viaProxy)
  PROVE  DialPermitted(host, viaProxy)
BY DEF DialResults

LEMMA InitHolds == Init => IInv
<1> SUFFICES ASSUME Init PROVE IInv
  OBVIOUS
<1>1. TypeOK
  <2>1. ZeroCounters \in Counters
    BY DEF ZeroCounters, Counters
  <2>2. mode \in Modes /\ validated \in BOOLEAN /\ proxy \in Proxies
    BY HostAssumption DEF Init, InitFromEnv, Modes, Flags
  <2>3. requested \in BOOLEAN /\ counters \in Counters
    BY <2>1 DEF Init, InitFromEnv
  <2>4. target \in Hosts \cup {NoNext} /\ flag \in Flags
    BY DEF Init, Flags
  <2> QED
    BY <2>2, <2>3, <2>4, ClientAssumption DEF TypeOK, Init, ProbeResults
<1>2. RequestedIsKept
  BY DEF Init, InitFromEnv, RequestedIsKept
<1>3. OnlyProxySockets /\ HoldsItsRole
  BY DEF Init, OnlyProxySockets, HoldsItsRole
<1>4. NoLocalLookup /\ StartsClean
  BY DEF Init, InitFromEnv, ZeroCounters, NoLocalLookup, StartsClean
<1>5. RoleFits /\ RoomToServe
  BY DEF Init, RoleFits, RoomToServe, RelaySteps, PrivacySteps
<1>6. VettedBehind
  BY DEF Init, InitFromEnv, VettedBehind
<1> QED
  BY <1>1, <1>2, <1>3, <1>4, <1>5, <1>6 DEF IInv

-----------------------------------------------------------------------------
Sockets == [kind : Kinds, host : Hosts \cup {NoNext}]

\* A socket of a host or of none, opened or closed, leaves sockets.
LEMMA SocketFacts ==
  /\ \A kind \in Kinds, host \in Hosts \cup {NoNext} :
       open \subseteq Sockets => open \cup {Socket(kind, host)} \subseteq Sockets
  /\ \A kind : open \subseteq Sockets => Close(kind) \subseteq Sockets
BY DEF Sockets, Socket, Close

LEMMA DirectDialStep ==
  ASSUME IInv, DirectDial
  PROVE  IInv'
<1> USE DEF IInv, DirectDial
<1>0. counters' \in Counters
  BY DialCountersType DEF TypeOK
<1>1. TypeOK'
  <2>1. open' \subseteq Sockets
    <3>1. open \subseteq Sockets /\ target \in Hosts \cup {NoNext}
      BY DEF TypeOK, Sockets
    <3>2. open' \in {open, open \cup {Socket("direct", target)}}
      OBVIOUS
    <3> QED
      BY <3>1, <3>2, SocketFacts DEF Kinds
  <2> QED
    BY <1>0, <2>1 DEF TypeOK, Sockets, Goto, End, commandLine
<1>2. pc' = "exchange" => mode # "privacy"
  BY PrivacyDial, DialSucceeds DEF Goto, End
<1>3. RequestedIsKept' /\ RoleFits' /\ VettedBehind' /\ StartsClean' /\ RoomToServe'
  BY <1>2 DEF RequestedIsKept, RoleFits, VettedBehind, StartsClean, RoomToServe, Goto, End,
     PrivacySteps, RelaySteps
<1>4. open = {}
  BY DEF HoldsItsRole, RoleKinds
<1>5. OnlyProxySockets' /\ HoldsItsRole'
  BY <1>2, <1>4 DEF OnlyProxySockets, HoldsItsRole, RoleKinds, Goto, End, Socket
<1>6. NoLocalLookup'
  BY PrivacyLooksNothingUp DEF NoLocalLookup, TypeOK
<1> QED
  BY <1>1, <1>3, <1>5, <1>6

LEMMA DirectExchangeStep ==
  ASSUME IInv, DirectExchange
  PROVE  IInv'
<1> USE DEF IInv, DirectExchange
<1>1. open' = {}
  BY DEF HoldsItsRole, RoleKinds, Close
<1>2. TypeOK'
  BY <1>1 DEF TypeOK, Goto, End, policyVars, commandLine
<1>3. RequestedIsKept' /\ RoleFits' /\ VettedBehind' /\ StartsClean' /\ RoomToServe'
  BY DEF RequestedIsKept, RoleFits, VettedBehind, StartsClean, RoomToServe, End,
     policyVars, PrivacySteps, RelaySteps
<1>4. OnlyProxySockets' /\ HoldsItsRole' /\ NoLocalLookup'
  BY <1>1 DEF OnlyProxySockets, HoldsItsRole, NoLocalLookup, policyVars
<1> QED
  BY <1>2, <1>3, <1>4

LEMMA RelayStartStep ==
  ASSUME IInv, RelayStart
  PROVE  IInv'
<1> USE DEF IInv, RelayStart
<1>1. open = {}
  BY DEF HoldsItsRole, RoleKinds
<1>2. TypeOK'
  <2>1. open' \subseteq Sockets
    <3>1. open \subseteq Sockets
      BY DEF TypeOK, Sockets
    <3>2. open' \in {open, open \cup {Socket("listener", NoNext)}}
      BY DEF Nowhere
    <3> QED
      BY <3>1, <3>2, SocketFacts DEF Kinds
  <2> QED
    BY <2>1 DEF TypeOK, Sockets, Goto, End, commandLine, SetMode, Modes
<1>3. RequestedIsKept' /\ RoleFits' /\ VettedBehind' /\ StartsClean' /\ RoomToServe'
  BY DEF RequestedIsKept, RoleFits, VettedBehind, StartsClean, RoomToServe, Goto, End,
     SetMode, PrivacySteps, RelaySteps
<1>4. OnlyProxySockets' /\ HoldsItsRole'
  BY <1>1 DEF OnlyProxySockets, HoldsItsRole, RoleKinds, Goto, End, SetMode, Socket
<1>5. NoLocalLookup'
  BY DEF NoLocalLookup, SetMode
<1> QED
  BY <1>2, <1>3, <1>4, <1>5

\* A step of the relay that is running: the mode is not privacy and stays so.
LEMMA RelayRuns ==
  ASSUME IInv, RelayAccept \/ RelayKeep \/ RelayForward \/ RelaySend \/ RelayEnd
  PROVE  /\ RequestedIsKept' /\ OnlyProxySockets' /\ NoLocalLookup'
         /\ RoleFits' /\ VettedBehind' /\ StartsClean'
<1>1. /\ mode # "privacy" /\ mode' = mode
      /\ requested' = requested
      /\ pc' \in RelaySteps \cup {"end"}
  BY DEF IInv, RoleFits, RelaySteps, policyVars, Goto, End,
     RelayAccept, RelayKeep, RelayForward, RelaySend, RelayEnd
<1> QED
  BY <1>1 DEF IInv, RequestedIsKept, OnlyProxySockets, NoLocalLookup, RoleFits, VettedBehind,
     StartsClean, RelaySteps, PrivacySteps

\* The connection in service can be counted.
LEMMA RoomLeft ==
  ASSUME IInv, pc \in {"frame", "forward"}
  PROVE  served \in 0 .. Want /\ served + 1 \in 0 .. Want
<1>1. served \in 0 .. Want /\ served < Want
  BY DEF IInv, TypeOK, RoomToServe
<1> QED
  BY <1>1, ClientAssumption

LEMMA RelayAcceptStep ==
  ASSUME IInv, RelayAccept
  PROVE  IInv'
<1>1. TypeOK'
  <2>1. open' \subseteq Sockets
    <3>1. open \subseteq Sockets
      BY DEF IInv, TypeOK, Sockets
    <3>2. open' \in {open \cup {Socket("peer", NoNext)}, Close("listener")}
      BY DEF RelayAccept, Nowhere
    <3> QED
      BY <3>1, <3>2, SocketFacts DEF Kinds
  <2> QED
    BY <2>1 DEF IInv, RelayAccept, TypeOK, Sockets, Goto, End, policyVars, commandLine
<1>2. HoldsItsRole'
  BY DEF IInv, RelayAccept, HoldsItsRole, RoleKinds, Goto, End, Close, Socket
<1>3. RoomToServe'
  BY DEF IInv, RelayAccept, RoomToServe, Goto, End
<1> QED
  BY <1>1, <1>2, <1>3, RelayRuns DEF IInv

LEMMA RelayKeepStep ==
  ASSUME IInv, RelayKeep
  PROVE  IInv'
<1>1. TypeOK'
  <2>1. open' \subseteq Sockets
    BY SocketFacts DEF IInv, RelayKeep, TypeOK, Sockets
  <2>2. served' \in 0 .. Want
    BY RoomLeft DEF RelayKeep
  <2> QED
    BY <2>1, <2>2 DEF IInv, RelayKeep, TypeOK, Sockets, Goto, policyVars, commandLine
<1>2. HoldsItsRole'
  BY DEF IInv, RelayKeep, HoldsItsRole, RoleKinds, Goto, Close
<1>3. RoomToServe'
  BY DEF RelayKeep, RoomToServe, Goto
<1> QED
  BY <1>1, <1>2, <1>3, RelayRuns DEF IInv

LEMMA RelayForwardStep ==
  ASSUME IInv, RelayForward
  PROVE  IInv'
<1>1. TypeOK'
  <2>1. open' \subseteq Sockets
    <3>1. open \subseteq Sockets /\ target \in Hosts \cup {NoNext}
      BY DEF IInv, TypeOK, Sockets
    <3>2. open' \in {open \cup {Socket("forward", target)}, Close("peer")}
      BY DEF RelayForward
    <3> QED
      BY <3>1, <3>2, SocketFacts DEF Kinds
  <2>2. served' \in 0 .. Want
    BY RoomLeft DEF RelayForward
  <2>3. counters' \in Counters
    BY DialCountersType DEF IInv, RelayForward, TypeOK
  <2> QED
    BY <2>1, <2>2, <2>3 DEF IInv, RelayForward, TypeOK, Sockets, Goto, commandLine
<1>2. HoldsItsRole'
  BY DEF IInv, RelayForward, HoldsItsRole, RoleKinds, Goto, Close, Socket
<1>3. RoomToServe'
  BY DEF IInv, RelayForward, RoomToServe, Goto
<1> QED
  BY <1>1, <1>2, <1>3, RelayRuns DEF IInv

LEMMA RelaySendStep ==
  ASSUME IInv, RelaySend
  PROVE  IInv'
<1>1. TypeOK'
  <2>1. open' \subseteq Sockets
    BY DEF IInv, RelaySend, TypeOK, Sockets
  <2>2. served' \in 0 .. Want
    BY RoomLeft DEF RelaySend
  <2> QED
    BY <2>1, <2>2 DEF IInv, RelaySend, TypeOK, Sockets, Goto, policyVars, commandLine
<1>2. HoldsItsRole'
  BY DEF IInv, RelaySend, HoldsItsRole, RoleKinds, Goto
<1>3. RoomToServe'
  BY DEF RelaySend, RoomToServe, Goto
<1> QED
  BY <1>1, <1>2, <1>3, RelayRuns DEF IInv

LEMMA RelayEndStep ==
  ASSUME IInv, RelayEnd
  PROVE  IInv'
<1>1. TypeOK'
  <2>1. open' \subseteq Sockets
    BY SocketFacts DEF IInv, RelayEnd, TypeOK, Sockets
  <2> QED
    BY <2>1 DEF IInv, RelayEnd, TypeOK, Sockets, End, policyVars, commandLine
<1>2. HoldsItsRole'
  BY DEF IInv, RelayEnd, HoldsItsRole, RoleKinds, End, Close
<1>3. RoomToServe'
  BY DEF RelayEnd, RoomToServe, End
<1> QED
  BY <1>1, <1>2, <1>3, RelayRuns DEF IInv

-----------------------------------------------------------------------------
LEMMA PrivacyStartStep ==
  ASSUME IInv, PrivacyStart
  PROVE  IInv'
<1> USE DEF IInv, PrivacyStart, EnterPrivacy
<1>1. open = {} /\ open' = {} /\ pc' = "vet" /\ mode' = "privacy"
  BY DEF HoldsItsRole, RoleKinds, Goto
<1>2. counters' \in Counters /\ counters'.local_dns_performed = 0
  BY DEF TypeOK, StartsClean, ZeroCounters, Counters
<1>3. ~ validated'
  BY DEF VettedBehind, ValidatedAfter
<1>4. TypeOK'
  BY <1>1, <1>2, <1>3 DEF TypeOK, Goto, commandLine, ProxyAfter, Modes, Flags
<1>5. RequestedIsKept' /\ RoleFits' /\ VettedBehind' /\ StartsClean' /\ RoomToServe'
  BY <1>1, <1>3 DEF RequestedIsKept, RoleFits, VettedBehind, StartsClean, RoomToServe,
     PrivacySteps, RelaySteps
<1>6. OnlyProxySockets' /\ HoldsItsRole' /\ NoLocalLookup'
  BY <1>1, <1>2 DEF OnlyProxySockets, HoldsItsRole, NoLocalLookup
<1> QED
  BY <1>4, <1>5, <1>6

\* The end of a preflight keeps what the invariant says of the proxy, as long
\* as it leaves no socket behind.
LEMMA ConcludeFacts ==
  ASSUME IInv, mode = "privacy", NEW probe \in ProbeResults, Conclude(probe),
         UNCHANGED <<mode, proxy, requested>>
  PROVE  /\ validated' \in BOOLEAN /\ told' \in {"ok", "no tor", "not socks"}
         /\ probed' \in ProbeResults /\ vetted' \in {NoFlag} \cup Proxies
         /\ pc' \in {"end", "connect"} /\ result' \in {"running", "success", "failure"}
         /\ RequestedIsKept' /\ RoleFits' /\ VettedBehind' /\ StartsClean' /\ RoomToServe'
<1>1. /\ validated' \in BOOLEAN /\ told' \in {"ok", "no tor", "not socks"}
      /\ probed' \in ProbeResults /\ vetted' \in {NoFlag} \cup Proxies
      /\ result' \in {"running", "success", "failure"}
  BY DEF IInv, TypeOK, Conclude, PreflightOk, PreflightCode, End, Goto
<1>2. \/ pc' = "end"
      \/ pc' = "connect" /\ validated' /\ vetted' = proxy
  BY DEF Conclude, PreflightOk, End, Goto
<1>3. RequestedIsKept' /\ RoleFits' /\ VettedBehind' /\ StartsClean' /\ RoomToServe'
  BY <1>2 DEF IInv, RequestedIsKept, RoleFits, VettedBehind, StartsClean, RoomToServe,
     PrivacySteps, RelaySteps
<1> QED
  BY <1>1, <1>2, <1>3

LEMMA PreflightStep ==
  ASSUME IInv, Preflight
  PROVE  IInv'
<1>1. mode = "privacy" /\ ~ validated /\ open = {} /\ pc = "vet"
  BY DEF IInv, Preflight, RoleFits, PrivacySteps, VettedBehind, HoldsItsRole, RoleKinds
<1>2. OnlyProxySockets' /\ HoldsItsRole' /\ NoLocalLookup'
  BY <1>1 DEF IInv, Preflight, OnlyProxySockets, HoldsItsRole, NoLocalLookup
<1>3. CASE Conclude("config")
  <2>1. UNCHANGED <<mode, proxy, requested>> /\ "config" \in ProbeResults
    BY DEF Preflight, ProbeResults
  <2>2. TypeOK'
    BY <1>1, <1>3, <2>1, ConcludeFacts DEF IInv, Preflight, TypeOK, commandLine
  <2> QED
    BY <1>1, <1>2, <1>3, <2>1, <2>2, ConcludeFacts DEF IInv
<1>4. CASE Goto("probe") /\ UNCHANGED <<validated, told, probed, vetted>>
  <2>1. TypeOK'
    BY <1>4 DEF IInv, Preflight, TypeOK, commandLine, Goto
  <2>2. RequestedIsKept' /\ RoleFits' /\ VettedBehind' /\ StartsClean' /\ RoomToServe'
    BY <1>1, <1>4 DEF IInv, Preflight, RequestedIsKept, RoleFits, VettedBehind, StartsClean,
       RoomToServe, PrivacySteps, RelaySteps, Goto
  <2> QED
    BY <1>2, <2>1, <2>2 DEF IInv
<1> QED
  BY <1>1, <1>3, <1>4 DEF Preflight

LEMMA ProbeDialStep ==
  ASSUME IInv, ProbeDial
  PROVE  IInv'
<1>1. mode = "privacy" /\ mode' = mode /\ open = {} /\ UNCHANGED <<proxy, requested>>
  BY DEF IInv, ProbeDial, RoleFits, PrivacySteps, HoldsItsRole, RoleKinds
<1>2. /\ counters' \in Counters
      /\ counters'.local_dns_performed = counters.local_dns_performed
  BY <1>1, HopCountersFacts DEF IInv, ProbeDial, TypeOK
<1>3. NoLocalLookup'
  BY <1>1, <1>2 DEF IInv, NoLocalLookup
<1>4. PICK r \in DialResults(proxy.host, TRUE) :
        IF r = "ok"
        THEN /\ open' = open \cup {Socket("probe", proxy.host)}
             /\ Goto("probed")
             /\ UNCHANGED <<validated, told, probed, vetted>>
        ELSE /\ open' = open
             /\ Conclude(IF r = "policy" THEN "policy" ELSE "connect")
  BY DEF ProbeDial
<1>5. CASE r = "ok"
  <2>1. open' = {Socket("probe", proxy.host)} /\ proxy.host \in Loopback \cap Literal
    BY <1>1, <1>4, <1>5, PrivacyDial, DialSucceeds
  <2>2. OnlyProxySockets' /\ HoldsItsRole'
    BY <1>1, <1>4, <1>5, <2>1 DEF OnlyProxySockets, HoldsItsRole, RoleKinds, Goto, Socket
  <2>3. open' \subseteq Sockets
    BY <2>1, HostAssumption DEF Sockets, Socket, Kinds
  <2>4. TypeOK'
    BY <1>2, <1>4, <1>5, <2>3 DEF IInv, ProbeDial, TypeOK, Sockets, Goto, commandLine
  <2>5. RequestedIsKept' /\ RoleFits' /\ VettedBehind' /\ StartsClean' /\ RoomToServe'
    BY <1>1, <1>4, <1>5 DEF IInv, RequestedIsKept, RoleFits, VettedBehind, StartsClean,
       RoomToServe, PrivacySteps, RelaySteps, Goto
  <2> QED
    BY <1>3, <2>2, <2>4, <2>5 DEF IInv
<1>6. CASE r # "ok"
  <2>1. PICK probe \in ProbeResults : Conclude(probe)
    BY <1>4, <1>6 DEF ProbeResults
  <2>2. open' = {}
    BY <1>1, <1>4, <1>6
  <2>3. TypeOK'
    BY <1>1, <1>2, <2>1, <2>2, ConcludeFacts DEF IInv, ProbeDial, TypeOK, commandLine
  <2>4. OnlyProxySockets' /\ HoldsItsRole'
    BY <2>2 DEF OnlyProxySockets, HoldsItsRole
  <2> QED
    BY <1>1, <1>3, <2>1, <2>3, <2>4, ConcludeFacts DEF IInv
<1> QED
  BY <1>5, <1>6

LEMMA ProbeNegotiateStep ==
  ASSUME IInv, ProbeNegotiate
  PROVE  IInv'
<1>1. /\ mode = "privacy" /\ open' = {}
      /\ UNCHANGED <<mode, proxy, requested, counters>>
  BY DEF IInv, ProbeNegotiate, RoleFits, PrivacySteps, HoldsItsRole, RoleKinds, Close
<1>2. PICK probe \in ProbeResults : Conclude(probe)
  BY DEF ProbeNegotiate, ProbeResults
<1>3. TypeOK'
  BY <1>1, <1>2, ConcludeFacts DEF IInv, ProbeNegotiate, TypeOK, commandLine
<1>4. OnlyProxySockets' /\ HoldsItsRole' /\ NoLocalLookup'
  BY <1>1 DEF IInv, OnlyProxySockets, HoldsItsRole, NoLocalLookup
<1> QED
  BY <1>1, <1>2, <1>3, <1>4, ConcludeFacts DEF IInv

LEMMA ConnectDialStep ==
  ASSUME IInv, ConnectDial
  PROVE  IInv'
<1>1. mode = "privacy" /\ open = {} /\ validated /\ vetted = proxy /\ pc = "connect"
  BY DEF IInv, ConnectDial, RoleFits, PrivacySteps, HoldsItsRole, RoleKinds, VettedBehind
<1>2. /\ counters' \in Counters
      /\ counters'.local_dns_performed = counters.local_dns_performed
  BY <1>1, HopCountersFacts DEF IInv, ConnectDial, TypeOK
<1>3. \/ open' = {} /\ End("failure")
      \/ /\ open' = {Socket("tor", proxy.host)} /\ Goto("circuit")
         /\ proxy.host \in Loopback \cap Literal
  BY <1>1, PrivacyDial, DialSucceeds DEF ConnectDial
<1>4. TypeOK'
  <2>1. open' \subseteq Sockets
    BY <1>3, HostAssumption DEF Sockets, Socket, Kinds
  <2> QED
    BY <1>2, <1>3, <2>1 DEF IInv, ConnectDial, TypeOK, Sockets, Goto, End, commandLine
<1>5. OnlyProxySockets' /\ HoldsItsRole'
  BY <1>3 DEF ConnectDial, OnlyProxySockets, HoldsItsRole, RoleKinds, Goto, End, Socket
<1>6. RequestedIsKept' /\ RoleFits' /\ VettedBehind' /\ StartsClean' /\ RoomToServe'
  BY <1>1, <1>3 DEF IInv, ConnectDial, RequestedIsKept, RoleFits, VettedBehind, StartsClean,
     RoomToServe, PrivacySteps, RelaySteps, Goto, End
<1>7. NoLocalLookup'
  BY <1>1, <1>2 DEF IInv, ConnectDial, NoLocalLookup
<1> QED
  BY <1>4, <1>5, <1>6, <1>7 DEF IInv

\* From the circuit on a command keeps its socket or closes it.
LEMMA CircuitStep ==
  ASSUME IInv,
         \/ ConnectNegotiate \/ ConnectRequest \/ ConnectReply \/ ConnectBound
         \/ StreamEnd
  PROVE  IInv'
<1> DEFINE CircuitSteps == {"circuit", "request", "reply", "bound", "stream"}
<1>0. /\ pc \in CircuitSteps
      /\ \/ Goto(pc') /\ pc' \in CircuitSteps /\ open' = open
         \/ open' = Close("tor") /\ \E status \in {"success", "failure"} : End(status)
      /\ UNCHANGED <<policyVars, commandLine, served, told, probed, vetted>>
  BY DEF ConnectNegotiate, ConnectRequest, ConnectReply, ConnectBound, CircuitStage, StreamEnd, Goto
<1>1. /\ pc \in CircuitSteps /\ mode = "privacy" /\ validated /\ vetted = proxy
      /\ UNCHANGED <<policyVars, commandLine, served, told, probed, vetted>>
  BY <1>0 DEF IInv, RoleFits, PrivacySteps, VettedBehind
<1>2. \/ open' = {} /\ pc' = "end"
      \/ open' = open /\ pc' \in CircuitSteps
  BY <1>0, <1>1 DEF IInv, HoldsItsRole, RoleKinds, Goto, End, Close
<1>3. TypeOK'
  <2>1. result' \in {"running", "success", "failure"}
    BY <1>0 DEF IInv, TypeOK, Goto, End
  <2> QED
    BY <1>1, <1>2, <2>1 DEF IInv, TypeOK, policyVars, commandLine
<1>4. OnlyProxySockets' /\ HoldsItsRole' /\ NoLocalLookup'
  BY <1>1, <1>2 DEF IInv, OnlyProxySockets, HoldsItsRole, RoleKinds, NoLocalLookup, policyVars
<1>5. RequestedIsKept' /\ RoleFits' /\ VettedBehind' /\ StartsClean' /\ RoomToServe'
  BY <1>1, <1>2 DEF IInv, RequestedIsKept, RoleFits, VettedBehind, StartsClean, RoomToServe,
     PrivacySteps, RelaySteps, policyVars
<1> QED
  BY <1>3, <1>4, <1>5 DEF IInv

LEMMA NextKeeps == IInv /\ [Next]_vars => IInv'
<1> SUFFICES ASSUME IInv, [Next]_vars PROVE IInv'
  OBVIOUS
<1>1. CASE DirectDial       BY <1>1, DirectDialStep
<1>2. CASE DirectExchange   BY <1>2, DirectExchangeStep
<1>3. CASE RelayStart       BY <1>3, RelayStartStep
<1>4. CASE RelayAccept      BY <1>4, RelayAcceptStep
<1>5. CASE RelayKeep        BY <1>5, RelayKeepStep
<1>6. CASE RelayForward     BY <1>6, RelayForwardStep
<1>7. CASE RelaySend        BY <1>7, RelaySendStep
<1>8. CASE RelayEnd         BY <1>8, RelayEndStep
<1>9. CASE PrivacyStart     BY <1>9, PrivacyStartStep
<1>10. CASE Preflight       BY <1>10, PreflightStep
<1>11. CASE ProbeDial       BY <1>11, ProbeDialStep
<1>12. CASE ProbeNegotiate  BY <1>12, ProbeNegotiateStep
<1>13. CASE ConnectDial     BY <1>13, ConnectDialStep
<1>14. CASE ConnectNegotiate \/ ConnectRequest \/ ConnectReply \/ ConnectBound
  BY <1>14, CircuitStep
<1>15. CASE StreamEnd       BY <1>15, CircuitStep
<1>16. CASE UNCHANGED vars
  <2> USE <1>16 DEF IInv, vars, policyVars
  <2>1. TypeOK'
    BY DEF TypeOK
  <2>2. OnlyProxySockets' /\ HoldsItsRole'
    BY DEF OnlyProxySockets, HoldsItsRole, RoleKinds
  <2>3. RequestedIsKept' /\ NoLocalLookup' /\ RoleFits' /\ VettedBehind' /\ StartsClean'
        /\ RoomToServe'
    BY DEF RequestedIsKept, NoLocalLookup, RoleFits, VettedBehind, StartsClean, RoomToServe,
       PrivacySteps, RelaySteps
  <2> QED
    BY <2>1, <2>2, <2>3
<1> QED
  BY <1>1, <1>2, <1>3, <1>4, <1>5, <1>6, <1>7, <1>8, <1>9, <1>10, <1>11, <1>12, <1>13,
     <1>14, <1>15, <1>16 DEF Next, Exited

LEMMA Invariance == Spec => []IInv
BY InitHolds, NextKeeps, PTL DEF Spec

-----------------------------------------------------------------------------
\* The variables keep their types; a relay accepts no more connections than it
\* was asked for (cmd_relay).
THEOREM TypesHold == Spec => []TypeOK
BY Invariance, PTL DEF IInv

\* Whatever the hosts, the proxy given and the failures of the network: in
\* privacy mode a network command holds no socket but one to its proxy, on
\* loopback and named by its address, and transport_dial_ex resolves no name
\* itself: the counter the commands print stays zero.
THEOREM PromiseKept == Spec => []PrivacyPromise
<1>1. IInv => PrivacyPromise
  BY DEF IInv, PrivacyPromise
<1>. QED  BY <1>1, Invariance, PTL

\* No network command leaves a privacy mode the user asked for: cmd_relay
\* refuses, and netpolicy_set_mode is called with no weaker mode elsewhere.
THEOREM PrivacyIsKept == Spec => []RequestedIsKept
BY Invariance, PTL DEF IInv

\* socks5_connect is reached only behind a preflight that has just probed the
\* very proxy in use, and passed.
THEOREM StreamsAreVetted == Spec => []StreamIsVetted
<1>1. IInv => StreamIsVetted
  BY DEF IInv, HoldsItsRole, RoleKinds, VettedBehind, StreamIsVetted
<1> QED
  BY <1>1, Invariance, PTL

\* Every path of every network command closes what it opened.
THEOREM AllClosedAtEnd == Spec => []NothingLeftOpen
<1>1. IInv => NothingLeftOpen
  BY DEF IInv, HoldsItsRole, RoleKinds, NothingLeftOpen
<1> QED
  BY <1>1, Invariance, PTL

-----------------------------------------------------------------------------

\* Nothing reaches relay i before the relay in front of it has peeled.
FrontPeeled ==
  \A i \in Relays : i > 1 =>
    /\ link[i] # "none" => i - 1 \in peeled
    /\ relay[i] \in {"receive", "measure", "open", "lookup", "record"} => i - 1 \in peeled

\* What one relay has done and says of it, by its place.
Fits(i) ==
  /\ relay[i] \in {"none", "listen", "unheard", "unmet", "closed", "ended"} => ~ listening[i]
  /\ relay[i] \in {"result", "flag", "payload", "authorize", "forward"} => i \in peeled
  /\ relay[i] \in {"close", "closed", "ended"} /\ peelRc[i] = "ok" => i \in peeled
  /\ done[i] => relay[i] \in {"unheard", "unmet", "ended"}
  /\ gotPayload[i] => i \in peeled

FlagsFitPlace == \A i \in Relays : Fits(i)

\* The relays that have peeled are the first ones of the chain.
PrefixPeeled == \A i \in peeled : 1 .. i \subseteq peeled

\* Main has started the threads, or none of them has begun.
NotStarted == main = "start" => \A i \in Relays : relay[i] = "none"

\* Once main has read the payload, an unfailed test has seen it at the exit.
VerdictSoFar ==
  main \in {"links", "reopen", "lookup", "record", "privacy", "refused", "join", "returned"} /\ ~ failed
    => gotPayload[N]

TestIInv ==
  /\ TestTypes /\ FrontPeeled /\ FlagsFitPlace /\ PrefixPeeled /\ NotStarted /\ VerdictSoFar

-----------------------------------------------------------------------------
\* A dial keeps the counters counters.
LEMMA DialCountersKept ==
  ASSUME NEW c \in Counters, NEW host, NEW viaProxy
  PROVE  DialCounters(c, host, viaProxy) \in Counters
<1>1. CountDial(c, host, viaProxy) \in Counters
  BY DEF CountDial, Counters
<1> QED
  BY <1>1 DEF DialCounters, Counters

LEMMA DeniedType ==
  ASSUME NEW c \in Counters
  PROVE  [c EXCEPT !.listens_denied = @ + 1] \in Counters
BY DEF Counters

LEMMA TestInitHolds == TestInit => TestIInv
<1> SUFFICES ASSUME TestInit PROVE TestIInv
  OBVIOUS
<1>1. TestTypes
  <2>1. ZeroCounters \in Counters
    BY DEF ZeroCounters, Counters
  <2>2. 1 \in Relays
    BY ChainAssumption DEF Relays
  <2> QED
    BY <2>1, <2>2 DEF TestInit, InitFromEnv, TestTypes, Modes, LinkStates, Captures, Places, MainPlaces
<1>2. FrontPeeled /\ FlagsFitPlace /\ PrefixPeeled /\ NotStarted /\ VerdictSoFar
  BY DEF TestInit, FrontPeeled, FlagsFitPlace, Fits, PrefixPeeled, NotStarted, VerdictSoFar
<1> QED
  BY <1>1, <1>2 DEF TestIInv

-----------------------------------------------------------------------------
\* Types, thread by thread.
LEMMA TypeRelay ==
  ASSUME TestTypes, NEW i \in Relays, Relay(i)
  PROVE  TestTypes'
<1> USE DEF TestTypes, Moves, policyVars, mainVars, ctx, wires, Places
<1>1. CASE Listen(i)
  <2>1. [counters EXCEPT !.listens_denied = @ + 1] \in Counters
    BY DeniedType
  <2>2. counters' \in Counters
    BY <1>1, <2>1, Zenon DEF Listen
  <2>3. UNCHANGED <<mode, saved, main, at, failed, ctx, bytes, cap, link, seen, peeled>>
    BY <1>1 DEF Listen
  <2>4. \/ /\ relay' = [relay EXCEPT ![i] = "announce"]
           /\ listening' = [listening EXCEPT ![i] = TRUE]
        \/ relay' = [relay EXCEPT ![i] = "unheard"] /\ listening' = listening
    BY <1>1 DEF Listen
  <2> QED  BY <2>2, <2>3, <2>4
<1>2. CASE Announce(i) \/ Accept(i) \/ AcceptFails(i)
  BY <1>2 DEF Announce, Accept, AcceptFails
<1>3. CASE GiveUp(i) \/ NoteFailure(i)
  BY <1>3 DEF GiveUp, NoteFailure
<1>4. CASE Receive(i) \/ Measure(i)
  BY <1>4 DEF Receive, Measure, Captures
<1>5. CASE Open(i) \/ Lookup(i)
  BY <1>5 DEF Open, Lookup
<1>6. CASE Record(i)
  <2>1. seen' \in BOOLEAN
    BY <1>6, Zenon DEF Record
  <2> QED  BY <1>6, <2>1 DEF Record
<1>7. CASE Result(i)
  BY <1>7 DEF Result
<1>8. CASE Flag(i)
  BY <1>8 DEF Flag
<1>9. CASE Payload(i)
  BY <1>9 DEF Payload
<1>10. CASE Authorize(i)
  <2>1. counters' \in Counters
    BY <1>10, DialCountersKept DEF Authorize
  <2> QED  BY <1>10, <2>1 DEF Authorize
<1>11. CASE Forward(i)
  BY <1>11 DEF Forward, LinkStates
<1>12. CASE CloseBoth(i) \/ Finish(i)
  BY <1>12 DEF CloseBoth, Finish
<1> QED
  BY <1>1, <1>2, <1>3, <1>4, <1>5, <1>6, <1>7, <1>8, <1>9, <1>10, <1>11, <1>12 DEF Relay

LEMMA TypeMain ==
  ASSUME TestTypes, MainStep
  PROVE  TestTypes'
<1> USE DEF TestTypes, threads, ctx, wires, policyVars, SetMode, Modes, Check, MainPlaces
<1>1. CASE MainStart
  BY <1>1 DEF MainStart, Places
<1>2. CASE MainReady \/ MainWait
  BY <1>2 DEF MainReady, MainWait
<1>3. CASE MainSend
  <2>1. counters' \in Counters
    BY <1>3, DialCountersKept DEF MainSend
  <2>2. link' \in [Relays -> LinkStates] /\ main' \in {"join", "wait"}
    BY <1>3 DEF MainSend, LinkStates
  <2>3. failed' \in BOOLEAN
    BY <1>3, Zenon DEF MainSend
  <2> QED  BY <1>3, <2>1, <2>2, <2>3 DEF MainSend
<1>4. CASE MainCodes \/ MainFlags \/ MainLinks
  <2>1. \/ at = N /\ at' = 1
        \/ at # N /\ at' = at + 1
    BY <1>4 DEF MainCodes, MainFlags, MainLinks, ReadEach
  <2>2. at' \in Relays
    <3>1. at \in 1 .. N /\ N \in Nat \ {0}
      BY ChainAssumption DEF Relays
    <3> HIDE DEF TestTypes
    <3> QED  BY ONLY <2>1, <3>1 DEF Relays
  <2>3. main' \in {main, "flags", "payload", "reopen"}
    BY <1>4 DEF MainCodes, MainFlags, MainLinks, ReadEach
  <2>4. failed' \in BOOLEAN
    BY <1>4, Zenon DEF MainCodes, MainFlags, MainLinks, ReadEach
  <2>5. UNCHANGED <<policyVars, saved, threads, seen>>
    BY <1>4 DEF MainCodes, MainFlags, MainLinks, ReadEach
  <2> QED  BY <2>2, <2>3, <2>4, <2>5
<1>5. CASE MainPayload \/ MainReopen
  BY <1>5 DEF MainPayload, MainReopen
<1>6. CASE MainLookup \/ MainRecord
  BY <1>6 DEF MainLookup, MainRecord
<1>7. CASE MainPrivacy \/ MainRefused \/ MainJoin
  BY <1>7 DEF MainPrivacy, MainRefused, MainJoin
<1> QED
  BY <1>1, <1>2, <1>3, <1>4, <1>5, <1>6, <1>7 DEF MainStep

-----------------------------------------------------------------------------
\* A relay thread's step changes nothing of the other relays but the link to
\* the next one, and nothing of main.
LEMMA RelayLocal ==
  ASSUME TestTypes, NEW i \in Relays, Relay(i)
  PROVE  /\ main' = main /\ failed' = failed
         /\ relay[i] \notin {"none", "ended"} /\ relay'[i] # "none"
         /\ \A j \in Relays : j # i =>
              /\ relay'[j] = relay[j] /\ done'[j] = done[j] /\ peelRc'[j] = peelRc[j]
              /\ gotPayload'[j] = gotPayload[j] /\ listening'[j] = listening[j]
         /\ \A j \in Relays : link'[j] = link[j] \/ (relay[i] = "forward" /\ j = i + 1)
         /\ peeled' = peeled \/ (relay[i] = "record" /\ peeled' = peeled \cup {i})
         /\ gotPayload'[i] = gotPayload[i] \/ (relay[i] = "payload" /\ gotPayload'[i] = TRUE)
<1>t. /\ relay = [j \in Relays |-> relay[j]] /\ done = [j \in Relays |-> done[j]]
      /\ peelRc = [j \in Relays |-> peelRc[j]] /\ gotPayload = [j \in Relays |-> gotPayload[j]]
      /\ listening = [j \in Relays |-> listening[j]] /\ link = [j \in Relays |-> link[j]]
  BY DEF TestTypes
<1> USE <1>t DEF Moves, mainVars, ctx, wires
<1>1. CASE Listen(i)
  BY <1>1 DEF Listen
<1>2. CASE Announce(i) \/ Accept(i)
  BY <1>2 DEF Announce, Accept
<1>3. CASE AcceptFails(i)
  BY <1>3 DEF AcceptFails
<1>4. CASE GiveUp(i)
  BY <1>4 DEF GiveUp
<1>5. CASE NoteFailure(i)
  BY <1>5 DEF NoteFailure
<1>6. CASE Receive(i) \/ Measure(i)
  BY <1>6 DEF Receive, Measure
<1>7. CASE Open(i)
  BY <1>7 DEF Open
<1>8. CASE Lookup(i)
  BY <1>8 DEF Lookup
<1>9. CASE Record(i)
  BY <1>9 DEF Record
<1>10. CASE Result(i)
  BY <1>10 DEF Result
<1>11. CASE Flag(i)
  BY <1>11 DEF Flag
<1>12. CASE Payload(i)
  BY <1>12 DEF Payload
<1>13. CASE Authorize(i)
  BY <1>13 DEF Authorize
<1>14. CASE Forward(i)
  BY <1>14 DEF Forward
<1>15. CASE CloseBoth(i)
  BY <1>15 DEF CloseBoth
<1>16. CASE Finish(i)
  BY <1>16 DEF Finish
<1> QED
  BY <1>1, <1>2, <1>3, <1>4, <1>5, <1>6, <1>7, <1>8, <1>9, <1>10, <1>11, <1>12, <1>13, <1>14, <1>15,
     <1>16 DEF Relay

\* What a thread says of itself goes on to fit its place.
LEMMA OwnFlagsKept ==
  ASSUME TestTypes, NEW i \in Relays, Fits(i), Relay(i)
  PROVE  Fits(i)'
<1>t. /\ relay = [j \in Relays |-> relay[j]] /\ done = [j \in Relays |-> done[j]]
      /\ peelRc = [j \in Relays |-> peelRc[j]] /\ gotPayload = [j \in Relays |-> gotPayload[j]]
      /\ listening = [j \in Relays |-> listening[j]] /\ cap[i] \in Captures
  BY DEF TestTypes
<1> USE <1>t DEF Fits, Moves, ctx, wires
<1>1. CASE Listen(i)
  BY <1>1 DEF Listen
<1>2. CASE Announce(i) \/ Accept(i)
  BY <1>2 DEF Announce, Accept
<1>3. CASE AcceptFails(i)
  BY <1>3 DEF AcceptFails
<1>4. CASE GiveUp(i)
  BY <1>4 DEF GiveUp
<1>5. CASE NoteFailure(i)
  BY <1>5 DEF NoteFailure
<1>6. CASE Receive(i) \/ Measure(i)
  BY <1>6 DEF Receive, Measure
<1>7. CASE Open(i)
  BY <1>7 DEF Open, Captures
<1>8. CASE Lookup(i)
  BY <1>8 DEF Lookup
<1>9. CASE Record(i)
  BY <1>9 DEF Record
<1>10. CASE Result(i)
  BY <1>10 DEF Result
<1>11. CASE Flag(i)
  BY <1>11 DEF Flag
<1>12. CASE Payload(i)
  BY <1>12 DEF Payload
<1>13. CASE Authorize(i)
  BY <1>13 DEF Authorize
<1>14. CASE Forward(i)
  BY <1>14 DEF Forward
<1>15. CASE CloseBoth(i)
  BY <1>15 DEF CloseBoth
<1>16. CASE Finish(i)
  BY <1>16 DEF Finish
<1> QED
  BY <1>1, <1>2, <1>3, <1>4, <1>5, <1>6, <1>7, <1>8, <1>9, <1>10, <1>11, <1>12, <1>13, <1>14, <1>15,
     <1>16 DEF Relay

LEMMA FlagsKept ==
  ASSUME TestTypes, FlagsFitPlace, NEW i \in Relays, Relay(i)
  PROVE  FlagsFitPlace'
<1> SUFFICES ASSUME NEW j \in Relays  PROVE Fits(j)'
  BY DEF FlagsFitPlace, Relays
<1>1. CASE j = i
  BY <1>1, OwnFlagsKept DEF FlagsFitPlace
<1>2. CASE j # i
  <2>1. Fits(j) /\ peeled \subseteq peeled'
    BY RelayLocal DEF FlagsFitPlace
  <2>2. /\ relay'[j] = relay[j] /\ done'[j] = done[j] /\ peelRc'[j] = peelRc[j]
        /\ gotPayload'[j] = gotPayload[j] /\ listening'[j] = listening[j]
    BY <1>2, RelayLocal
  <2> QED  BY <2>1, <2>2 DEF Fits
<1> QED  BY <1>1, <1>2

LEMMA FrontKept ==
  ASSUME TestTypes, FlagsFitPlace, FrontPeeled, NEW i \in Relays, Relay(i)
  PROVE  FrontPeeled'
<1> DEFINE Near == {"receive", "measure", "open", "lookup", "record"}
<1> SUFFICES ASSUME NEW j \in Relays, j > 1
             PROVE  /\ link'[j] # "none" => j - 1 \in peeled'
                    /\ relay'[j] \in Near => j - 1 \in peeled'
  BY DEF FrontPeeled, Relays
<1>1. /\ link[j] # "none" => j - 1 \in peeled
      /\ relay[j] \in Near => j - 1 \in peeled
  BY DEF FrontPeeled
<1>2. peeled \subseteq peeled'
  BY RelayLocal
<1>3. link'[j] # "none" => j - 1 \in peeled'
  <2>1. CASE relay[i] = "forward" /\ j = i + 1
    <3>1. j - 1 = i
      BY <2>1, ChainAssumption DEF Relays
    <3>2. i \in peeled
      BY <2>1 DEF FlagsFitPlace, Fits
    <3> QED  BY <3>1, <3>2, <1>2
  <2>2. CASE link'[j] = link[j]
    BY <2>2, <1>1, <1>2
  <2> QED  BY <2>1, <2>2, RelayLocal
<1>4. relay'[j] \in Near => j - 1 \in peeled'
  <2>1. CASE j # i
    BY <2>1, <1>1, <1>2, RelayLocal
  <2>2. CASE j = i
    <3>1. relay = [k \in Relays |-> relay[k]]
      BY DEF TestTypes
    <3>2. relay'[i] \in Near => link[i] # "none" \/ relay[i] \in Near
      BY <3>1 DEF Relay, Moves, Listen, Announce, Accept, AcceptFails, GiveUp, NoteFailure, Receive,
                  Measure, Open, Lookup, Record, Result, Flag, Payload, Authorize, Forward, CloseBoth,
                  Finish
    <3> QED  BY <3>2, <2>2, <1>1, <1>2
  <2> QED  BY <2>1, <2>2
<1> QED  BY <1>3, <1>4

LEMMA PrefixKept ==
  ASSUME TestTypes, FrontPeeled, PrefixPeeled, NEW i \in Relays, Relay(i)
  PROVE  PrefixPeeled'
<1>1. CASE peeled' = peeled
  BY <1>1 DEF PrefixPeeled
<1>2. CASE relay[i] = "record" /\ peeled' = peeled \cup {i}
  <2>1. i \in Nat /\ i >= 1
    BY ChainAssumption DEF Relays
  <2>2. i > 1 => 1 .. (i - 1) \subseteq peeled
    BY <1>2 DEF FrontPeeled, PrefixPeeled
  <2>3. ASSUME NEW k \in 1 .. i  PROVE k \in peeled \cup {i}
    <3>1. k = i \/ (i > 1 /\ k \in 1 .. (i - 1))
      BY <2>1, <2>3
    <3> QED  BY <3>1, <2>2
  <2>4. \A k \in peeled : 1 .. k \subseteq peeled \cup {i}
    BY DEF PrefixPeeled
  <2> QED  BY <1>2, <2>3, <2>4 DEF PrefixPeeled
<1> QED
  BY <1>1, <1>2, RelayLocal

LEMMA VerdictKept ==
  ASSUME TestTypes, VerdictSoFar, NEW i \in Relays, Relay(i)
  PROVE  VerdictSoFar'
<1>1. main' = main /\ failed' = failed
  BY RelayLocal
<1>2. gotPayload[N] => gotPayload'[N]
  <2>1. N \in Relays
    BY ChainAssumption DEF Relays
  <2> QED  BY <2>1, RelayLocal
<1> QED
  BY <1>1, <1>2 DEF VerdictSoFar

LEMMA RelayKeeps ==
  ASSUME TestIInv, NEW i \in Relays, Relay(i)
  PROVE  (FrontPeeled /\ FlagsFitPlace /\ PrefixPeeled /\ NotStarted /\ VerdictSoFar)'
<1>1. NotStarted'
  BY RelayLocal DEF TestIInv, NotStarted
<1> QED
  BY <1>1, FrontKept, FlagsKept, PrefixKept, VerdictKept DEF TestIInv

LEMMA MainKeeps ==
  ASSUME TestIInv, MainStep
  PROVE  (FrontPeeled /\ FlagsFitPlace /\ PrefixPeeled /\ NotStarted /\ VerdictSoFar)'
<1> USE DEF TestIInv, TestTypes, threads, ctx, wires, policyVars, Check
<1>1. CASE MainStart
  BY <1>1 DEF MainStart, FrontPeeled, FlagsFitPlace, Fits, PrefixPeeled, NotStarted, VerdictSoFar
<1>2. CASE MainSend
  <2>1. FrontPeeled'
    <3>1. \A j \in Relays : j > 1 => link'[j] = link[j] /\ relay'[j] = relay[j]
      <4>1. link = [k \in Relays |-> link[k]]
        OBVIOUS
      <4>2. PICK state : link' = [link EXCEPT ![1] = state]
        BY <1>2 DEF MainSend
      <4>3. \A k \in Relays : k > 1 => [link EXCEPT ![1] = state][k] = link[k]
        <5> HIDE DEF TestIInv, TestTypes
        <5> QED  BY <4>1, ChainAssumption DEF Relays
      <4>4. relay' = relay
        BY <1>2 DEF MainSend
      <4> QED
        <5> HIDE DEF TestIInv, TestTypes
        <5> QED  BY <4>2, <4>3, <4>4
    <3> QED  BY <1>2, <3>1 DEF MainSend, FrontPeeled
  <2>2. VerdictSoFar'
    BY <1>2 DEF MainSend, VerdictSoFar
  <2> QED
    BY <1>2, <2>1, <2>2 DEF MainSend, FlagsFitPlace, Fits, PrefixPeeled, NotStarted
<1>3. CASE MainReady \/ MainWait \/ MainCodes \/ MainFlags \/ MainPayload \/ MainLinks \/ MainReopen
           \/ MainLookup \/ MainRecord \/ MainPrivacy \/ MainRefused \/ MainJoin
  <2>1. UNCHANGED <<relay, done, peelRc, gotPayload, link, listening, peeled>> /\ main' # "start"
    BY <1>3 DEF MainReady, MainWait, MainCodes, MainFlags, MainPayload, MainLinks, ReadEach, MainReopen,
                MainLookup, MainRecord, MainPrivacy, MainRefused, MainJoin
  <2>2. VerdictSoFar'
    BY <1>3 DEF MainReady, MainWait, MainCodes, MainFlags, MainPayload, MainLinks, ReadEach, MainReopen,
                MainLookup, MainRecord, MainPrivacy, MainRefused, MainJoin, VerdictSoFar
  <2> QED
    BY <2>1, <2>2 DEF FrontPeeled, FlagsFitPlace, Fits, PrefixPeeled, NotStarted
<1> QED
  BY <1>1, <1>2, <1>3 DEF MainStep

LEMMA TestStepKeeps == TestIInv /\ [TestNext]_testVars => TestIInv'
<1> SUFFICES ASSUME TestIInv, [TestNext]_testVars PROVE TestIInv'
  OBVIOUS
<1>1. CASE MainStep
  BY <1>1, TypeMain, MainKeeps DEF TestIInv
<1>2. ASSUME NEW i \in Relays, Relay(i)  PROVE TestIInv'
  BY <1>2, TypeRelay, RelayKeeps DEF TestIInv
<1>3. CASE UNCHANGED testVars
  BY <1>3 DEF testVars, policyVars, mainVars, threads, ctx, wires, TestIInv, TestTypes, FrontPeeled,
              FlagsFitPlace, Fits, PrefixPeeled, NotStarted, VerdictSoFar
<1> QED
  BY <1>1, <1>2, <1>3 DEF TestNext, Returned

-----------------------------------------------------------------------------
\* The verdict of livetest_run_all (livetest.c:169-338) is sound for a chain of
\* any length, whichever threads are still running when it is reached and
\* however their stores and main's loads fall between each other. A thread that
\* has set done writes nothing more but the code of a failure, and the code of
\* one that has ended is true.
THEOREM VerdictIsSound == TestSpec => []PassedMeansDelivered
<1>1. TestIInv => PassedMeansDelivered
  <2> SUFFICES ASSUME TestIInv PROVE PassedMeansDelivered
    OBVIOUS
  <2>1. ASSUME main = "returned", ~ failed  PROVE peeled = Relays /\ gotPayload[N]
    <3>1. gotPayload[N]
      BY <2>1 DEF TestIInv, VerdictSoFar
    <3>2. N \in peeled
      BY <3>1, ChainAssumption DEF TestIInv, FlagsFitPlace, Fits, Relays
    <3>3. Relays \subseteq peeled
      BY <3>2 DEF TestIInv, PrefixPeeled, Relays
    <3> QED  BY <3>1, <3>3 DEF TestIInv, TestTypes
  <2>2. \A i \in Relays :
          done[i] => relay[i] \in {"unheard", "unmet", "ended"} /\ ~ listening[i]
    BY DEF TestIInv, FlagsFitPlace, Fits
  <2>3. \A i \in Relays : relay[i] = "ended" /\ peelRc[i] = "ok" => i \in peeled
    BY DEF TestIInv, FlagsFitPlace, Fits
  <2>4. \A i \in peeled : 1 .. i \subseteq peeled
    BY DEF TestIInv, PrefixPeeled
  <2> QED  BY <2>1, <2>2, <2>3, <2>4 DEF PassedMeansDelivered
<1> QED
  BY <1>1, TestInitHolds, TestStepKeeps, PTL DEF TestSpec

\* The contexts, links and places of the threads are always of their types.
THEOREM TestTypesHold == TestSpec => []TestTypes
<1>1. TestIInv => TestTypes
  BY DEF TestIInv
<1> QED
  BY <1>1, TestInitHolds, TestStepKeeps, PTL DEF TestSpec
=============================================================================
