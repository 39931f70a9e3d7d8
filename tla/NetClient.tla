------------------------------ MODULE NetClient ------------------------------
(***************************************************************************)
(* One run of the program on one of its network commands: main reads the   *)
(* environment, then the command dials, listens or goes through Tor behind *)
(* the gate (netcmd.c, socks5.c, transport.c). Every system call may fail, *)
(* and the proxy may stop or misbehave between any two of them.            *)
(***************************************************************************)
EXTENDS NetPolicy

CONSTANTS
  NoNext,       \* relay without --next
  Want          \* --count: connections the relay serves

ASSUME ClientAssumption == NoNext \notin Hosts /\ Want \in Nat

VARIABLES
  cmd, target, flag,  \* the command line: command, --host or --next, --proxy
  pc,                 \* where the command is
  open,               \* the open sockets
  served,             \* cmd_relay's counter
  result,             \* the exit status
  told,               \* the code the last preflight returned
  probed,             \* history: how the last probe of the proxy ended
  vetted              \* history: the proxy the last successful preflight probed

vars == <<policyVars, cmd, target, flag, pc, open, served, result, told, probed, vetted>>

commandLine == <<cmd, target, flag>>

DirectCommands == {"net-probe", "net-echo", "net-send"}
TorCommands == {"privacy-probe", "privacy-fetch"}
PrivacyCommands == TorCommands \cup {"privacy-preflight"}
Commands == DirectCommands \cup PrivacyCommands \cup {"relay"}

\* Sockets: listener and peer are the relay's, and have no host.
Nowhere == NoNext
Socket(kind, host) == [kind |-> kind, host |-> host]
Kinds == {"direct", "forward", "probe", "tor", "listener", "peer"}
Close(kind) == {s \in open : s.kind # kind}

-----------------------------------------------------------------------------
Init ==
  /\ \E env \in Flags, privacy \in BOOLEAN : InitFromEnv(env, privacy)
  /\ cmd \in Commands
  /\ target \in IF cmd = "relay" THEN Hosts \cup {NoNext} ELSE Hosts
  /\ flag \in IF cmd \in PrivacyCommands THEN Flags ELSE {NoFlag}
  /\ pc = "start"
  /\ open = {}
  /\ served = 0
  /\ result = "running"
  /\ told = "none"
  /\ probed = "config"
  /\ vetted = NoFlag

\* The command returns: it closes what it is about to close and reports.
End(status) == pc' = "end" /\ result' = status

Goto(label) == pc' = label /\ UNCHANGED result

-----------------------------------------------------------------------------
\* net-probe, net-echo and net-send: transport_dial.
DirectDial ==
  /\ pc = "start" /\ cmd \in DirectCommands
  /\ \E r \in DialResults(target, FALSE) :
       IF r = "ok" THEN open' = open \cup {Socket("direct", target)} /\ Goto("exchange")
       ELSE open' = open /\ End("failure")
  /\ counters' = DialCounters(counters, target, FALSE)
  /\ UNCHANGED <<mode, validated, proxy, requested, commandLine, served, told, probed, vetted>>

\* What is sent and received over it; every failure closes it as success does.
DirectExchange ==
  /\ pc = "exchange" /\ cmd \in DirectCommands
  /\ \E status \in IF cmd = "net-probe" THEN {"success"} ELSE {"success", "failure"} :
       End(status)
  /\ open' = Close("direct")
  /\ UNCHANGED <<policyVars, commandLine, served, told, probed, vetted>>

-----------------------------------------------------------------------------
\* Seeded fault: the relay does not ask whether privacy was requested.
RelayStartAnyway ==
  /\ pc = "start" /\ cmd = "relay"
  /\ SetMode("relay")
  /\ \/ open' = open \cup {Socket("listener", Nowhere)} /\ Goto("serve")
     \/ open' = open /\ End("failure")
  /\ UNCHANGED <<proxy, requested, counters, commandLine, served, told, probed, vetted>>

\* cmd_relay: refused if privacy was requested; otherwise the relay role, and
\* transport_listen, which may fail.
RelayStart ==
  /\ pc = "start" /\ cmd = "relay"
  /\ IF requested
     THEN End("failure") /\ UNCHANGED <<mode, validated, open>>
     ELSE /\ SetMode("relay")
          /\ \/ /\ AuthorizeListen("relay") = "ok"
                /\ open' = open \cup {Socket("listener", Nowhere)}
                /\ Goto("serve")
             \/ open' = open /\ End("failure")
  /\ UNCHANGED <<proxy, requested, counters, commandLine, served, told, probed, vetted>>

\* transport_accept succeeds, or fails and ends the loop.
RelayAccept ==
  /\ pc = "serve" /\ served < Want
  /\ \/ open' = open \cup {Socket("peer", Nowhere)} /\ Goto("frame")
     \/ open' = Close("listener") /\ End("success")
  /\ UNCHANGED <<policyVars, commandLine, served, told, probed, vetted>>

\* A frame is not received, or has reached its last hop, or there is no next:
\* the peer is closed and counted.
RelayKeep ==
  /\ pc = "frame"
  /\ open' = Close("peer")
  /\ served' = served + 1
  /\ Goto("serve")
  /\ UNCHANGED <<policyVars, commandLine, told, probed, vetted>>

\* A frame with hops left goes to the next relay; a failed dial loses it.
RelayForward ==
  /\ pc = "frame" /\ target # NoNext
  /\ \E r \in DialResults(target, FALSE) :
       IF r = "ok" THEN open' = open \cup {Socket("forward", target)} /\ Goto("forward")
       ELSE open' = Close("peer") /\ Goto("serve")
  /\ served' = IF pc' = "serve" THEN served + 1 ELSE served
  /\ counters' = DialCounters(counters, target, FALSE)
  /\ UNCHANGED <<mode, validated, proxy, requested, commandLine, told, probed, vetted>>

RelaySend ==
  /\ pc = "forward"
  /\ open' = {s \in open : s.kind \notin {"forward", "peer"}}
  /\ served' = served + 1
  /\ Goto("serve")
  /\ UNCHANGED <<policyVars, commandLine, told, probed, vetted>>

RelayEnd ==
  /\ pc = "serve" /\ served >= Want
  /\ open' = Close("listener")
  /\ End("success")
  /\ UNCHANGED <<policyVars, commandLine, served, told, probed, vetted>>

-----------------------------------------------------------------------------
\* Entry of the privacy commands; all but the bare preflight reset the counters.
PrivacyStart ==
  /\ pc = "start" /\ cmd \in PrivacyCommands
  /\ EnterPrivacy(flag)
  /\ counters' = IF cmd = "privacy-preflight" THEN counters ELSE ZeroCounters
  /\ Goto("vet")
  /\ UNCHANGED <<requested, commandLine, open, served, told, probed, vetted>>

\* The end of netpolicy_preflight, and what its caller makes of the result.
Conclude(probe) ==
  /\ validated' = PreflightOk(probe)
  /\ told' = PreflightCode(probe)
  /\ probed' = probe
  /\ vetted' = IF PreflightOk(probe) THEN proxy ELSE NoFlag
  /\ IF ~ PreflightOk(probe) THEN End("failure")
     ELSE IF cmd = "privacy-preflight" THEN End("success")
     ELSE Goto("connect")

\* Seeded fault: privacy_dial goes ahead without a preflight.
PreflightSkipped ==
  /\ pc = "vet"
  /\ IF cmd \in TorCommands THEN Goto("connect") ELSE End("success")
  /\ UNCHANGED <<policyVars, commandLine, open, served, told, probed, vetted>>

\* netpolicy_preflight up to the probe. privacy_dial calls it only if it is
\* not validated, which it never is here: the process has just started.
Preflight ==
  /\ pc = "vet"
  /\ IF validated /\ cmd \in TorCommands
     THEN Goto("connect") /\ UNCHANGED <<validated, told, probed, vetted>>
     ELSE IF ConfigParsed /\ ProxyIsLoopback
     THEN Goto("probe") /\ UNCHANGED <<validated, told, probed, vetted>>
     ELSE Conclude("config")
  /\ UNCHANGED <<mode, proxy, requested, counters, commandLine, open, served>>

\* The authorization a SOCKS call makes itself, then the one in its dial.
HopCounters(c) ==
  IF AuthorizeDial(proxy.host, TRUE) = "ok"
  THEN DialCounters(CountDial(c, proxy.host, TRUE), proxy.host, TRUE)
  ELSE CountDial(c, proxy.host, TRUE)

\* socks5_probe: the dial ...
ProbeDial ==
  /\ pc = "probe"
  /\ \E r \in DialResults(proxy.host, TRUE) :
       IF r = "ok"
       THEN /\ open' = open \cup {Socket("probe", proxy.host)}
            /\ Goto("probed")
            /\ UNCHANGED <<validated, told, probed, vetted>>
       ELSE /\ open' = open
            /\ Conclude(IF r = "policy" THEN "policy" ELSE "connect")
  /\ counters' = HopCounters(counters)
  /\ UNCHANGED <<mode, proxy, requested, commandLine, served>>

\* ... and the method negotiation; the socket is closed either way.
ProbeNegotiate ==
  /\ pc = "probed"
  /\ open' = Close("probe")
  /\ \E r \in {"ok", "handshake"} : Conclude(r)
  /\ UNCHANGED <<mode, proxy, requested, counters, commandLine, served>>

-----------------------------------------------------------------------------
\* socks5_connect: the dial of the hop to the proxy ...
ConnectDial ==
  /\ pc = "connect"
  /\ IF target \in Unsendable
     THEN End("failure") /\ UNCHANGED <<open, counters>>
     ELSE /\ \E r \in DialResults(proxy.host, TRUE) :
               IF r = "ok" THEN open' = open \cup {Socket("tor", proxy.host)} /\ Goto("circuit")
               ELSE open' = open /\ End("failure")
          /\ counters' = HopCounters(counters)
  /\ UNCHANGED <<mode, validated, proxy, requested, commandLine, served, told, probed, vetted>>

\* One exchange with the proxy goes well, or the connection is closed.
CircuitStage(from, to) ==
  /\ pc = from
  /\ \/ Goto(to) /\ open' = open
     \/ End("failure") /\ open' = Close("tor")
  /\ UNCHANGED <<policyVars, commandLine, served, told, probed, vetted>>

\* ... the negotiation, the request, the first four bytes of the reply, which
\* may refuse it, and the bound address.
ConnectNegotiate == CircuitStage("circuit", "request")

ConnectRequest == CircuitStage("request", "reply")

\* Seeded fault: a refused request leaves the connection to the caller.
ConnectReplyLeaks ==
  /\ pc = "reply"
  /\ Goto("bound") \/ End("failure")
  /\ UNCHANGED <<policyVars, commandLine, open, served, told, probed, vetted>>

ConnectReply == CircuitStage("reply", "bound")

ConnectBound == CircuitStage("bound", "stream")

\* privacy-probe reports, privacy-fetch exchanges; both close the stream.
StreamEnd ==
  /\ pc = "stream"
  /\ open' = Close("tor")
  /\ \E status \in IF cmd = "privacy-fetch" THEN {"success", "failure"} ELSE {"success"} :
       End(status)
  /\ UNCHANGED <<policyVars, commandLine, served, told, probed, vetted>>

Exited == pc = "end" /\ UNCHANGED vars

Next ==
  \/ DirectDial \/ DirectExchange
  \/ RelayStart \/ RelayAccept \/ RelayKeep \/ RelayForward \/ RelaySend \/ RelayEnd
  \/ PrivacyStart \/ Preflight \/ ProbeDial \/ ProbeNegotiate
  \/ ConnectDial \/ ConnectNegotiate \/ ConnectRequest \/ ConnectReply \/ ConnectBound
  \/ StreamEnd
  \/ Exited

Spec == Init /\ [][Next]_vars

-----------------------------------------------------------------------------
TypeOK ==
  /\ mode \in Modes /\ validated \in BOOLEAN /\ proxy \in Proxies
  /\ requested \in BOOLEAN /\ counters \in Counters
  /\ cmd \in Commands /\ target \in Hosts \cup {NoNext} /\ flag \in Flags
  /\ pc \in {"start", "exchange", "serve", "frame", "forward", "vet", "probe", "probed",
             "connect", "circuit", "request", "reply", "bound", "stream", "end"}
  /\ open \subseteq [kind : Kinds, host : Hosts \cup {NoNext}]
  /\ served \in 0 .. Want
  /\ result \in {"running", "success", "failure"}
  /\ told \in {"none", "ok", "no tor", "not socks"}
  /\ probed \in ProbeResults
  /\ vetted \in {NoFlag} \cup Proxies

\* netpolicy.h:20-22, "The only sockets privacy mode permits are loopback
\* connections to the configured Tor SOCKS port": in privacy mode every open
\* socket leads to the configured proxy, at an address that is loopback and
\* needs no lookup.
OnlyProxySockets ==
  mode = "privacy" =>
    \A s \in open : /\ s.kind \in {"probe", "tor"}
                    /\ s.host = proxy.host
                    /\ s.host \in Loopback \cap Literal

\* The commands print "local DNS: n lookups (must be 0)": whatever the host,
\* the proxy and the outcome, privacy mode looks up no name itself.
NoLocalLookup == mode = "privacy" => counters.local_dns_performed = 0

\* The two halves of what privacy mode promises: no socket but the proxy's, and
\* no question to the local resolver.
PrivacyPromise == OnlyProxySockets /\ NoLocalLookup

\* netpolicy.h:88-90: no network command leaves a privacy mode that was asked
\* for with AIRBOT_PRIVACY, and none accepts or dials directly under it.
RequestedIsKept == requested => mode = "privacy"

\* privacy_dial, "Refuses unless preflight has passed": a stream goes to the
\* very proxy that the last preflight probed, and that preflight passed.
StreamIsVetted ==
  \A s \in open : s.kind = "tor" => validated /\ vetted = proxy

\* Every path of every command, failed system calls included, closes what it
\* opened.
NothingLeftOpen == pc = "end" => open = {}

=============================================================================
