------------------------------ MODULE NetPolicy ------------------------------
(***************************************************************************)
(* The network policy gate of one process (netpolicy.c): its globals, and  *)
(* what the authorize, set and preflight calls compute from them. NetClient*)
(* and LiveTest are the programs that run behind the gate.                 *)
(*                                                                         *)
(* A host is a model value; what the code's string tests make of it is     *)
(* given by sets. "localhost" is in Loopback and not in Literal; so is any *)
(* name that only begins like 127.0.0.1.                                   *)
(***************************************************************************)
EXTENDS Integers

CONSTANTS
  Hosts,
  Loopback,     \* host_is_loopback
  Literal,      \* netpolicy_host_is_ip_literal
  Ipv6,         \* netpolicy_host_is_ipv6_literal
  Unsendable,   \* empty or longer than any buffer: no proxy, no SOCKS request
  Ports,        \* uint16_t values, 0 among them
  DefaultProxy, \* 127.0.0.1:9050
  NoFlag,       \* --proxy or AIRBOT_TOR_SOCKS not given
  Garbled       \* given, without a port to split off or with too long a host

Proxies == [host : Hosts \ Unsendable, port : Ports]

ASSUME HostAssumption ==
  /\ Loopback \subseteq Hosts /\ Literal \subseteq Hosts /\ Ipv6 \subseteq Hosts
  /\ Unsendable \subseteq Hosts
  /\ Literal \cap Ipv6 = {}
  /\ Ports \subseteq Nat
  /\ DefaultProxy \in Proxies
  /\ DefaultProxy.port # 0
  /\ NoFlag \notin Proxies /\ Garbled \notin Proxies

VARIABLES
  mode,         \* g_mode
  validated,    \* g_validated
  proxy,        \* g_proxy_host, g_proxy_port
  requested,    \* g_env_privacy
  counters      \* g_counters

policyVars == <<mode, validated, proxy, requested, counters>>

Modes == {"direct", "privacy", "relay"}

Flags == {NoFlag, Garbled} \cup Proxies

Counters ==
  [direct_dials_denied : Nat, listens_denied : Nat, dns_denied : Nat, ipv6_denied : Nat,
   proxy_dials_allowed : Nat, direct_dials_allowed : Nat, local_dns_performed : Nat]

ZeroCounters ==
  [direct_dials_denied |-> 0, listens_denied |-> 0, dns_denied |-> 0, ipv6_denied |-> 0,
   proxy_dials_allowed |-> 0, direct_dials_allowed |-> 0, local_dns_performed |-> 0]

-----------------------------------------------------------------------------
\* netpolicy_set_proxy: a port of zero is refused after both fields have been
\* written and before the validation is withdrawn.
ProxyAfter(flag) == IF flag \in Proxies THEN flag ELSE proxy

ValidatedAfter(flag) == IF flag \in Proxies /\ flag.port # 0 THEN FALSE ELSE validated

\* netpolicy_init_from_env, on the initial values of the globals.
InitFromEnv(flag, privacy) ==
  /\ requested = privacy
  /\ mode = IF privacy THEN "privacy" ELSE "direct"
  /\ validated = FALSE
  /\ proxy = IF flag \in Proxies THEN flag ELSE DefaultProxy
  /\ counters = ZeroCounters

\* netpolicy_set_mode.
SetMode(m) ==
  /\ mode' = m
  /\ validated' = (validated /\ m = mode)

\* Entry of every privacy command: set_proxy, whose result is not looked at,
\* then set_mode.
EnterPrivacy(flag) ==
  /\ proxy' = ProxyAfter(flag)
  /\ mode' = "privacy"
  /\ validated' = (ValidatedAfter(flag) /\ mode = "privacy")

-----------------------------------------------------------------------------
\* Seeded fault: a direct dial falls through to the last return.
AuthorizeDialFallsThrough(host, viaProxy) ==
  IF mode = "privacy" /\ viaProxy /\ host \notin Loopback THEN "not loopback" ELSE "ok"

\* netpolicy_authorize_dial. The comparison with the configured proxy refuses
\* nothing that the loopback test has not refused before.
AuthorizeDial(host, viaProxy) ==
  IF mode # "privacy" THEN "ok"
  ELSE IF ~ viaProxy THEN "deny direct"
  ELSE IF host \notin Loopback THEN "not loopback"
  ELSE "ok"

\* netpolicy_authorize_family.
AuthorizeFamily(host) ==
  IF mode = "privacy" /\ host \in Ipv6 THEN "deny ipv6" ELSE "ok"

\* Seeded fault: a loopback name is resolved like a literal.
AuthorizeDnsLoopback(host) ==
  IF mode = "privacy" /\ host \notin Literal \cup Loopback THEN "deny dns" ELSE "ok"

\* netpolicy_authorize_dns.
AuthorizeDns(host) ==
  IF mode = "privacy" /\ host \notin Literal THEN "deny dns" ELSE "ok"

\* netpolicy_authorize_listen, in mode m.
AuthorizeListen(m) == IF m = "privacy" THEN "deny listen" ELSE "ok"

\* The counters after netpolicy_authorize_dial.
CountDial(c, host, viaProxy) ==
  IF mode # "privacy" THEN [c EXCEPT !.direct_dials_allowed = @ + 1]
  ELSE IF AuthorizeDial(host, viaProxy) = "ok"
       THEN [c EXCEPT !.proxy_dials_allowed = @ + 1]
       ELSE [c EXCEPT !.direct_dials_denied = @ + 1]

-----------------------------------------------------------------------------
\* The three gates of transport_dial_ex; the first refusal is the answer.
DialPermitted(host, viaProxy) ==
  /\ AuthorizeDial(host, viaProxy) = "ok"
  /\ AuthorizeFamily(host) = "ok"
  /\ AuthorizeDns(host) = "ok"

\* The counters after transport_dial_ex; a permitted dial counts a lookup
\* unless the host is a literal.
DialCounters(c, host, viaProxy) ==
  LET d == CountDial(c, host, viaProxy) IN
  IF AuthorizeDial(host, viaProxy) # "ok" THEN d
  ELSE IF AuthorizeFamily(host) # "ok" THEN [d EXCEPT !.ipv6_denied = @ + 1]
  ELSE IF AuthorizeDns(host) # "ok" THEN [d EXCEPT !.dns_denied = @ + 1]
  ELSE IF host \in Literal THEN d
  ELSE [d EXCEPT !.local_dns_performed = @ + 1]

\* What a dial can come to: the network may fail any permitted one.
DialResults(host, viaProxy) ==
  IF DialPermitted(host, viaProxy) THEN {"ok", "failed"} ELSE {"policy"}

-----------------------------------------------------------------------------
\* netpolicy_preflight: what is known of the proxy before it is probed.
ConfigParsed == proxy.port # 0

ProxyIsLoopback == proxy.host \in Loopback

\* socks5_probe's result, with "config" when the probe was not reached. Any
\* failure other than "connect" counts as reachable.
ProbeResults == {"config", "connect", "policy", "handshake", "ok"}

PreflightOk(probe) == probe = "ok"

\* The code returned, in the order the fields are looked at.
PreflightCode(probe) ==
  IF probe = "ok" THEN "ok"
  ELSE IF probe \in {"config", "connect"} THEN "no tor"
  ELSE "not socks"
=============================================================================
