----------------------------- MODULE MCNetClient -----------------------------
(***************************************************************************)
(* One host per way the string tests can come out: a loopback and a remote *)
(* dotted quad, localhost (loopback but a name), a remote name, an IPv6    *)
(* literal, a name too long for a SOCKS request. Port 0 is the port that   *)
(* set_proxy refuses. The relay serves two connections.                    *)
(***************************************************************************)
EXTENDS NetClient

CONSTANTS Quad127, QuadRemote, Localhost, Name, NameLong, Name6

MCHosts == {Quad127, QuadRemote, Localhost, Name, NameLong, Name6}
MCLoopback == {Quad127, Localhost}
MCLiteral == {Quad127, QuadRemote}
MCIpv6 == {Name6}
MCPorts == {0, 9050}
MCDefaultProxy == [host |-> Quad127, port |-> 9050]
MCUnsendable == {NameLong}
=============================================================================
