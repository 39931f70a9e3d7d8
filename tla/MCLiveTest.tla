------------------------------ MODULE MCLiveTest ------------------------------
(***************************************************************************)
(* The chain of the code: three relays on loopback. The proxy plays no     *)
(* part.                                                                   *)
(***************************************************************************)
EXTENDS LiveTest

CONSTANT Quad127

MCHosts == {Quad127}
MCDefaultProxy == [host |-> Quad127, port |-> 9050]
MCPorts == {9050}
=============================================================================
