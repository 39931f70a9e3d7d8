----------------------------- MODULE MCOnionPath -----------------------------
(***************************************************************************)
(* Three relays and paths of one to three hops, one of which comes back to *)
(* its first relay, and one that is longer than MaxHops. The sizes are the *)
(* program's; the lengths lie on both sides of what fits three hops.       *)
(***************************************************************************)
EXTENDS OnionPath

CONSTANTS A, B, C

MCRelays == {A, B, C}
MCPaths == {<<C>>, <<A, B, C>>, <<A, B, A>>, <<A, B, C, A, B>>}
MCLengths == {0, 726, 727, 1000}
=============================================================================
