------------------------------ MODULE MCRelayDir ------------------------------
(***************************************************************************)
(* Three names, two of which are cut to the same label; room for three     *)
(* pins, so that a label can be pinned twice and the array can fill up.    *)
(* Two instants are enough for the three positions of now relative to the  *)
(* validity window, two generations for a rollback.                        *)
(***************************************************************************)
EXTENDS RelayDir

MCLabel == [n \in Names |-> IF n = "short:1" THEN "short:1" ELSE "long"]
MCFingerprint == [k \in Keys |-> <<"fp", k>>]
MCFingerprints == {<<"fp", k>> : k \in Keys}
MCTimes == 0 .. 1
MCGenerations == 0 .. 1
=============================================================================
