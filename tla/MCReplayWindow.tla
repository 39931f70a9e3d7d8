---------------------------- MODULE MCReplayWindow ----------------------------
(***************************************************************************)
(* Eight ids over five slots: slot 4 is the home of three ids, so probes   *)
(* collide and wrap around the end of the table; slot 3 is nobody's home.  *)
(***************************************************************************)
EXTENDS ReplayWindow

MCIds == 1 .. 8
MCHome == <<0, 0, 1, 2, 2, 4, 4, 4>>
=============================================================================
