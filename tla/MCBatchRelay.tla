----------------------------- MODULE MCBatchRelay -----------------------------
(***************************************************************************)
(* Four flows through a batch of three in an array of four, so a frame can *)
(* meet a full batch and a batch can be part full when its deadline comes; *)
(* a listening socket with room for two connections. The flush run asks     *)
(* for more slots than the array has and gets a batch of two.              *)
(***************************************************************************)
EXTENDS BatchRelay

MCFrames == 1 .. NFlows
=============================================================================
