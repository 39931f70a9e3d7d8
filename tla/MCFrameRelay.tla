---------------------------- MODULE MCFrameRelay ----------------------------
(***************************************************************************)
(* Two relays as a chain, a ring, one of them its own successor, or with   *)
(* an argument that names no port or a relay that never listens, the third *)
(* one, which was asked for privacy. One client is net-send, with a hop    *)
(* count on both sides of a byte's limit; one writes whatever it likes.    *)
(***************************************************************************)
EXTENDS FrameRelay

CONSTANTS r1, r2, r3, c1, c2

Frame(magic, hops, length, payload, digest) ==
  [magic |-> magic, hops |-> hops, length |-> length, payload |-> payload, digest |-> digest]

MCNexts ==
  {[r \in Relays |-> IF r = r1 THEN p[1] ELSE IF r = r2 THEN p[2] ELSE NoNext] :
     p \in {<<r2, NoNext>>, <<r2, r1>>, <<r1, NoNext>>, <<r2, Garbled>>, <<r2, r3>>}}

MCWants == {[r \in Relays |-> IF r = r1 THEN 2 ELSE 1]}

MCSends ==
  [c \in Clients |->
     IF c = c1 THEN {Frame(TRUE, hops, 1, "unit", "unit") : hops \in {2, 256}}
     ELSE {Frame(FALSE, 1, 0, "text", "unit"), Frame(TRUE, 1, 2, "long", "long"),
           Frame(TRUE, 1, 1, "torn", "unit")}]
=============================================================================
