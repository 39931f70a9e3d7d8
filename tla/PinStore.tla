------------------------------- MODULE PinStore -------------------------------
(***************************************************************************)
(* What the relay directory promises (relaydir.h, TRUST MODEL): a label is *)
(* trusted with at most one key, fixed out of band before any entry is     *)
(* accepted, the generations accepted for it never fall, and an entry that *)
(* is refused changes nothing.                                             *)
(***************************************************************************)
EXTENDS Naturals

CONSTANTS Labels, Fingerprints, Generations, NoPin, Nobody

VARIABLES
  trusted,    \* the fingerprint a label is pinned to, or NoPin
  floor,      \* the generation accepted last for a label, 0 at first
  answer      \* whom the last call vouched for, or Nobody

vars == <<trusted, floor, answer>>

Init ==
  /\ trusted = [l \in Labels |-> NoPin]
  /\ floor = [l \in Labels |-> 0]
  /\ answer = Nobody

\* The first pin of a label decides.
Pin(l, fp) ==
  /\ trusted[l] = NoPin
  /\ trusted' = [trusted EXCEPT ![l] = fp]
  /\ floor' = floor
  /\ answer' = Nobody

\* An entry is accepted for a pinned label, with a generation not below the
\* floor, which it then becomes; the answer names the key the label has.
Accept(l, g) ==
  /\ trusted[l] # NoPin
  /\ g >= floor[l]
  /\ floor' = [floor EXCEPT ![l] = g]
  /\ answer' = [label |-> l, fingerprint |-> trusted[l], generation |-> g]
  /\ trusted' = trusted

\* An entry is refused, or a pin that comes too late: no floor moves.
Refuse ==
  /\ answer' = Nobody
  /\ UNCHANGED <<trusted, floor>>

Forget == Init'

Next ==
  \/ \E l \in Labels, fp \in Fingerprints : Pin(l, fp)
  \/ \E l \in Labels, g \in Generations : Accept(l, g)
  \/ Refuse
  \/ Forget

Spec == Init /\ [][Next]_vars
=============================================================================
