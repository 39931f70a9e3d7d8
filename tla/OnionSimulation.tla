---------------------------- MODULE OnionSimulation ----------------------------
(***************************************************************************)
(* `airbot onion` (main.c, onion.c): one process wraps a payload for a     *)
(* circuit of relays and peels it at each of them in turn. This is not the *)
(* live path, whose layers and windows are OnionPath's. Encryption and     *)
(* hashes are ideal: a ciphertext is what was encrypted and what with, a   *)
(* tag the ciphertext and the data it vouches for.                         *)
(***************************************************************************)
EXTENDS Integers, Sequences, FiniteSets, FiniteSetsExt

CONSTANTS
  RelayArguments,  \* the values of onion_circuit_init's num_relays
  MaxRelays,       \* 8, the relays of a circuit
  BufferSize,      \* 4096, the bytes of a layer
  LayerHeader,     \* 36: the next hop and a capability
  EiuLengths,      \* the lengths of the payload
  Nonces, SlotOf,  \* what the replay filter is asked about, and its hash
  MaxChecks        \* bound: how often it is asked

ASSUME SimulationAssumption ==
  /\ RelayArguments \subseteq Nat /\ MaxRelays \in Nat /\ EiuLengths \subseteq Nat
  /\ BufferSize \in Nat /\ LayerHeader \in Nat \ {0} /\ MaxChecks \in Nat
  /\ Nonces \subseteq Nat /\ DOMAIN SlotOf = Nonces

VARIABLES
  relays,   \* circuit->num_relays
  eiu,      \* the payload, a text of some length
  stage,    \* "init", "wrap", "hop" or "done"
  layer,    \* the loop counter of onion_wrap, then of onion_simulate
  onion,    \* the OnionPacket; while it is wrapped, temp_buffer is its payload
  peeled,   \* the relays that opened a layer, and the next hop each found
  arrival,  \* the payload of the destination
  outcome,  \* what onion_simulate returned
  filter,   \* a ReplayFilter: the nonce in each slot
  checks    \* the nonces it was asked about, and whether it called them replays

simulation == <<relays, eiu, stage, layer, onion, peeled, arrival, outcome, filter, checks>>

EiuText(n) == [len |-> n, is |-> <<"eiu">>]
Nothing == EiuText(-1)
NoHop == -1          \* four zeros
Running == 1
FreeSlot == -1

\* onion_generate_relays: keys from the seed and the index, capabilities from
\* the keys.
RelayKey(i) == [key |-> i]
RelayCap(i) == [cap |-> RelayKey(i)]
HopNonce(i) == [nonce |-> "circuit", hop |-> i]

\* chacha20_poly1305_encrypt and _decrypt: the ciphertext is as long as its text.
Cipher(key, nonce, text) == [len |-> text.len, is |-> <<key, nonce, text>>]
TagOf(key, nonce, aad, cipher) == [key |-> key, nonce |-> nonce, aad |-> aad, of |-> cipher]

SimulationInit ==
  /\ relays = 0 /\ eiu = Nothing /\ stage = "init" /\ layer = 0
  /\ onion = [payload |-> Nothing, layers |-> 0, hop |-> 0, tags |-> <<>>]
  /\ peeled = <<>> /\ arrival = Nothing /\ outcome = Running
  /\ filter = [s \in {SlotOf[n] : n \in Nonces} |-> FreeSlot]
  /\ checks = <<>>

\* onion_circuit_init: a circuit has at most MaxRelays.
CircuitRelays(n) == IF n > MaxRelays THEN MaxRelays ELSE n

\* onion_wrap up to its loop. The filter is empty.
CircuitInit(n, length) ==
  /\ stage = "init"
  /\ relays' = CircuitRelays(n)
  /\ eiu' = EiuText(length)
  /\ onion' = [payload |-> EiuText(length), layers |-> relays', hop |-> 0, tags |-> [i \in 0 .. MaxRelays - 1 |-> <<>>]]
  /\ layer' = relays' - 1
  /\ IF length > BufferSize THEN stage' = "done" /\ outcome' = -1
     ELSE stage' = "wrap" /\ UNCHANGED outcome
  /\ UNCHANGED <<peeled, arrival, filter, checks>>

\* Seeded fault: every layer but the innermost names the relay it is for.
LayerForItself(i, inner) ==
  [len |-> LayerHeader + inner.len,
   next |-> IF i = relays - 1 THEN NoHop ELSE i, cap |-> RelayCap(i), inner |-> inner]

\* The plaintext of relay i's layer.
Layer(i, inner) ==
  [len |-> LayerHeader + inner.len,
   next |-> IF i = relays - 1 THEN NoHop ELSE i + 1, cap |-> RelayCap(i), inner |-> inner]

\* One turn of onion_wrap's loop, from the last relay to the first.
WrapLayer ==
  LET text == Layer(layer, onion.payload)
      cipher == Cipher(RelayKey(layer), HopNonce(layer), text)
  IN
  /\ stage = "wrap" /\ layer >= 0
  /\ IF text.len > BufferSize
     THEN stage' = "done" /\ outcome' = -1 /\ UNCHANGED <<onion, layer>>
     ELSE /\ onion' = [onion EXCEPT !.payload = cipher,
                         !.tags[layer] = TagOf(RelayKey(layer), HopNonce(layer), RelayCap(layer), cipher)]
          /\ layer' = layer - 1
          /\ UNCHANGED <<stage, outcome>>
  /\ UNCHANGED <<relays, eiu, peeled, arrival, filter, checks>>

WrapDone ==
  /\ stage = "wrap" /\ layer < 0
  /\ onion' = [onion EXCEPT !.hop = 0]
  /\ layer' = 0 /\ stage' = "hop"
  /\ UNCHANGED <<relays, eiu, peeled, arrival, outcome, filter, checks>>

\* Seeded fault: layers are counted from the innermost.
UnwrapFromInside(i, packet) ==
  LET hop == packet.layers - 1 - packet.hop
      sealed == packet.payload
  IN IF sealed.len < LayerHeader \/ packet.hop >= packet.layers THEN <<>>
     ELSE IF /\ packet.tags[hop] = TagOf(RelayKey(i), HopNonce(hop), RelayCap(i), sealed)
             /\ sealed.is[1] = RelayKey(i) /\ sealed.is[2] = HopNonce(hop)
          THEN <<sealed.is[3]>> ELSE <<>>

\* onion_unwrap at relay i: the text of the layer, if it is there and authentic.
Unwrap(i, packet) ==
  LET hop == packet.hop
      sealed == packet.payload
  IN IF sealed.len < LayerHeader \/ hop >= packet.layers THEN <<>>
     ELSE IF /\ packet.tags[hop] = TagOf(RelayKey(i), HopNonce(hop), RelayCap(i), sealed)
             /\ sealed.is[1] = RelayKey(i) /\ sealed.is[2] = HopNonce(hop)
          THEN <<sealed.is[3]>> ELSE <<>>

Stop == stage' = "done" /\ outcome' = -1 /\ UNCHANGED <<layer, onion, peeled, arrival>>

\* One turn of onion_simulate's loop: relay number layer has the packet. The
\* loop goes on after the destination, too.
Hop ==
  LET text == Unwrap(layer, onion) IN
  /\ stage = "hop" /\ layer < relays
  /\ IF text = <<>> THEN Stop
     ELSE IF text[1].cap # RelayCap(layer) THEN Stop
     ELSE IF text[1].next = NoHop /\ text[1].inner # eiu THEN Stop
     ELSE /\ peeled' = Append(peeled, [relay |-> layer, next |-> text[1].next])
          /\ IF text[1].next = NoHop
             THEN arrival' = text[1].inner /\ UNCHANGED onion
             ELSE /\ onion' = [onion EXCEPT !.hop = @ + 1, !.payload = text[1].inner]
                  /\ UNCHANGED arrival
          /\ layer' = layer + 1
          /\ UNCHANGED <<stage, outcome>>
  /\ UNCHANGED <<relays, eiu, filter, checks>>

SimulationEnd ==
  /\ stage = "hop" /\ layer = relays
  /\ stage' = "done" /\ outcome' = 0
  /\ UNCHANGED <<relays, eiu, layer, onion, peeled, arrival, filter, checks>>

-----------------------------------------------------------------------------
\* Seeded fault: a nonce does not take the place of another.
FilterCheckKeeps(n) ==
  LET s == SlotOf[n] IN
  /\ stage = "done" /\ Len(checks) < MaxChecks
  /\ filter' = IF filter[s] = FreeSlot THEN [filter EXCEPT ![s] = n] ELSE filter
  /\ checks' = Append(checks, [nonce |-> n, replay |-> filter[s] = n])
  /\ UNCHANGED <<relays, eiu, stage, layer, onion, peeled, arrival, outcome>>

\* replay_filter_check, which the simulation itself does not call.
FilterCheck(n) ==
  LET s == SlotOf[n] IN
  /\ stage = "done" /\ Len(checks) < MaxChecks
  /\ filter' = [filter EXCEPT ![s] = n]
  /\ checks' = Append(checks, [nonce |-> n, replay |-> filter[s] = n])
  /\ UNCHANGED <<relays, eiu, stage, layer, onion, peeled, arrival, outcome>>

SimulationOver == stage = "done" /\ Len(checks) = MaxChecks /\ UNCHANGED simulation

SimulationNext ==
  \/ \E n \in RelayArguments, length \in EiuLengths : CircuitInit(n, length)
  \/ WrapLayer \/ WrapDone \/ Hop \/ SimulationEnd
  \/ \E n \in Nonces : FilterCheck(n)
  \/ SimulationOver

SimulationSpec == SimulationInit /\ [][SimulationNext]_simulation

-----------------------------------------------------------------------------
\* Types, and: no layer is longer than its buffer once it is sealed.
SimulationTypes ==
  /\ relays \in 0 .. MaxRelays /\ layer \in -1 .. MaxRelays
  /\ stage \in {"init", "wrap", "hop", "done"} /\ outcome \in {-1, 0, Running}
  /\ stage \in {"wrap", "hop"} => onion.payload.len \in 0 .. BufferSize
  /\ Len(peeled) <= relays /\ Len(checks) <= MaxChecks

\* "Wrap an EIU, pass through all relays, unwrap at destination, verify
\* integrity" (onion.h:79): onion_simulate succeeds exactly if the payload has
\* room for a layer of every relay, and then each relay has peeled one layer,
\* in the order of the path, found the next relay in it, and the last one the
\* payload; a circuit without relays succeeds and delivers nothing.
\* And the replay filter, whose slots hold one nonce each, calls a replay only
\* what it has seen, and forgets that only for a later nonce of the same slot.
SimulationDelivers ==
  /\ stage = "done" =>
       /\ outcome = 0 <=> eiu.len + LayerHeader * relays <= BufferSize
       /\ outcome = 0 =>
            /\ peeled = [n \in 1 .. relays |->
                           [relay |-> n - 1, next |-> IF n = relays THEN NoHop ELSE n]]
            /\ arrival = IF relays = 0 THEN Nothing ELSE eiu
  /\ \A i \in DOMAIN checks :
       LET same == {j \in 1 .. i - 1 : SlotOf[checks[j].nonce] = SlotOf[checks[i].nonce]} IN
       checks[i].replay <=> same # {} /\ checks[Max(same)].nonce = checks[i].nonce
=============================================================================
