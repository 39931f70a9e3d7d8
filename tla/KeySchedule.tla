----------------------------- MODULE KeySchedule -----------------------------
(***************************************************************************)
(* From an agreement to keys: HMAC and HKDF (sha256.c), the keys of onion  *)
(* layers and of links, and the life of a relay's identity (onionx.c). The *)
(* agreement itself is ideal: what two key pairs share is the pair of      *)
(* them, whoever of the two computes it; X25519 is the other half.         *)
(***************************************************************************)
EXTENDS Digests

CONSTANTS
  HashLength,     \* 32; a key is as long, a block of SHA-256 two of them
  MaxInfo,        \* the room for info in hkdf_sha256_expand, 512
  Hosts,          \* relays
  Ephemerals,     \* key pairs made for one message
  SmallOrder,     \* a point that makes the shared secret zero
  Labels,         \* the labels of ox_derive_labeled_key and of derive_hop_key
  LabelLength,    \* their lengths
  MaxDerived      \* bound: the keys that are compared

ASSUME KeyScheduleAssumption ==
  /\ HashLength \in Nat \ {0} /\ MaxInfo \in Nat /\ ShaBlock = 2 * HashLength
  /\ SmallOrder \notin Hosts \cup Ephemerals /\ Hosts \cap Ephemerals = {}
  /\ LabelLength \in [Labels -> 1 .. MaxInfo]

VARIABLES
  identity,   \* what a relay's OxIdentity holds
  derived     \* the derivations so far, by what went into them

schedule == <<identity, derived>>

\* OX_ERR_BADKEY.
Refused == <<>>

\* Bytes that stand for a part of something.
Part(what, n) == [i \in 1 .. n |-> [of |-> what, index |-> i, masks |-> {}]]

\* sha256.
Sha256(data) == Part([sha |-> ShaFinal(ShaUpdate(ShaInit, data))], HashLength)

Xor(data, constant) ==
  [i \in 1 .. Len(data) |-> [data[i] EXCEPT !.masks = (@ \ {constant}) \cup ({constant} \ @)]]

HmacSha256(key, msg) ==
  LET short == IF Len(key) > ShaBlock THEN Sha256(key) ELSE key
      k == short \o Zeros(ShaBlock - Len(short))
      Keyed(pad, data) ==
        Part([sha |-> ShaFinal(ShaUpdate(ShaUpdate(ShaInit, Xor(k, pad)), data))], HashLength)
  IN Keyed("0x5c", Keyed("0x36", msg))

\* hkdf_sha256_extract.
Extract(salt, ikm) == HmacSha256(IF salt = <<>> THEN Zeros(HashLength) ELSE salt, ikm)

\* A turn of the loop: what is hashed holds the last block, which is t.
NextBlock(prk, info, length, s, counter) ==
  LET t == HmacSha256(prk, s.t \o info \o <<Byte(counter)>>)
  IN [t |-> t, okm |-> s.okm \o SubSeq(t, 1, Min({length - Len(s.okm), HashLength}))]

\* hkdf_sha256_expand.
Expand(prk, info, length) ==
  IF length > 255 * HashLength \/ Len(info) > MaxInfo THEN <<>>
  ELSE LET n == (length + HashLength - 1) \div HashLength
           blocks[counter \in 0 .. n] ==
             IF counter = 0 THEN [t |-> <<>>, okm |-> <<>>]
             ELSE NextBlock(prk, info, length, blocks[counter - 1], counter)
       IN blocks[n].okm

Hkdf(salt, ikm, info, length) == Expand(Extract(salt, ikm), info, length)

PublicKey(pair) == Part([public |-> pair], HashLength)

\* x25519_scalarmult on a secret key and a public one.
Shared(pair, point) == Part([shared |-> {pair, point}], HashLength)

\* Seeded fault: the local key comes first in the salt.
DeriveKeyLocal(pair, point, eph, relay, label) ==
  IF point = SmallOrder THEN Refused
  ELSE Hkdf(PublicKey(pair) \o PublicKey(point), Shared(pair, point),
            Part([label |-> label], LabelLength[label]), HashLength)

\* Seeded fault: the label is left out.
DeriveKeyUnlabeled(pair, point, eph, relay, label) ==
  IF point = SmallOrder THEN Refused
  ELSE Hkdf(PublicKey(eph) \o PublicKey(relay), Shared(pair, point), <<>>, HashLength)

\* derive_hop_key and ox_derive_labeled_key.
DeriveKey(pair, point, eph, relay, label) ==
  IF point = SmallOrder THEN Refused
  ELSE Hkdf(PublicKey(eph) \o PublicKey(relay), Shared(pair, point),
            Part([label |-> label], LabelLength[label]), HashLength)

-----------------------------------------------------------------------------
ScheduleInit == identity = [h \in Hosts |-> "none"] /\ derived = {}

\* ox_identity_generate.
Generate(h) ==
  /\ identity[h] = "none"
  /\ identity' = [identity EXCEPT ![h] = "secret"]
  /\ UNCHANGED derived

\* ox_identity_erase; the public key remains, and with it what was published.
Erase(h) ==
  /\ identity[h] = "secret"
  /\ identity' = [identity EXCEPT ![h] = "erased"]
  /\ UNCHANGED derived

Record(by, pair, point, eph, relay, label) ==
  /\ Cardinality(derived) < MaxDerived
  /\ derived' = derived \cup {[by |-> by, pair |-> pair, point |-> point, eph |-> eph, relay |-> relay,
                               label |-> label]}
  /\ UNCHANGED identity

\* A client seals for a relay that has published its key (ox_wrap,
\* envelope_seal): ox_identity_from_public has no secret, and needs none.
\* A relay may publish what is no key at all.
ClientDerives(e, h, label) ==
  /\ identity[h] # "none"
  /\ \E point \in {h, SmallOrder} : Record("client", e, point, e, point, label)

\* A relay opens with its secret (ox_peel, envelope_open); without one both
\* return first. Any point may come in.
RelayDerives(h, point, label) ==
  /\ identity[h] = "secret"
  /\ Record("relay", h, point, point, h, label)

Compared == Cardinality(derived) = MaxDerived /\ UNCHANGED schedule

ScheduleNext ==
  \/ \E h \in Hosts : Generate(h) \/ Erase(h)
  \/ \E e \in Ephemerals, h \in Hosts, label \in Labels : ClientDerives(e, h, label)
  \/ \E h \in Hosts, point \in Ephemerals \cup {SmallOrder}, label \in Labels :
       RelayDerives(h, point, label)
  \/ Compared

ScheduleSpec == ScheduleInit /\ [][ScheduleNext]_schedule

-----------------------------------------------------------------------------
Key(d) == DeriveKey(d.pair, d.point, d.eph, d.relay, d.label)

\* Types, and: keys are whole.
ScheduleTypes ==
  /\ identity \in [Hosts -> {"none", "secret", "erased"}]
  /\ \A d \in derived : Len(Key(d)) \in {0, HashLength}

\* derive_hop_key and ox_derive_labeled_key give the two ends of a link the
\* same key, and different keys to everything else: another ephemeral key,
\* another relay, or another label; nothing is derived from a zero secret. And
\* the key is the one that RFC 5869 defines, whose longer outputs only go on.
KeysAreSeparate ==
  \A c, d \in derived :
    /\ Key(c) = Refused <=> c.point = SmallOrder
    /\ Key(c) # Refused /\ Key(d) # Refused =>
         (Key(c) = Key(d) <=> <<c.eph, c.relay, c.label>> = <<d.eph, d.relay, d.label>>)
    /\ Key(c) # Refused =>
         LET salt == PublicKey(c.eph) \o PublicKey(c.relay)
             info == Part([label |-> c.label], LabelLength[c.label])
             prk == HmacSha256(salt, Shared(c.pair, c.point))
             first == HmacSha256(prk, info \o <<Byte(1)>>)
         IN /\ Key(c) = first
            /\ \A n \in {0, 1, HashLength + 1} :
                 Hkdf(salt, Shared(c.pair, c.point), info, n) =
                   SubSeq(first \o HmacSha256(prk, first \o info \o <<Byte(2)>>), 1, n)
=============================================================================
