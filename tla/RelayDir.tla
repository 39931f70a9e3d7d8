------------------------------- MODULE RelayDir -------------------------------
(***************************************************************************)
(* The pinned relay directory (relaydir.c): an array of pins that grows by *)
(* rd_pin_add, is searched from the front, and validates directory entries.*)
(*                                                                         *)
(* Names are the address strings a caller pins; Label is what is left of   *)
(* one after rd_pin_add cut it to RD_ADDR_SIZE - 1 bytes, so two names may *)
(* share a label. Fingerprint is BLAKE3 over the key, taken as injective.  *)
(***************************************************************************)
EXTENDS Integers, Sequences

CONSTANTS
  Names, Labels, Label,           \* Label[n]: the stored form of name n
  Keys, Fingerprints, Fingerprint,
  Roles,                          \* RD_ROLE_RELAY, RD_ROLE_EXIT
  Times, Generations,             \* small ranges of uint32_t values
  MaxEntries,                     \* RD_MAX_ENTRIES
  NoPin

ASSUME DirectoryAssumption ==
  /\ Label \in [Names -> Labels]
  /\ Fingerprint \in [Keys -> Fingerprints]
  /\ \A k1, k2 \in Keys : Fingerprint[k1] = Fingerprint[k2] => k1 = k2
  /\ NoPin \notin Fingerprints
  /\ Times \subseteq Nat /\ Generations \subseteq Nat /\ 0 \in Generations
  /\ MaxEntries \in Nat

VARIABLES
  pins,       \* pins[0 .. count-1], in the order they were added
  asked,      \* history: the <<name, key>> pairs added since rd_pinset_init
  reply       \* the last result and, for an accepted entry, the identity it
              \* produced and the generation the entry had

vars == <<pins, asked, reply>>

Pins == [addr : Labels, fingerprint : Fingerprints, min_generation : Generations]

Entries ==
  [addr : Labels, public_key : Keys, role : SUBSET Roles,
   valid_from : Times, valid_until : Times, generation : Generations]

NoIdentity == <<>>

Identities == [public_key : Keys, addr : Labels]

Codes == {"none", "ok", "full", "unknown", "fingerprint", "not yet", "expired",
          "rollback", "role"}

\* The identity rd_validate fills in: the key and the address of the entry.
Identity(e) == [public_key |-> e.public_key, addr |-> e.addr]

Result(code, identity, generation) ==
  [code |-> code, identity |-> identity, generation |-> generation]

\* A result without an identity.
Bare(code) == Result(code, NoIdentity, 0)

-----------------------------------------------------------------------------
\* find_pin: the indices that match, and the one that is found.
Matches(addr) == {i \in DOMAIN pins : pins[i].addr = addr}

Found(addr) == CHOOSE i \in Matches(addr) : \A j \in Matches(addr) : i <= j

\* Seeded fault: the fingerprint of an entry is not compared.
VerdictAnyKey(e, now, required) ==
  IF Matches(e.addr) = {} THEN "unknown"
  ELSE IF e.generation < pins[Found(e.addr)].min_generation THEN "rollback"
  ELSE "ok"

\* Seeded fault: the generation is compared with the wrong side.
VerdictNoFloor(e, now, required) ==
  IF Matches(e.addr) = {} THEN "unknown"
  ELSE IF Fingerprint[e.public_key] # pins[Found(e.addr)].fingerprint THEN "fingerprint"
  ELSE "ok"

\* rd_validate up to the assignment of min_generation, in the order in which
\* the code tests; a role mask of zero asks for nothing.
Verdict(e, now, required) ==
  IF Matches(e.addr) = {} THEN "unknown"
  ELSE LET pin == pins[Found(e.addr)] IN
       IF Fingerprint[e.public_key] # pin.fingerprint THEN "fingerprint"
       ELSE IF now < e.valid_from THEN "not yet"
       ELSE IF now >= e.valid_until THEN "expired"
       ELSE IF e.generation < pin.min_generation THEN "rollback"
       ELSE IF required # {} /\ e.role \cap required = {} THEN "role"
       ELSE "ok"

-----------------------------------------------------------------------------
Init ==
  /\ pins = <<>>
  /\ asked = {}
  /\ reply = Bare("none")

\* rd_pinset_init: every pin and every floor is forgotten.
PinsetInit ==
  /\ pins' = <<>>
  /\ asked' = {}
  /\ reply' = Bare("none")

PinAdd(name, key) ==
  IF Len(pins) >= MaxEntries
  THEN /\ reply' = Bare("full")
       /\ UNCHANGED <<pins, asked>>
  ELSE /\ pins' = Append(pins, [addr |-> Label[name],
                                fingerprint |-> Fingerprint[key],
                                min_generation |-> 0])
       /\ asked' = asked \cup {<<name, key>>}
       /\ reply' = Bare("ok")

\* Seeded fault: the floor is moved before the role is tested.
ValidateEarly(e, now, required) ==
  /\ asked' = asked
  /\ pins' = IF Verdict(e, now, {}) = "ok"
             THEN [pins EXCEPT ![Found(e.addr)].min_generation = e.generation] ELSE pins
  /\ reply' = IF Verdict(e, now, required) = "ok"
              THEN Result("ok", Identity(e), e.generation) ELSE Bare(Verdict(e, now, required))

Validate(e, now, required) ==
  /\ asked' = asked
  /\ IF Verdict(e, now, required) = "ok"
     THEN /\ pins' = [pins EXCEPT ![Found(e.addr)].min_generation = e.generation]
          /\ reply' = Result("ok", Identity(e), e.generation)
     ELSE /\ pins' = pins
          /\ reply' = Bare(Verdict(e, now, required))

\* now is the caller's clock: any value, not only a growing one.
Next ==
  \/ PinsetInit
  \/ \E name \in Names, key \in Keys : PinAdd(name, key)
  \/ \E e \in Entries, now \in Times, required \in SUBSET Roles :
        Validate(e, now, required)

Spec == Init /\ [][Next]_vars

-----------------------------------------------------------------------------
TypeOK ==
  /\ pins \in Seq(Pins)
  /\ Len(pins) <= MaxEntries
  /\ asked \subseteq Names \X Keys
  /\ reply \in [code : Codes, identity : {NoIdentity} \cup Identities, generation : Generations]

\* No trust on first use: an identity that comes out of rd_validate has a key
\* that the caller itself pinned, for a name stored as that address.
OnlyPinnedKeys ==
  reply.identity # NoIdentity
    => \E p \in asked : /\ Label[p[1]] = reply.identity.addr
                        /\ p[2] = reply.identity.public_key

\* The map the array stands for.
Trusted == [l \in Labels |-> IF Matches(l) = {} THEN NoPin ELSE pins[Found(l)].fingerprint]

Floor == [l \in Labels |-> IF Matches(l) = {} THEN 0 ELSE pins[Found(l)].min_generation]

\* Whom the last call vouched for: the identity it filled in, if it did.
Vouched ==
  IF reply.identity = NoIdentity THEN NoIdentity
  ELSE [label |-> reply.identity.addr,
        fingerprint |-> Fingerprint[reply.identity.public_key],
        generation |-> reply.generation]

Store == INSTANCE PinStore WITH
  trusted <- Trusted, floor <- Floor, answer <- Vouched, Nobody <- NoIdentity

\* The array behaves as a map from label to one fixed key and a generation
\* floor that never falls (relaydir.c:81-82, "so a revoked key cannot be
\* replayed back into service"): later pins of a label change nothing, an
\* accepted entry has the label's key and its generation becomes the floor, and
\* an entry that is refused, at whichever of the tests, moves no floor up or down.
RefinesPinStore == Store!Spec
=============================================================================
