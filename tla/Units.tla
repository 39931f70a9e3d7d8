-------------------------------- MODULE Units --------------------------------
(***************************************************************************)
(* Units as values, the files they are kept in, and how they are copied    *)
(* (eiu.c, replicator.c). A file is a header and a sequence of sections,   *)
(* each with a tag and a length of three bytes before its body; what is    *)
(* read may end anywhere in it. The hash is ideal: it is what it covers.   *)
(***************************************************************************)
EXTENDS Integers, Sequences, FiniteSets, SequencesExt

CONSTANTS
  MaxCode, MaxData, MaxState,   \* EIU_MAX_BEHAVIOR, EIU_MAX_DATA, EIU_MAX_STATE
  CapabilitySize,               \* sizeof(Capability)
  MaxReplicas                   \* MAX_REPLICAS

ASSUME UnitsAssumption ==
  /\ MaxCode \in Nat /\ MaxData \in Nat /\ MaxState \in Nat
  /\ CapabilitySize \in Nat \ {0} /\ MaxReplicas \in Nat

\* eiu_init. The flags are the sections they announce; current says that the
\* version is EIU_VERSION.
EmptyUnit ==
  [flags |-> {}, fuel |-> 0, current |-> TRUE,
   code |-> <<>>, data |-> <<>>, state |-> <<>>, rights |-> {}]

Limit == [code |-> MaxCode, data |-> MaxData, state |-> MaxState]

\* The four setters. A body that is empty or too long leaves the unit alone.
SetSection(u, tag, body) ==
  IF tag # "rights" /\ Len(body) \notin 1 .. Limit[tag] THEN u
  ELSE [u EXCEPT ![tag] = body, !.flags = @ \cup {tag}]

\* eiu_validate.
Valid(u) == u.current /\ \A tag \in DOMAIN Limit : Len(u[tag]) <= Limit[tag]

\* What eiu_compute_hash covers: the sections run into one another, and the
\* capability is left out.
Hash(u) == <<u.flags, u.fuel, u.current, u.code \o u.data \o u.state>>

-----------------------------------------------------------------------------
\* A section that the flags announce.
Announced(u, tag) == IF tag \in u.flags THEN <<[tag |-> tag, body |-> u[tag]]>> ELSE <<>>

\* What eiu_serialize writes.
Serialize(u) ==
  [flags |-> u.flags, fuel |-> u.fuel, current |-> u.current,
   sections |-> Announced(u, "code") \o Announced(u, "data") \o Announced(u, "state") \o Announced(u, "rights")]

HeaderSize == 8

Width(section) ==
  3 + IF section.tag = "rights" THEN CapabilitySize ELSE Len(section.body)

\* The bytes of a file up to the end of its section n.
End(file, n) == FoldLeft(LAMBDA sum, section : sum + Width(section), HeaderSize, SubSeq(file.sections, 1, n))

\* eiu_total_bits, in bytes.
Size(file) == End(file, Len(file.sections))

\* The sections that are whole in the first bytes of a file.
Whole(file, bytes) == Cardinality({n \in 1 .. Len(file.sections) : End(file, n) <= bytes})

\* eiu_deserialize accepts the first bytes: the header is there, and a section
\* that is cut off is cut off in its tag and length.
Readable(file, bytes) ==
  /\ bytes >= HeaderSize
  /\ Whole(file, bytes) < Len(file.sections) => bytes - End(file, Whole(file, bytes)) < 3

\* Seeded fault: the flags are set by the sections alone.
DeserializeForgetsFlags(file, bytes) ==
  FoldLeft(LAMBDA u, section : SetSection(u, section.tag, section.body),
           [EmptyUnit EXCEPT !.fuel = file.fuel, !.current = file.current],
           SubSeq(file.sections, 1, Whole(file, bytes)))

\* The unit it makes of them. The header's flags stay, whatever sections follow.
Deserialize(file, bytes) ==
  FoldLeft(LAMBDA u, section : SetSection(u, section.tag, section.body),
           [EmptyUnit EXCEPT !.flags = file.flags, !.fuel = file.fuel, !.current = file.current],
           SubSeq(file.sections, 1, Whole(file, bytes)))

-----------------------------------------------------------------------------
ReplicateBit == 3

\* repl_check_authorization.
Authorized(u, allowed) == ReplicateBit \in u.rights /\ ReplicateBit \in allowed

\* The first byte of the state, if there is one, becomes byte.
Marked(u, byte) == IF u.state = <<>> THEN u ELSE [u EXCEPT !.state[1] = byte]

\* The replicas repl_execute makes of an authorized unit.
Replicas(u, count) ==
  [i \in 1 .. (IF count > MaxReplicas THEN MaxReplicas ELSE count) |->
     IF u.state = <<>> THEN u ELSE Marked(u, (u.state[1] + i) % 256)]
=============================================================================
