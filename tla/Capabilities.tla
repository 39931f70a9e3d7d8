------------------------------ MODULE Capabilities ------------------------------
(***************************************************************************)
(* Capabilities (capability.c): rights that are handed on with some taken  *)
(* away, and tokens that tie them to a root key. Rights are the set of     *)
(* their bits, a byte that of its own; bytes and words are narrow. Nothing *)
(* sets or reads the field expiry, which is left out.                      *)
(***************************************************************************)
EXTENDS Integers, Sequences

CONSTANTS
  BitsInByte,      \* 8
  RightBytes,      \* 8; a token has twice as many
  MaxGeneration,   \* 255
  Grants,          \* the rights cap_init is called with
  Removals,        \* and the rights cap_attenuate takes away
  RootKeys,        \* sequences of bytes, as long as a token
  MaxCapabilities, \* bound: capabilities
  MaxTokens        \* bound: tokens computed

TokenBytes == 2 * RightBytes
RightsBits == 0 .. RightBytes * BitsInByte - 1

ASSUME CapabilitiesAssumption ==
  /\ BitsInByte \in Nat \ {0} /\ RightBytes \in Nat \ {0}
  /\ MaxGeneration \in Nat /\ MaxCapabilities \in Nat /\ MaxTokens \in Nat
  /\ Grants \subseteq SUBSET RightsBits /\ Removals \subseteq SUBSET RightsBits
  /\ RootKeys \subseteq [1 .. TokenBytes -> SUBSET (0 .. BitsInByte - 1)]

VARIABLES
  caps,      \* the capabilities; parent and signed, what their token was
             \* computed from, are for the properties alone
  tokens     \* how many tokens were computed

capabilities == <<caps, tokens>>

Unsigned == <<>>
ZeroToken == [i \in 1 .. TokenBytes |-> {}]

\* Byte i of the rights, which repeat after RightBytes.
RightByte(rights, i) ==
  {b \in 0 .. BitsInByte - 1 : ((i - 1) % RightBytes) * BitsInByte + b \in rights}

RotatedLeft(byte) == {(b + 1) % BitsInByte : b \in byte}

\* Seeded fault: the first byte of the rights goes into every byte.
TokenOfFirstByte(rights, key) ==
  [i \in 1 .. TokenBytes |->
     LET right == RightByte(rights, 1) IN
     RotatedLeft((right \ key[i]) \cup (key[i] \ right))]

\* What cap_compute_token stores and cap_verify_token expects.
TokenOf(rights, key) ==
  [i \in 1 .. TokenBytes |->
     LET right == RightByte(rights, i) IN
     RotatedLeft((right \ key[i]) \cup (key[i] \ right))]

VerifyToken(cap, key) == cap.token = TokenOf(cap.rights, key)

\* cap_check and cap_is_valid.
Permits(cap, required) == required \subseteq cap.rights
CapIsValid(cap) == cap.generation # MaxGeneration

CapabilitiesInit == caps = <<>> /\ tokens = 0

\* cap_init.
CapInit(rights) ==
  /\ Len(caps) < MaxCapabilities
  /\ caps' = Append(caps, [rights |-> rights, token |-> ZeroToken, generation |-> 0,
                           parent |-> 0, signed |-> Unsigned])
  /\ UNCHANGED tokens

\* Seeded fault: the rights to take away are all that is left.
AttenuateKeeps(p, removed) ==
  /\ Len(caps) < MaxCapabilities /\ caps[p].generation < MaxGeneration
  /\ caps' = Append(caps, [caps[p] EXCEPT !.rights = removed, !.generation = @ + 1, !.parent = p])
  /\ UNCHANGED tokens

\* cap_attenuate, which refuses the last generation.
Attenuate(p, removed) ==
  /\ Len(caps) < MaxCapabilities /\ caps[p].generation < MaxGeneration
  /\ caps' = Append(caps, [caps[p] EXCEPT !.rights = @ \ removed, !.generation = @ + 1, !.parent = p])
  /\ UNCHANGED tokens

ComputeToken(c, key) ==
  /\ tokens < MaxTokens
  /\ caps' = [caps EXCEPT ![c].token = TokenOf(caps[c].rights, key), ![c].signed = <<caps[c].rights, key>>]
  /\ tokens' = tokens + 1

CapabilitiesDone == Len(caps) = MaxCapabilities /\ UNCHANGED capabilities

CapabilitiesNext ==
  \/ \E rights \in Grants : CapInit(rights)
  \/ \E p \in DOMAIN caps, removed \in Removals : Attenuate(p, removed)
  \/ \E c \in DOMAIN caps, key \in RootKeys : ComputeToken(c, key)
  \/ CapabilitiesDone

CapabilitiesSpec == CapabilitiesInit /\ [][CapabilitiesNext]_capabilities

-----------------------------------------------------------------------------
CapabilitiesTypes ==
  /\ \A i \in DOMAIN caps :
       /\ caps[i].rights \subseteq RightsBits /\ caps[i].generation \in 0 .. MaxGeneration
       /\ caps[i].token \in [1 .. TokenBytes -> SUBSET (0 .. BitsInByte - 1)]
       /\ caps[i].parent \in 0 .. i - 1
  /\ Len(caps) <= MaxCapabilities /\ tokens <= MaxTokens

\* "Can only restrict, never expand" (capability.h:31): down every line of descent rights only get fewer,
\* whatever is removed in which order, what a descendant may do its parent may
\* do as well, and no line goes past the last generation, which is the only
\* one that is not valid. A token answers for the rights it was computed for:
\* it goes with an attenuated capability, but verifies there only if no right
\* was lost, and a capability without one verifies only for a root key that
\* is the rights themselves, twice.
TokensSpeakForRights ==
  \A i \in DOMAIN caps :
    LET c == caps[i] IN
    /\ c.parent = 0 => c.generation = 0 /\ c.rights \in Grants
    /\ c.parent # 0 =>
         LET p == caps[c.parent] IN
         /\ \A required \in Grants : Permits(c, required) => Permits(p, required)
         /\ c.rights \subseteq p.rights /\ c.generation = p.generation + 1 /\ CapIsValid(p)
    /\ c.signed # Unsigned => (VerifyToken(c, c.signed[2]) <=> c.rights = c.signed[1])
    /\ c.signed = Unsigned =>
         \A key \in RootKeys :
           VerifyToken(c, key) <=> \A n \in 1 .. TokenBytes : key[n] = RightByte(c.rights, n)
=============================================================================
