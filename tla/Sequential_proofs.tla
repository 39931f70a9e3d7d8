--------------------------- MODULE Sequential_proofs ---------------------------
(***************************************************************************)
(* Proofs about parts of airbot that run inside one call: capabilities,    *)
(* for every set of rights and root keys; the authenticated encryption and *)
(* the digests of messages, for every block size and length; and the       *)
(* derivation of keys, for every set of relays, messages and labels.       *)
(***************************************************************************)
EXTENDS Primitives, KeySchedule, Capabilities, TLAPS, SequenceTheorems, WellFoundedInduction

(* Capabilities. A token tells the rights it was computed for, because     *)
(* rotation and exclusive or lose nothing and every right has a place in   *)
(* some byte.                                                              *)

LEMMA RotationIsInjective ==
  ASSUME NEW x \in SUBSET (0 .. BitsInByte - 1), NEW y \in SUBSET (0 .. BitsInByte - 1),
         RotatedLeft(x) = RotatedLeft(y)
  PROVE  x \subseteq y
<1>. DEFINE next(b) == (b + 1) % BitsInByte
<1>1. BitsInByte \in Nat \ {0}
  BY CapabilitiesAssumption
<1>2. ASSUME NEW b \in 0 .. BitsInByte - 1
      PROVE  next(b) = IF b = BitsInByte - 1 THEN 0 ELSE b + 1
  <2>1. CASE b = BitsInByte - 1
    BY <1>1, <2>1
  <2>2. CASE b # BitsInByte - 1
    <3>1. b + 1 \in 0 .. BitsInByte - 1
      BY <1>1, <2>2
    <3>. QED  BY <1>1, <2>2, <3>1
  <2>. QED  BY <2>1, <2>2
<1>3. ASSUME NEW b \in 0 .. BitsInByte - 1, NEW c \in 0 .. BitsInByte - 1, next(b) = next(c)
      PROVE  b = c
  <2>. HIDE DEF next
  <2>. QED  BY <1>1, <1>2, <1>3
<1>4. ASSUME NEW b \in x
      PROVE  b \in y
  <2>1. next(b) \in RotatedLeft(y)
    BY DEF RotatedLeft
  <2>2. PICK c \in y : next(c) = next(b)
    BY <2>1 DEF RotatedLeft
  <2>. HIDE DEF next
  <2>3. b = c
    BY <1>3, <2>2
  <2>. QED  BY <2>3
<1>. QED  BY <1>4

LEMMA EveryRightHasAPlace ==
  ASSUME NEW right \in RightsBits
  PROVE  \E i \in 1 .. TokenBytes : \E b \in 0 .. BitsInByte - 1 :
           ((i - 1) % RightBytes) * BitsInByte + b = right
<1>. DEFINE q == right \div BitsInByte
            b == right % BitsInByte
<1>1. BitsInByte \in Nat \ {0} /\ RightBytes \in Nat \ {0} /\ right \in Nat /\ right < RightBytes * BitsInByte
  BY CapabilitiesAssumption DEF RightsBits
<1>2. q \in Nat /\ b \in 0 .. BitsInByte - 1 /\ q * BitsInByte + b = right
  BY <1>1
<1>. HIDE DEF q, b
<1>3. q < RightBytes
  <2>1. CASE q >= RightBytes
    <3>1. q * BitsInByte >= RightBytes * BitsInByte
      BY <1>1, <1>2, <2>1
    <3>. QED  BY <1>1, <1>2, <3>1
  <2>. QED  BY <1>1, <1>2, <2>1
<1>4. (q + 1) - 1 = q /\ q % RightBytes = q
  BY <1>1, <1>2, <1>3
<1>5. q + 1 \in 1 .. TokenBytes
  BY <1>1, <1>2, <1>3 DEF TokenBytes
<1>. QED  BY <1>2, <1>4, <1>5

TokenByte == SUBSET (0 .. BitsInByte - 1)
BitXor(x, y) == (x \ y) \cup (y \ x)

LEMMA RightByteIsByte ==
  ASSUME NEW rights, NEW i
  PROVE  RightByte(rights, i) \in TokenByte
BY DEF RightByte, TokenByte

LEMMA RightBytesTell ==
  ASSUME NEW r \in SUBSET RightsBits, NEW s \in SUBSET RightsBits,
         \A i \in 1 .. TokenBytes : RightByte(r, i) = RightByte(s, i)
  PROVE  r \subseteq s
<1>1. ASSUME NEW right \in r
      PROVE  right \in s
  <2>1. right \in RightsBits
    OBVIOUS
  <2>2. PICK i \in 1 .. TokenBytes : \E b \in 0 .. BitsInByte - 1 :
               ((i - 1) % RightBytes) * BitsInByte + b = right
    BY <2>1, EveryRightHasAPlace
  <2>3. PICK b \in 0 .. BitsInByte - 1 : ((i - 1) % RightBytes) * BitsInByte + b = right
    BY <2>2
  <2>4. b \in RightByte(r, i)
    BY <2>3 DEF RightByte
  <2>5. b \in RightByte(s, i)
    BY <2>4
  <2>. QED  BY <2>3, <2>5 DEF RightByte
<1>. QED  BY <1>1

\* The token of rights and a key is what cap_compute_token makes of each byte.
LEMMA TokenAt ==
  ASSUME NEW r, NEW k, NEW i \in 1 .. TokenBytes
  PROVE  TokenOf(r, k)[i] = RotatedLeft(BitXor(RightByte(r, i), k[i]))
BY DEF TokenOf, BitXor

LEMMA BitXorIsByte ==
  ASSUME NEW x \in TokenByte, NEW y \in TokenByte
  PROVE  BitXor(x, y) \in TokenByte
BY DEF BitXor, TokenByte

LEMMA RotationIsByte ==
  ASSUME NEW x \in TokenByte
  PROVE  RotatedLeft(x) \in TokenByte
<1>1. BitsInByte \in Nat \ {0}
  BY CapabilitiesAssumption
<1>2. ASSUME NEW b \in 0 .. BitsInByte - 1
      PROVE  (b + 1) % BitsInByte \in 0 .. BitsInByte - 1
  BY <1>1
<1>. QED  BY <1>2 DEF RotatedLeft, TokenByte

LEMMA RootKeyByte ==
  ASSUME NEW k \in RootKeys, NEW i \in 1 .. TokenBytes
  PROVE  k[i] \in TokenByte
BY CapabilitiesAssumption DEF TokenByte

LEMMA TokensAreTokens ==
  ASSUME NEW r, NEW k \in RootKeys
  PROVE  TokenOf(r, k) \in [1 .. TokenBytes -> TokenByte]
<1>1. ASSUME NEW i \in 1 .. TokenBytes
      PROVE  RotatedLeft(BitXor(RightByte(r, i), k[i])) \in TokenByte
  BY RightByteIsByte, RootKeyByte, BitXorIsByte, RotationIsByte
<1>. QED  BY <1>1 DEF TokenOf, BitXor

LEMMA BitXorTells ==
  ASSUME NEW x, NEW y, NEW k, BitXor(x, k) = BitXor(y, k)
  PROVE  x \subseteq y
BY DEF BitXor

LEMMA SameBytes ==
  ASSUME NEW r, NEW s, NEW k \in RootKeys, NEW i \in 1 .. TokenBytes,
         TokenOf(r, k)[i] = TokenOf(s, k)[i]
  PROVE  RightByte(r, i) = RightByte(s, i)
<1>. DEFINE x == BitXor(RightByte(r, i), k[i])
            y == BitXor(RightByte(s, i), k[i])
<1>1. RotatedLeft(x) = RotatedLeft(y)
  BY TokenAt
<1>2. x \in TokenByte /\ y \in TokenByte
  BY RightByteIsByte, RootKeyByte, BitXorIsByte
<1>. HIDE DEF x, y
<1>3. x \subseteq y /\ y \subseteq x
  BY <1>1, <1>2, RotationIsInjective DEF TokenByte
<1>4. x = y
  BY <1>3
<1>. QED  BY <1>4, BitXorTells DEF x, y

\* Under one root key a token is that of one set of rights only.
LEMMA TokensTell ==
  ASSUME NEW r \in SUBSET RightsBits, NEW s \in SUBSET RightsBits, NEW k \in RootKeys
  PROVE  TokenOf(r, k) = TokenOf(s, k) <=> r = s
<1>1. ASSUME TokenOf(r, k) = TokenOf(s, k)
      PROVE  r = s
  <2>1. \A i \in 1 .. TokenBytes : RightByte(r, i) = RightByte(s, i)
    BY <1>1, SameBytes
  <2>2. r \subseteq s /\ s \subseteq r
    BY <2>1, RightBytesTell
  <2>. QED  BY <2>2
<1>. QED  BY <1>1

\* No token was computed: that verifies for the key that is the rights, twice.
LEMMA ZeroTells ==
  ASSUME NEW r \in SUBSET RightsBits, NEW k \in RootKeys
  PROVE  ZeroToken = TokenOf(r, k) <=> \A n \in 1 .. TokenBytes : k[n] = RightByte(r, n)
<1>1. ASSUME NEW x
      PROVE  RotatedLeft(x) = {} <=> x = {}
  BY DEF RotatedLeft
<1>2. ASSUME NEW x, NEW y
      PROVE  BitXor(x, y) = {} <=> y = x
  BY DEF BitXor
<1>3. ASSUME NEW n \in 1 .. TokenBytes
      PROVE  TokenOf(r, k)[n] = {} <=> k[n] = RightByte(r, n)
  BY <1>1, <1>2, TokenAt
<1>4. /\ ZeroToken = [n \in 1 .. TokenBytes |-> ZeroToken[n]]
      /\ TokenOf(r, k) = [n \in 1 .. TokenBytes |-> TokenOf(r, k)[n]]
      /\ \A n \in 1 .. TokenBytes : ZeroToken[n] = {}
  BY DEF ZeroToken, TokenOf
<1>5. ZeroToken = TokenOf(r, k) <=> \A n \in 1 .. TokenBytes : TokenOf(r, k)[n] = {}
  BY <1>4
<1>. QED  BY <1>3, <1>5

-----------------------------------------------------------------------------
Capability ==
  [rights : SUBSET RightsBits, token : [1 .. TokenBytes -> TokenByte], generation : 0 .. MaxGeneration,
   parent : Nat, signed : {Unsigned} \cup ((SUBSET RightsBits) \X RootKeys)]

\* Where a capability comes from, and what its token was computed from.
Descent(cs, i) ==
  /\ cs[i].parent \in 0 .. i - 1
  /\ cs[i].parent = 0 => cs[i].generation = 0 /\ cs[i].rights \in Grants
  /\ cs[i].parent # 0 =>
       /\ cs[i].rights \subseteq cs[cs[i].parent].rights
       /\ cs[i].generation = cs[cs[i].parent].generation + 1

Speaks(c) ==
  c.token = IF c.signed = Unsigned THEN ZeroToken ELSE TokenOf(c.signed[1], c.signed[2])

CapabilitiesInv ==
  /\ caps \in Seq(Capability) /\ Len(caps) <= MaxCapabilities
  /\ tokens \in Nat /\ tokens <= MaxTokens
  /\ \A i \in DOMAIN caps : Descent(caps, i) /\ Speaks(caps[i])

\* A capability is appended, and those before it stay.
LEMMA CapabilityAppended ==
  ASSUME CapabilitiesInv, Len(caps) < MaxCapabilities, UNCHANGED tokens,
         NEW c \in Capability, caps' = Append(caps, c), Speaks(c),
         Descent(caps', Len(caps) + 1)
  PROVE  CapabilitiesInv'
<1>1. caps \in Seq(Capability) /\ DOMAIN caps = 1 .. Len(caps) /\ Len(caps) \in Nat /\ MaxCapabilities \in Nat
  BY CapabilitiesAssumption DEF CapabilitiesInv
<1>2. caps' \in Seq(Capability) /\ Len(caps') = Len(caps) + 1 /\ DOMAIN caps' = 1 .. Len(caps) + 1
  BY <1>1
<1>3. /\ \A i \in 1 .. Len(caps) : caps'[i] = caps[i]
      /\ caps'[Len(caps) + 1] = c
  BY <1>1
<1>4. Len(caps') <= MaxCapabilities
  BY <1>1, <1>2
<1>5. ASSUME NEW i \in DOMAIN caps'
      PROVE  Descent(caps', i) /\ Speaks(caps'[i])
  <2>1. CASE i = Len(caps) + 1
    BY <2>1, <1>3
  <2>2. CASE i \in 1 .. Len(caps)
    <3>1. Descent(caps, i) /\ Speaks(caps[i])
      BY <1>1, <2>2 DEF CapabilitiesInv
    <3>2. caps[i].parent = 0 \/ caps[i].parent \in 1 .. Len(caps)
      BY <1>1, <2>2, <3>1 DEF Descent
    <3>3. caps'[i] = caps[i] /\ (caps[i].parent # 0 => caps'[caps[i].parent] = caps[caps[i].parent])
      BY <1>3, <2>2, <3>2
    <3>. QED  BY <3>1, <3>3 DEF Descent
  <2>. QED  BY <1>1, <1>2, <2>1, <2>2
<1>. QED  BY <1>2, <1>4, <1>5 DEF CapabilitiesInv

LEMMA CapInitHolds ==
  ASSUME CapabilitiesInv, NEW rights \in Grants, CapInit(rights)
  PROVE  CapabilitiesInv'
<1>. DEFINE c == [rights |-> rights, token |-> ZeroToken, generation |-> 0,
                  parent |-> 0, signed |-> Unsigned]
<1>1. rights \in SUBSET RightsBits /\ MaxGeneration \in Nat
  BY CapabilitiesAssumption
<1>2. ZeroToken \in [1 .. TokenBytes -> TokenByte]
  BY DEF ZeroToken, TokenByte
<1>3. c \in Capability
  BY <1>1, <1>2 DEF Capability
<1>4. Speaks(c)
  BY DEF Speaks
<1>5. caps' = Append(caps, c) /\ Len(caps) < MaxCapabilities /\ UNCHANGED tokens
  BY DEF CapInit
<1>6. caps'[Len(caps) + 1] = c /\ Len(caps) \in Nat
  BY <1>5, <1>3 DEF CapabilitiesInv
<1>7. Descent(caps', Len(caps) + 1)
  BY <1>6 DEF Descent
<1>. HIDE DEF c
<1>. QED  BY <1>3, <1>4, <1>5, <1>7, CapabilityAppended

LEMMA AttenuateHolds ==
  ASSUME CapabilitiesInv, NEW p \in DOMAIN caps, NEW removed \in Removals, Attenuate(p, removed)
  PROVE  CapabilitiesInv'
<1>. DEFINE c == [caps[p] EXCEPT !.rights = @ \ removed, !.generation = @ + 1, !.parent = p]
<1>1. caps' = Append(caps, c) /\ Len(caps) < MaxCapabilities /\ UNCHANGED tokens
      /\ caps[p].generation < MaxGeneration
  BY DEF Attenuate
<1>2. caps \in Seq(Capability) /\ p \in 1 .. Len(caps) /\ Len(caps) \in Nat /\ caps[p] \in Capability
  BY DEF CapabilitiesInv
<1>3. /\ caps[p].rights \in SUBSET RightsBits /\ caps[p].token \in [1 .. TokenBytes -> TokenByte]
      /\ caps[p].generation \in 0 .. MaxGeneration /\ MaxGeneration \in Nat
      /\ caps[p].signed \in {Unsigned} \cup ((SUBSET RightsBits) \X RootKeys)
  BY <1>2, CapabilitiesAssumption DEF Capability
<1>4. /\ c.rights = caps[p].rights \ removed /\ c.generation = caps[p].generation + 1
      /\ c.parent = p /\ c.token = caps[p].token /\ c.signed = caps[p].signed
  BY <1>2 DEF Capability
<1>5. /\ caps[p].rights \ removed \in SUBSET RightsBits
      /\ caps[p].generation + 1 \in 0 .. MaxGeneration /\ p \in Nat
  BY <1>1, <1>2, <1>3
<1>7. c \in Capability
  <2>. DEFINE g == caps[p].generation + 1
              left == caps[p].rights \ removed
  <2>1. c = [caps[p] EXCEPT !.rights = left, !.generation = g, !.parent = p]
    OBVIOUS
  <2>. HIDE DEF c, g, left
  <2>2. left \in SUBSET RightsBits /\ g \in 0 .. MaxGeneration
    BY <1>5 DEF left, g
  <2>. QED  BY <1>2, <1>5, <2>1, <2>2 DEF Capability
<1>. HIDE DEF c
<1>8. Speaks(c)
  BY <1>2, <1>4 DEF CapabilitiesInv, Speaks
<1>9. caps'[Len(caps) + 1] = c /\ caps'[p] = caps[p]
  BY <1>1, <1>2, <1>7
<1>10. p \in 0 .. (Len(caps) + 1) - 1 /\ p # 0
  BY <1>2
<1>11. Descent(caps', Len(caps) + 1)
  BY <1>4, <1>9, <1>10 DEF Descent
<1>. QED  BY <1>1, <1>7, <1>8, <1>11, CapabilityAppended

LEMMA ComputeTokenHolds ==
  ASSUME CapabilitiesInv, NEW k \in DOMAIN caps, NEW root \in RootKeys, ComputeToken(k, root)
  PROVE  CapabilitiesInv'
<1>. DEFINE made == TokenOf(caps[k].rights, root)
            from == <<caps[k].rights, root>>
<1>1. caps \in Seq(Capability) /\ k \in 1 .. Len(caps) /\ Len(caps) \in Nat /\ DOMAIN caps = 1 .. Len(caps)
  BY DEF CapabilitiesInv
<1>2. caps' = [caps EXCEPT ![k].token = made, ![k].signed = from]
      /\ tokens < MaxTokens /\ tokens' = tokens + 1
  BY DEF ComputeToken
<1>3. made \in [1 .. TokenBytes -> TokenByte]
  BY TokensAreTokens
<1>3a. caps[k] \in Capability
  BY <1>1
<1>4. caps[k].rights \in SUBSET RightsBits
  BY <1>3a DEF Capability
<1>5. from \in {Unsigned} \cup ((SUBSET RightsBits) \X RootKeys) /\ from # Unsigned
  BY <1>4 DEF Unsigned
<1>6. Len(caps') = Len(caps) /\ DOMAIN caps' = DOMAIN caps
  BY <1>1, <1>2
<1>7. \A i \in DOMAIN caps : i # k => caps'[i] = caps[i]
  BY <1>1, <1>2
<1>8. /\ caps'[k].rights = caps[k].rights /\ caps'[k].generation = caps[k].generation
      /\ caps'[k].parent = caps[k].parent
  BY <1>1, <1>2 DEF Capability
<1>9. caps'[k].token = made /\ caps'[k].signed = from
  BY <1>1, <1>2 DEF Capability
<1>10. caps'[k] \in Capability
  <2>. HIDE DEF made, from
  <2>1. caps'[k] = [caps[k] EXCEPT !.token = made, !.signed = from]
    BY <1>3a, <1>1, <1>2 DEF Capability
  <2>. QED  BY <1>3a, <1>3, <1>5, <2>1 DEF Capability
<1>11. caps' \in Seq(Capability)
  <2>1. caps' = [i \in 1 .. Len(caps) |-> caps'[i]]
    BY <1>1, <1>2
  <2>2. \A i \in 1 .. Len(caps) : caps'[i] \in Capability
    BY <1>1, <1>7, <1>10
  <2>. QED  BY <1>1, <2>1, <2>2
<1>12. Speaks(caps'[k])
  BY <1>5, <1>9 DEF Speaks
<1>13. ASSUME NEW i \in DOMAIN caps
       PROVE  /\ caps'[i].rights = caps[i].rights /\ caps'[i].generation = caps[i].generation
              /\ caps'[i].parent = caps[i].parent
  BY <1>7, <1>8
<1>14. ASSUME NEW i \in DOMAIN caps
       PROVE  Descent(caps', i)
  <2>1. Descent(caps, i)
    BY DEF CapabilitiesInv
  <2>2. caps[i].parent = 0 \/ caps[i].parent \in DOMAIN caps
    BY <1>1, <2>1 DEF Descent
  <2>. QED  BY <1>13, <2>1, <2>2 DEF Descent
<1>15. \A i \in DOMAIN caps : Speaks(caps'[i])
  BY <1>7, <1>12 DEF CapabilitiesInv
<1>16. tokens' \in Nat /\ tokens' <= MaxTokens
  BY <1>2, CapabilitiesAssumption DEF CapabilitiesInv
<1>. QED  BY <1>6, <1>11, <1>14, <1>15, <1>16 DEF CapabilitiesInv

LEMMA CapabilitiesHold == CapabilitiesSpec => []CapabilitiesInv
<1>1. CapabilitiesInit => CapabilitiesInv
  BY CapabilitiesAssumption DEF CapabilitiesInit, CapabilitiesInv
<1>2. CapabilitiesInv /\ [CapabilitiesNext]_capabilities => CapabilitiesInv'
  <2>. SUFFICES ASSUME CapabilitiesInv, [CapabilitiesNext]_capabilities PROVE CapabilitiesInv'
    OBVIOUS
  <2>1. CASE \E rights \in Grants : CapInit(rights)
    BY <2>1, CapInitHolds
  <2>2. CASE \E p \in DOMAIN caps, removed \in Removals : Attenuate(p, removed)
    BY <2>2, AttenuateHolds
  <2>3. CASE \E c \in DOMAIN caps, root \in RootKeys : ComputeToken(c, root)
    BY <2>3, ComputeTokenHolds
  <2>4. CASE UNCHANGED capabilities
    BY <2>4 DEF capabilities, CapabilitiesInv, Descent, Speaks
  <2>. QED  BY <2>1, <2>2, <2>3, <2>4 DEF CapabilitiesNext, CapabilitiesDone
<1>. QED  BY <1>1, <1>2, PTL DEF CapabilitiesSpec

LEMMA TheySpeak == CapabilitiesInv => TokensSpeakForRights
<1>. SUFFICES ASSUME CapabilitiesInv PROVE TokensSpeakForRights
  OBVIOUS
<1>1. ASSUME NEW i \in DOMAIN caps
      PROVE  /\ caps[i] \in Capability /\ Descent(caps, i) /\ Speaks(caps[i])
             /\ caps[i].parent # 0 => caps[caps[i].parent] \in Capability
  <2>1. caps \in Seq(Capability) /\ i \in 1 .. Len(caps) /\ Len(caps) \in Nat
    BY DEF CapabilitiesInv
  <2>2. Descent(caps, i) /\ Speaks(caps[i])
    BY DEF CapabilitiesInv
  <2>3. caps[i].parent # 0 => caps[i].parent \in 1 .. Len(caps)
    BY <2>1, <2>2 DEF Descent
  <2>. QED  BY <2>1, <2>2, <2>3
<1>2. ASSUME NEW i \in DOMAIN caps, caps[i].parent # 0
      PROVE  LET p == caps[caps[i].parent] IN
             /\ \A required \in Grants : Permits(caps[i], required) => Permits(p, required)
             /\ caps[i].rights \subseteq p.rights /\ caps[i].generation = p.generation + 1 /\ CapIsValid(p)
  <2>. DEFINE p == caps[caps[i].parent]
  <2>1. caps[i].rights \subseteq p.rights /\ caps[i].generation = p.generation + 1
    BY <1>1, <1>2 DEF Descent
  <2>2. caps[i].generation \in 0 .. MaxGeneration /\ p.generation \in 0 .. MaxGeneration /\ MaxGeneration \in Nat
    BY <1>1, <1>2, CapabilitiesAssumption DEF Capability
  <2>3. CapIsValid(p)
    BY <2>1, <2>2 DEF CapIsValid
  <2>. QED  BY <2>1, <2>3 DEF Permits
<1>3. ASSUME NEW i \in DOMAIN caps, caps[i].signed # Unsigned
      PROVE  VerifyToken(caps[i], caps[i].signed[2]) <=> caps[i].rights = caps[i].signed[1]
  <2>1. /\ caps[i].signed \in (SUBSET RightsBits) \X RootKeys /\ caps[i].rights \in SUBSET RightsBits
        /\ caps[i].token = TokenOf(caps[i].signed[1], caps[i].signed[2])
    BY <1>1, <1>3 DEF Capability, Speaks
  <2>2. caps[i].signed[1] \in SUBSET RightsBits /\ caps[i].signed[2] \in RootKeys
    BY <2>1
  <2>. QED  BY <2>1, <2>2, TokensTell DEF VerifyToken
<1>4. ASSUME NEW i \in DOMAIN caps, caps[i].signed = Unsigned, NEW root \in RootKeys
      PROVE  VerifyToken(caps[i], root) <=> \A n \in 1 .. TokenBytes : root[n] = RightByte(caps[i].rights, n)
  <2>1. caps[i].rights \in SUBSET RightsBits /\ caps[i].token = ZeroToken
    BY <1>1, <1>4 DEF Capability, Speaks
  <2>. QED  BY <2>1, ZeroTells DEF VerifyToken
<1>5. \A i \in DOMAIN caps : caps[i].parent = 0 => caps[i].generation = 0 /\ caps[i].rights \in Grants
  BY <1>1 DEF Descent
<1>. QED  BY <1>2, <1>3, <1>4, <1>5 DEF TokensSpeakForRights

\* Rights, tokens and generations stay within their widths (capability.h's
\* struct), and a parent is older than its child.
THEOREM CapabilityTypes == CapabilitiesSpec => []CapabilitiesTypes
<1>1. CapabilitiesInv => CapabilitiesTypes
  <2>. SUFFICES ASSUME CapabilitiesInv PROVE CapabilitiesTypes
    OBVIOUS
  <2>1. ASSUME NEW i \in DOMAIN caps
        PROVE  caps[i] \in Capability /\ caps[i].parent \in 0 .. i - 1
    BY DEF CapabilitiesInv, Descent
  <2>. QED  BY <2>1 DEF CapabilitiesInv, CapabilitiesTypes, Capability, TokenByte
<1>. QED  BY <1>1, CapabilitiesHold, PTL

\* cap_attenuate "can only restrict, never expand", however deep the line, and
\* cap_verify_token tells every other set of rights from the one a token was
\* computed for, whatever the grants, the removals and the root keys.
THEOREM RightsOnlyShrink == CapabilitiesSpec => []TokensSpeakForRights
BY CapabilitiesHold, TheySpeak, PTL

-----------------------------------------------------------------------------
(* The authenticated encryption. A state of Poly1305 holds the message in  *)
(* blocks, whatever pieces it came in; so the tag of a message is the      *)
(* blocks of its padded parts and of their lengths, and tells the parts.   *)

\* A non-empty set of naturals has a least element.
LEMMA LeastNatural ==
  ASSUME NEW T, T \subseteq Nat, T # {}
  PROVE  \E m \in T : \A k \in T : m <= k
<1>1. PICK m \in T : \A k \in T : ~ (<<k, m>> \in OpToRel(<, Nat))
  BY NatLessThanWellFounded, WFMin
<1>2. \A k \in T : ~ (k < m)
  BY <1>1 DEF OpToRel
<1>. QED  BY <1>2

LEMMA Joined ==
  ASSUME NEW S, NEW s \in Seq(S), NEW t \in Seq(S), NEW n, Len(t) = n
  PROVE  /\ s \o t \in Seq(S) /\ Len(s \o t) = Len(s) + n
         /\ \A q \in 1 .. Len(s) : (s \o t)[q] = s[q]
         /\ \A p \in 1 .. n : (s \o t)[Len(s) + p] = t[p]
OBVIOUS

\* A function that goes on from its value before exists.
IsRun(f, F, b, n) == f = [i \in 0 .. n |-> IF i = 0 THEN b ELSE F[f[i - 1]]]

LEMMA RunsExist ==
  ASSUME NEW F, NEW b, NEW n \in Nat
  PROVE  \E f : IsRun(f, F, b, n)
<1> DEFINE T == {m \in Nat : ~ \E f : IsRun(f, F, b, m)}
<1>1. SUFFICES ASSUME T # {}  PROVE FALSE
  OBVIOUS
<1>2. PICK m \in T : \A k \in T : m <= k
  BY <1>1, LeastNatural
<1>3. m # 0
  <2>1. IsRun([i \in 0 .. 0 |-> b], F, b, 0)
    BY DEF IsRun
  <2>. QED  BY <1>2, <2>1
<1>4. m - 1 \in Nat /\ m - 1 \notin T
  BY <1>2, <1>3
<1>5. PICK f : IsRun(f, F, b, m - 1)
  BY <1>4
<1> DEFINE g == [i \in 0 .. m |-> IF i \in 0 .. m - 1 THEN f[i] ELSE F[f[m - 1]]]
<1>6. ASSUME NEW i \in 0 .. m  PROVE g[i] = IF i = 0 THEN b ELSE F[g[i - 1]]
  <2>1. \A j \in 0 .. m - 1 : f[j] = IF j = 0 THEN b ELSE F[f[j - 1]]
    BY <1>5 DEF IsRun
  <2>2. CASE i = 0
    BY <1>4, <2>1, <2>2
  <2>3. CASE i \in 1 .. m - 1
    <3>1. i - 1 \in 0 .. m - 1 /\ i - 1 \in 0 .. m /\ i \in 0 .. m - 1
      BY <1>4, <2>3
    <3>. QED  BY <2>1, <2>3, <3>1
  <2>4. CASE i = m
    <3>1. i - 1 \in 0 .. m - 1 /\ i - 1 \in 0 .. m /\ i \notin 0 .. m - 1 /\ i # 0 /\ i - 1 = m - 1
      BY <1>3, <1>4, <2>4
    <3>. QED  BY <3>1
  <2>. QED  BY <1>4, <2>2, <2>3, <2>4
<1>7. IsRun(g, F, b, m)
  BY <1>6 DEF IsRun
<1>. QED  BY <1>2, <1>7

\* What is left of a number when its last bytes are taken off.
LEMMA ShiftedBy ==
  ASSUME NEW n \in Nat, NEW w \in Nat
  PROVE  /\ Shifted(n, w)[0] = n
         /\ \A i \in 1 .. w : Shifted(n, w)[i] = Shifted(n, w)[i - 1] \div 256
         /\ \A i \in 0 .. w : Shifted(n, w)[i] \in Nat
<1> DEFINE F == [m \in Nat |-> m \div 256]
           Step(f) == [i \in 0 .. w |-> IF i = 0 THEN n ELSE f[i - 1] \div 256]
           s == CHOOSE f : f = Step(f)
<1>1. PICK f : IsRun(f, F, n, w)
  BY RunsExist
<1>2. ASSUME NEW T, T = {k \in 0 .. w : f[k] \notin Nat}  PROVE T = {}
  <2>1. SUFFICES ASSUME T # {}  PROVE FALSE
    OBVIOUS
  <2>2. PICK m \in T : \A k \in T : m <= k
    <3>1. T \subseteq Nat
      BY <1>2
    <3>. QED  BY <2>1, <3>1, LeastNatural
  <2>3. \A j \in 0 .. w : f[j] = IF j = 0 THEN n ELSE F[f[j - 1]]
    BY <1>1 DEF IsRun
  <2>4. m # 0
    BY <1>2, <2>2, <2>3
  <2>5. f[m - 1] \in Nat
    BY <1>2, <2>2, <2>4
  <2>6. f[m] = f[m - 1] \div 256
    BY <1>2, <2>2, <2>3, <2>4, <2>5
  <2>. QED  BY <1>2, <2>2, <2>5, <2>6
<1>3. \A k \in 0 .. w : f[k] \in Nat
  BY <1>2
<1>4. \A i \in 0 .. w : i # 0 => i - 1 \in 0 .. w /\ F[f[i - 1]] = f[i - 1] \div 256
  BY <1>3
<1>5. f = Step(f)
  <2>1. f = [i \in 0 .. w |-> IF i = 0 THEN n ELSE F[f[i - 1]]]
    BY <1>1 DEF IsRun
  <2>. QED  BY <1>4, <2>1
<1>6. s = Step(s)
  BY <1>5
<1>7. Shifted(n, w) = s
  BY DEF Shifted
<1> HIDE DEF s, F
<1>8. /\ s[0] = n
      /\ \A i \in 1 .. w : s[i] = s[i - 1] \div 256
  BY <1>6
<1>9. \A i \in 0 .. w : s[i] \in Nat
  <2> DEFINE T == {k \in 0 .. w : s[k] \notin Nat}
  <2>1. SUFFICES ASSUME T # {}  PROVE FALSE
    OBVIOUS
  <2>2. PICK m \in T : \A k \in T : m <= k
    <3>1. T \subseteq Nat
      OBVIOUS
    <3>. QED  BY <2>1, <3>1, LeastNatural
  <2>3. m # 0
    BY <1>8, <2>2
  <2>4. s[m - 1] \in Nat /\ s[m] = s[m - 1] \div 256
    BY <1>8, <2>2, <2>3
  <2>. QED  BY <2>2, <2>4
<1>. QED  BY <1>7, <1>8, <1>9

LEMMA DigitsLength ==
  ASSUME NEW n, NEW w \in Nat
  PROVE  Len(Digits(n, w)) = w /\ DOMAIN Digits(n, w) = 1 .. w
BY DEF Digits

LEMMA ByteAndRest ==
  ASSUME NEW x \in Nat, NEW y \in Nat, x \div 256 = y \div 256, x % 256 = y % 256
  PROVE  x = y
<1>1. \A z \in Nat : z = 256 * (z \div 256) + (z % 256)
  OBVIOUS
<1>. QED  BY <1>1

\* The digits tell a number that fits.
LEMMA DigitsTell ==
  ASSUME NEW m \in Nat, NEW n \in Nat, NEW w \in Nat, Digits(m, w) = Digits(n, w),
         Shifted(m, w)[w] = 0, Shifted(n, w)[w] = 0
  PROVE  m = n
<1> DEFINE a == Shifted(m, w)
           b == Shifted(n, w)
<1>1. /\ a[0] = m /\ \A i \in 1 .. w : a[i] = a[i - 1] \div 256
      /\ \A i \in 0 .. w : a[i] \in Nat
  BY ShiftedBy
<1>2. /\ b[0] = n /\ \A i \in 1 .. w : b[i] = b[i - 1] \div 256
      /\ \A i \in 0 .. w : b[i] \in Nat
  BY ShiftedBy
<1>3. a[w] = 0 /\ b[w] = 0
  OBVIOUS
<1>4. ASSUME NEW i \in 1 .. w  PROVE a[i - 1] % 256 = b[i - 1] % 256
  <2>1. Digits(m, w)[i] = Byte(a[i - 1] % 256) /\ Digits(n, w)[i] = Byte(b[i - 1] % 256)
    BY DEF Digits
  <2>2. Byte(a[i - 1] % 256).value = Byte(b[i - 1] % 256).value
    BY <2>1
  <2>. QED  BY <2>2 DEF Byte
<1> HIDE DEF a, b
<1> DEFINE T == {k \in 0 .. w : a[w - k] # b[w - k]}
<1>5. T = {}
  <2>1. SUFFICES ASSUME T # {}  PROVE FALSE
    OBVIOUS
  <2>2. PICK k \in T : \A j \in T : k <= j
    <3>1. T \subseteq Nat
      OBVIOUS
    <3>. QED  BY <2>1, <3>1, LeastNatural
  <2>3. k # 0 /\ k \in 1 .. w
    BY <1>3, <2>2
  <2>4. k - 1 \in 0 .. w /\ k - 1 \notin T
    BY <2>2, <2>3
  <2> DEFINE i == w - (k - 1)
  <2>5. i \in 1 .. w /\ i - 1 = w - k /\ i - 1 \in 0 .. w
    BY <2>3
  <2>6. a[i] = b[i]
    BY <2>4
  <2> HIDE DEF i
  <2>7. a[i] = a[i - 1] \div 256 /\ b[i] = b[i - 1] \div 256 /\ a[i - 1] \in Nat /\ b[i - 1] \in Nat
    BY <1>1, <1>2, <2>5
  <2>8. a[i - 1] % 256 = b[i - 1] % 256
    BY <1>4, <2>5
  <2>10. a[i - 1] = b[i - 1]
    <3>1. a[i - 1] \div 256 = b[i - 1] \div 256
      BY <2>6, <2>7, Zenon
    <3>. QED  BY <2>7, <2>8, <3>1, ByteAndRest, Zenon
  <2>. QED  BY <2>2, <2>5, <2>10
<1>6. w \in 0 .. w /\ w - w = 0
  OBVIOUS
<1>7. a[0] = b[0]
  BY <1>5, <1>6
<1>. QED  BY <1>1, <1>2, <1>7

-----------------------------------------------------------------------------
\* Sequences by their places.
LEMMA PartOf ==
  ASSUME NEW S, NEW d \in Seq(S), NEW a \in Nat, NEW n \in Nat, a + n <= Len(d)
  PROVE  /\ SubSeq(d, a + 1, a + n) \in Seq(S) /\ Len(SubSeq(d, a + 1, a + n)) = n
         /\ SubSeq(d, a + 1, a + n) = [k \in 1 .. n |-> d[a + k]]
<1> DEFINE t == SubSeq(d, a + 1, a + n)
<1>1. t \in Seq(S) /\ Len(t) = n
  OBVIOUS
<1>2. \A k \in 1 .. n : t[k] = d[a + k]
  OBVIOUS
<1>3. t = [k \in 1 .. Len(t) |-> t[k]]
  BY <1>1
<1> HIDE DEF t
<1>4. t = [k \in 1 .. n |-> d[a + k]]
  BY <1>1, <1>2, <1>3
<1>. QED  BY <1>1, <1>4 DEF t

IsJoin(j, s, t) ==
  /\ Len(j) = Len(s) + Len(t)
  /\ \A q \in 1 .. Len(s) : j[q] = s[q]
  /\ \A p \in 1 .. Len(t) : j[Len(s) + p] = t[p]

LEMMA JoinIs ==
  ASSUME NEW S, NEW s \in Seq(S), NEW t \in Seq(S)
  PROVE  s \o t \in Seq(S) /\ IsJoin(s \o t, s, t)
BY DEF IsJoin

LEMMA FirstOf ==
  ASSUME NEW S, NEW d \in Seq(S), NEW n \in 0 .. Len(d)
  PROVE  /\ SubSeq(d, 1, n) \in Seq(S) /\ Len(SubSeq(d, 1, n)) = n
         /\ \A k \in 1 .. n : SubSeq(d, 1, n)[k] = d[k]
<1>1. n \in Nat /\ n <= Len(d)
  OBVIOUS
<1>. QED  BY <1>1

LEMMA RestOf ==
  ASSUME NEW S, NEW d \in Seq(S), NEW n \in 0 .. Len(d)
  PROVE  /\ After(d, n) \in Seq(S) /\ Len(After(d, n)) = Len(d) - n /\ Len(After(d, n)) \in Nat
         /\ \A k \in 1 .. Len(After(d, n)) : After(d, n)[k] = d[n + k]
<1>1. n \in Nat /\ n <= Len(d) /\ Len(d) \in Nat
  OBVIOUS
<1>. QED  BY <1>1 DEF After

LEMMA Appended ==
  ASSUME NEW S, NEW s \in Seq(S), NEW e \in S
  PROVE  /\ Append(s, e) \in Seq(S) /\ Len(Append(s, e)) = Len(s) + 1
         /\ \A i \in 1 .. Len(s) : Append(s, e)[i] = s[i]
         /\ Append(s, e)[Len(s) + 1] = e
OBVIOUS

LEMMA Quotient ==
  ASSUME NEW n \in Nat, NEW b \in Nat \ {0}
  PROVE  /\ n \div b \in Nat /\ n % b \in 0 .. b - 1
         /\ n = (n \div b) * b + (n % b)
OBVIOUS

LEMMA QuotientIs ==
  ASSUME NEW b \in Nat \ {0}, NEW q \in Nat, NEW r \in 0 .. b - 1
  PROVE  (q * b + r) \div b = q /\ (q * b + r) % b = r
OBVIOUS

LEMMA Multiples ==
  ASSUME NEW b \in Nat, NEW i \in Nat, NEW j \in Nat
  PROVE  /\ i * b \in Nat /\ (i + j) * b = i * b + j * b /\ (i <= j => i * b <= j * b)
         /\ 1 * b = b /\ 0 * b = 0
OBVIOUS

LEMMA Before ==
  ASSUME NEW b \in Nat, NEW i \in Nat \ {0}
  PROVE  i * b = (i - 1) * b + b /\ (i - 1) * b \in Nat
OBVIOUS

LEMMA MinOfTwo ==
  ASSUME NEW x \in Nat, NEW y \in Nat
  PROVE  Min({x, y}) = IF x <= y THEN x ELSE y
BY DEF Min

-----------------------------------------------------------------------------
(* Poly1305 holds the message in blocks, and what is left of it in the buffer. *)

LEMMA PolySize == PolyBlock \in Nat \ {0}
BY DigestsAssumption

BlockAt(d, a) == [bytes |-> [k \in 1 .. PolyBlock |-> d[a + k]], hibit |-> TRUE]

Absorbed(s, d, q) ==
  /\ q \in Nat /\ q * PolyBlock <= Len(d) /\ Len(d) - q * PolyBlock < PolyBlock
  /\ s.blocks = [i \in 1 .. q |-> BlockAt(d, (i - 1) * PolyBlock)]
  /\ s.buf = [k \in 1 .. Len(d) - q * PolyBlock |-> d[q * PolyBlock + k]]

\* What more there is leaves the blocks before as they are.
LEMMA BlocksStay ==
  ASSUME NEW S, NEW d \in Seq(S), NEW x \in Seq(S), NEW q \in Nat, q * PolyBlock <= Len(d), NEW i \in 1 .. q
  PROVE  BlockAt(d \o x, (i - 1) * PolyBlock) = BlockAt(d, (i - 1) * PolyBlock)
<1> DEFINE a == (i - 1) * PolyBlock
<1>1. a \in Nat /\ a + PolyBlock <= Len(d)
  <2>1. i \in Nat \ {0} /\ i <= q
    OBVIOUS
  <2>2. i * PolyBlock = a + PolyBlock /\ a \in Nat
    BY <2>1, PolySize, Before
  <2>3. i * PolyBlock <= q * PolyBlock
    BY <2>1, PolySize, Multiples
  <2>4. i * PolyBlock \in Nat /\ q * PolyBlock \in Nat
    BY <2>1, PolySize, Multiples
  <2> HIDE DEF a
  <2>. QED  BY <2>2, <2>3, <2>4, PolySize
<1> HIDE DEF a
<1>2. \A k \in 1 .. PolyBlock : a + k \in 1 .. Len(d)
  BY <1>1, PolySize
<1>3. \A k \in 1 .. PolyBlock : (d \o x)[a + k] = d[a + k]
  BY <1>2, Joined
<1>. QED  BY <1>3 DEF BlockAt, a

PolyData(S) == [bytes : Seq(S), hibit : BOOLEAN]

LEMMA BlocksAre ==
  ASSUME NEW S, NEW d \in Seq(S), NEW a \in Nat, a + PolyBlock <= Len(d)
  PROVE  BlockAt(d, a) \in PolyData(S)
<1>1. [k \in 1 .. PolyBlock |-> d[a + k]] \in Seq(S)
  BY PolySize, PartOf
<1>. QED  BY <1>1 DEF BlockAt, PolyData

LEMMA AbsorbedTypes ==
  ASSUME NEW S, NEW d \in Seq(S), NEW s, NEW q, Absorbed(s, d, q)
  PROVE  /\ s.blocks \in Seq(PolyData(S)) /\ Len(s.blocks) = q
         /\ s.buf \in Seq(S) /\ Len(s.buf) = Len(d) - q * PolyBlock
         /\ q * PolyBlock \in Nat /\ Len(d) - q * PolyBlock \in 0 .. PolyBlock - 1
<1>1. q \in Nat /\ q * PolyBlock \in Nat /\ q * PolyBlock <= Len(d) /\ Len(d) \in Nat
  BY PolySize, Multiples DEF Absorbed
<1>2. Len(d) - q * PolyBlock \in 0 .. PolyBlock - 1
  BY <1>1, PolySize DEF Absorbed
<1>3. s.buf \in Seq(S) /\ Len(s.buf) = Len(d) - q * PolyBlock
  <2> DEFINE a == q * PolyBlock
             r == Len(d) - a
  <2>1. s.buf = [k \in 1 .. r |-> d[a + k]]
    BY DEF Absorbed
  <2>2. a \in Nat /\ r \in Nat /\ a + r <= Len(d)
    BY <1>1, <1>2
  <2> HIDE DEF a, r
  <2>3. s.buf \in Seq(S) /\ Len(s.buf) = r
    BY <2>1, <2>2, PartOf
  <2>. QED  BY <2>3 DEF a, r
<1>4. s.blocks \in Seq(PolyData(S)) /\ Len(s.blocks) = q
  <2>1. ASSUME NEW i \in 1 .. q  PROVE BlockAt(d, (i - 1) * PolyBlock) \in PolyData(S)
    <3>1. i \in Nat \ {0} /\ i <= q
      BY <1>1
    <3>2. i * PolyBlock = (i - 1) * PolyBlock + PolyBlock /\ (i - 1) * PolyBlock \in Nat
      BY <3>1, PolySize, Before
    <3>3. i * PolyBlock <= q * PolyBlock
      BY <1>1, <3>1, PolySize, Multiples
    <3>4. (i - 1) * PolyBlock + PolyBlock <= Len(d)
      BY <1>1, <3>2, <3>3, PolySize
    <3>. QED  BY <3>2, <3>4, BlocksAre
  <2> HIDE DEF PolyData
  <2>. QED  BY <1>1, <2>1 DEF Absorbed
<1>. QED  BY <1>1, <1>2, <1>3, <1>4

\* poly1305_update goes on with the message, whatever pieces it comes in.
LEMMA PolyTakes ==
  ASSUME NEW S, NEW d \in Seq(S), NEW x \in Seq(S), NEW s, NEW q, Absorbed(s, d, q)
  PROVE  \E u \in Nat : Absorbed(PolyUpdate(s, x), d \o x, u)
<1> DEFINE D == d \o x
           a == q * PolyBlock
           r == Len(d) - a
           fill == IF s.buf = <<>> THEN 0 ELSE Min({Len(x), PolyBlock - Len(s.buf)})
           buf == s.buf \o SubSeq(x, 1, fill)
           full == Len(buf) = PolyBlock
           more == After(x, fill)
           whole == Len(more) \div PolyBlock
           cut == [i \in 1 .. whole |-> [bytes |-> SubSeq(more, (i - 1) * PolyBlock + 1, i * PolyBlock),
                                         hibit |-> TRUE]]
           rest == After(more, whole * PolyBlock)
           new == PolyUpdate(s, x)
<1>1. /\ new.blocks = (IF full THEN PolyAdd(s.blocks, buf, TRUE) ELSE s.blocks) \o cut
      /\ new.buf = IF rest # <<>> THEN rest ELSE IF full THEN <<>> ELSE buf
  BY DEF PolyUpdate
<1>2. /\ s.blocks \in Seq(PolyData(S)) /\ Len(s.blocks) = q
      /\ s.buf \in Seq(S) /\ Len(s.buf) = r /\ a \in Nat /\ r \in 0 .. PolyBlock - 1
  BY AbsorbedTypes
<1>3. /\ Len(d) \in Nat /\ Len(x) \in Nat /\ PolyBlock \in Nat \ {0} /\ q \in Nat
      /\ Len(d) = a + r /\ s.buf = [k \in 1 .. r |-> d[a + k]]
  <2>1. Len(d) \in Nat /\ Len(x) \in Nat /\ q \in Nat /\ s.buf = [k \in 1 .. r |-> d[a + k]]
    BY DEF Absorbed
  <2> HIDE DEF a
  <2>. QED  BY <1>2, <2>1, PolySize
<1> HIDE DEF a, r
<1>4. /\ D \in Seq(S) /\ Len(D) = Len(d) + Len(x)
      /\ \A k \in 1 .. Len(d) : D[k] = d[k]
      /\ \A k \in 1 .. Len(x) : D[Len(d) + k] = x[k]
  OBVIOUS
<1>5. /\ fill \in 0 .. Len(x) /\ r + fill <= PolyBlock
      /\ r = 0 => fill = 0
      /\ r + fill = PolyBlock \/ fill = Len(x) \/ r = 0
  <2>1. s.buf = <<>> <=> r = 0
    BY <1>2
  <2>2. PolyBlock - r \in Nat /\ r \in Nat
    BY <1>2, <1>3
  <2>3. Min({Len(x), PolyBlock - r}) = IF Len(x) <= PolyBlock - r THEN Len(x) ELSE PolyBlock - r
    BY <1>3, <2>2, MinOfTwo
  <2>4. fill = IF r = 0 THEN 0 ELSE IF Len(x) <= PolyBlock - r THEN Len(x) ELSE PolyBlock - r
    BY <1>2, <2>1, <2>3
  <2> HIDE DEF fill, r
  <2>. QED  BY <1>2, <1>3, <2>2, <2>4
<1> HIDE DEF fill
\* The buffer, filled up.
<1>6. /\ buf \in Seq(S) /\ Len(buf) = r + fill
      /\ buf = [k \in 1 .. r + fill |-> D[a + k]]
  <2>1. /\ SubSeq(x, 1, fill) \in Seq(S) /\ Len(SubSeq(x, 1, fill)) = fill
        /\ \A k \in 1 .. fill : SubSeq(x, 1, fill)[k] = x[k]
    BY <1>3, <1>5, FirstOf
  <2>2. /\ buf \in Seq(S) /\ Len(buf) = r + fill
        /\ \A k \in 1 .. r : buf[k] = s.buf[k]
        /\ \A k \in 1 .. fill : buf[r + k] = x[k]
    <3>1. s.buf \in Seq(S) /\ Len(s.buf) = r /\ r \in Nat /\ fill \in Nat
      BY <1>2, <1>5
    <3> DEFINE u == s.buf
               t == SubSeq(x, 1, fill)
    <3>2. u \in Seq(S) /\ t \in Seq(S) /\ Len(u) = r /\ Len(t) = fill
      BY <2>1, <3>1
    <3> HIDE DEF u, t
    <3>3. /\ u \o t \in Seq(S) /\ Len(u \o t) = Len(u) + Len(t)
          /\ \A k \in 1 .. Len(u) : (u \o t)[k] = u[k]
          /\ \A k \in 1 .. Len(t) : (u \o t)[Len(u) + k] = t[k]
      <4>1. u \o t \in Seq(S) /\ IsJoin(u \o t, u, t)
        BY <3>2, JoinIs, Zenon
      <4>. QED  BY <4>1, Zenon DEF IsJoin
    <3>4. /\ u \o t \in Seq(S) /\ Len(u \o t) = r + fill
          /\ \A k \in 1 .. r : (u \o t)[k] = u[k]
          /\ \A k \in 1 .. fill : (u \o t)[r + k] = t[k]
      BY ONLY <3>2, <3>3, Zenon
    <3>. QED  BY <2>1, <3>4, Zenon DEF u, t
  <2>3. \A k \in 1 .. r : s.buf[k] = d[a + k]
    BY <1>3
  <2> HIDE DEF buf, D
  <2>4. ASSUME NEW k \in 1 .. r + fill  PROVE buf[k] = D[a + k]
    <3>1. CASE k \in 1 .. r
      <4>1. a + k \in 1 .. Len(d)
        BY <1>2, <1>3, <3>1
      <4>. QED  BY <1>4, <2>2, <2>3, <3>1, <4>1
    <3>2. CASE k \notin 1 .. r
      <4>1. k - r \in 1 .. fill /\ k - r \in 1 .. Len(x) /\ r + (k - r) = k /\ Len(d) + (k - r) = a + k
        BY <1>2, <1>3, <1>5, <3>2
      <4>. QED  BY <1>4, <2>2, <4>1
    <3>. QED  BY <3>1, <3>2
  <2>5. buf = [k \in 1 .. Len(buf) |-> buf[k]]
    BY <2>2
  <2>. QED  BY <2>2, <2>4, <2>5
\* What is left of the piece.
<1>7. /\ more \in Seq(S) /\ Len(more) = Len(x) - fill /\ Len(more) \in Nat
      /\ \A k \in 1 .. Len(more) : more[k] = D[Len(d) + fill + k]
  <2>1. /\ more \in Seq(S) /\ Len(more) = Len(x) - fill /\ Len(more) \in Nat
        /\ \A k \in 1 .. Len(more) : more[k] = x[fill + k]
    BY <1>3, <1>5, RestOf
  <2> HIDE DEF more, D
  <2>2. \A k \in 1 .. Len(more) : fill + k \in 1 .. Len(x) /\ Len(d) + (fill + k) = Len(d) + fill + k
    BY <1>3, <1>5, <2>1
  <2>. QED  BY <1>4, <2>1, <2>2
<1>8. /\ whole \in Nat /\ whole * PolyBlock \in Nat /\ whole * PolyBlock <= Len(more)
      /\ Len(more) - whole * PolyBlock < PolyBlock
  <2>1. whole \in Nat /\ Len(more) % PolyBlock \in 0 .. PolyBlock - 1
        /\ Len(more) = whole * PolyBlock + (Len(more) % PolyBlock)
    BY <1>3, <1>7, Quotient
  <2>2. whole * PolyBlock \in Nat
    BY <1>3, <2>1, Multiples
  <2> HIDE DEF whole, more
  <2> DEFINE w == whole * PolyBlock
             l == Len(more)
  <2>3. w \in Nat /\ l \in Nat /\ l % PolyBlock \in 0 .. PolyBlock - 1 /\ l = w + (l % PolyBlock)
    BY <1>7, <2>1, <2>2
  <2> HIDE DEF w, l
  <2>4. w <= l /\ l - w < PolyBlock
    BY <1>3, <2>3
  <2>. QED  BY <2>1, <2>2, <2>4 DEF w, l
<1> HIDE DEF whole, more, buf, D, new
\* From the first byte that is not in the buffer on, c blocks from the start of all.
<1>9. ASSUME NEW c \in Nat, Len(d) + fill = c * PolyBlock
      PROVE  /\ cut = [i \in 1 .. whole |-> BlockAt(D, (c + i - 1) * PolyBlock)]
             /\ cut \in Seq(PolyData(S)) /\ Len(cut) = whole
             /\ rest = [k \in 1 .. Len(D) - (c + whole) * PolyBlock |-> D[(c + whole) * PolyBlock + k]]
             /\ (c + whole) * PolyBlock <= Len(D) /\ Len(D) - (c + whole) * PolyBlock < PolyBlock
             /\ Len(rest) = Len(D) - (c + whole) * PolyBlock /\ Len(rest) \in Nat
  <2>1. /\ (c + whole) * PolyBlock = c * PolyBlock + whole * PolyBlock
        /\ c * PolyBlock \in Nat
    BY <1>3, <1>8, Multiples
  <2> DEFINE at == c * PolyBlock
  <2>2. Len(D) = at + Len(more) /\ at \in Nat /\ Len(d) + fill = at
    <3>1. at \in Nat /\ Len(d) + fill = at
      BY <1>9, <2>1
    <3> HIDE DEF at
    <3>2. Len(D) = Len(d) + Len(x) /\ Len(more) = Len(x) - fill /\ fill \in Nat
      BY <1>3, <1>4, <1>5, <1>7
    <3>. QED  BY ONLY <1>3, <3>1, <3>2
  <2>3. ASSUME NEW i \in 1 .. whole
        PROVE  /\ [bytes |-> SubSeq(more, (i - 1) * PolyBlock + 1, i * PolyBlock), hibit |-> TRUE]
                    = BlockAt(D, (c + i - 1) * PolyBlock)
               /\ BlockAt(D, (c + i - 1) * PolyBlock) \in PolyData(S)
    <3> DEFINE e == (i - 1) * PolyBlock
               f == (c + i - 1) * PolyBlock
    <3>1. i \in Nat \ {0} /\ i - 1 \in Nat /\ i <= whole /\ c + i - 1 = c + (i - 1)
      BY <1>8
    <3>2. i * PolyBlock = e + PolyBlock /\ e \in Nat
      BY <1>3, <3>1, Before
    <3>3. i * PolyBlock <= whole * PolyBlock
      BY <1>3, <1>8, <3>1, Multiples
    <3>4. f = at + e
      BY <1>3, <3>1, Multiples
    <3> HIDE DEF e, f, at
    <3>5. e + PolyBlock <= Len(more) /\ f \in Nat /\ f + PolyBlock <= Len(D)
      <4>1. e + PolyBlock <= whole * PolyBlock
        BY <3>2, <3>3
      <4> DEFINE w == whole * PolyBlock
      <4>2. e + PolyBlock <= w /\ w \in Nat /\ w <= Len(more)
        BY <1>8, <4>1
      <4> HIDE DEF w
      <4>. QED  BY <1>3, <1>7, <2>2, <3>2, <3>4, <4>2
    <3>6. SubSeq(more, e + 1, e + PolyBlock) = [k \in 1 .. PolyBlock |-> more[e + k]]
      BY <1>3, <1>7, <3>2, <3>5, PartOf
    <3>7. \A k \in 1 .. PolyBlock : more[e + k] = D[f + k]
      <4>1. \A k \in 1 .. PolyBlock : e + k \in 1 .. Len(more) /\ Len(d) + fill + (e + k) = f + k
        BY <1>3, <1>5, <1>7, <2>2, <3>2, <3>4, <3>5
      <4>. QED  BY <1>7, <4>1
    <3>8. SubSeq(more, e + 1, i * PolyBlock) = [k \in 1 .. PolyBlock |-> D[f + k]]
      BY <3>2, <3>6, <3>7
    <3>9. BlockAt(D, f) \in PolyData(S)
      BY <1>4, <3>5, BlocksAre
    <3>. QED  BY <3>8, <3>9 DEF BlockAt, e, f
  <2>4. cut = [i \in 1 .. whole |-> BlockAt(D, (c + i - 1) * PolyBlock)]
    BY <2>3
  <2>5. cut \in Seq(PolyData(S)) /\ Len(cut) = whole
    <3> HIDE DEF PolyData
    <3> DEFINE F(i) == BlockAt(D, (c + i - 1) * PolyBlock)
    <3>1. \A i \in 1 .. whole : F(i) \in PolyData(S)
      BY <2>3
    <3>2. cut = [i \in 1 .. whole |-> F(i)]
      BY <2>4
    <3> HIDE DEF F, cut
    <3>3. whole \in Nat
      BY <1>8
    <3>. QED  BY <3>1, <3>2, <3>3
  <2>6. /\ rest = [k \in 1 .. Len(D) - (c + whole) * PolyBlock |-> D[(c + whole) * PolyBlock + k]]
        /\ Len(rest) = Len(D) - (c + whole) * PolyBlock /\ Len(rest) \in Nat
    <3> DEFINE w == whole * PolyBlock
               g == (c + whole) * PolyBlock
               h == Len(more) - w
    <3>1. h \in Nat /\ w \in Nat /\ w + h = Len(more) /\ h = Len(D) - g /\ g = at + w
      <4>1. w \in Nat /\ w <= Len(more) /\ g = at + w
        BY <1>8, <2>1
      <4> HIDE DEF w, g, at
      <4>. QED  BY <1>7, <2>2, <4>1
    <3> HIDE DEF w, g, h, at
    <3>2. rest = SubSeq(more, w + 1, w + h)
      <4>1. rest = SubSeq(more, w + 1, Len(more))
        BY DEF After, w
      <4>. QED  BY <3>1, <4>1
    <3> HIDE DEF rest
    <3>3. rest = [k \in 1 .. h |-> more[w + k]] /\ Len(rest) = h
      <4>1. w \in Nat /\ h \in Nat /\ w + h <= Len(more)
        BY <1>7, <3>1
      <4>2. more \in Seq(S)
        BY <1>7
      <4>3. Len(SubSeq(more, w + 1, w + h)) = h /\ SubSeq(more, w + 1, w + h) = [k \in 1 .. h |-> more[w + k]]
        BY ONLY <4>1, <4>2, PartOf
      <4>. QED  BY <3>2, <4>3
    <3>4. \A k \in 1 .. h : more[w + k] = D[g + k]
      <4>1. \A k \in 1 .. h : w + k \in 1 .. Len(more) /\ Len(d) + fill + (w + k) = g + k
        BY <1>3, <1>5, <1>7, <2>2, <3>1
      <4>. QED  BY <1>7, <4>1
    <3>5. rest = [k \in 1 .. Len(D) - g |-> D[g + k]] /\ Len(rest) = Len(D) - g /\ Len(rest) \in Nat
      BY <3>1, <3>3, <3>4
    <3>. QED  BY <3>5 DEF g
  <2>7. (c + whole) * PolyBlock <= Len(D) /\ Len(D) - (c + whole) * PolyBlock < PolyBlock
    <3> DEFINE w == whole * PolyBlock
               g == (c + whole) * PolyBlock
    <3>1. g = at + w /\ w \in Nat /\ w <= Len(more) /\ Len(more) - w < PolyBlock
      BY <1>8, <2>1
    <3> HIDE DEF w, g, at
    <3>2. g <= Len(D) /\ Len(D) - g < PolyBlock
      BY <1>3, <1>7, <2>2, <3>1
    <3>. QED  BY <3>2 DEF g
  <2>. QED  BY <2>4, <2>5, <2>6, <2>7
<1> HIDE DEF cut, rest
<1>10. \A i \in 1 .. q : s.blocks[i] = BlockAt(D, (i - 1) * PolyBlock)
  <2>1. \A i \in 1 .. q : s.blocks[i] = BlockAt(d, (i - 1) * PolyBlock)
    BY DEF Absorbed
  <2>2. q * PolyBlock <= Len(d)
    BY DEF Absorbed
  <2>3. \A i \in 1 .. q : BlockAt(d \o x, (i - 1) * PolyBlock) = BlockAt(d, (i - 1) * PolyBlock)
    BY <1>3, <2>2, BlocksStay
  <2>. QED  BY <2>1, <2>3 DEF D
<1>11. ASSUME NEW c \in Nat, NEW first, first \in Seq(PolyData(S)), Len(first) = c,
              \A i \in 1 .. c : first[i] = BlockAt(D, (i - 1) * PolyBlock),
              Len(d) + fill = c * PolyBlock
       PROVE  first \o cut = [i \in 1 .. c + whole |-> BlockAt(D, (i - 1) * PolyBlock)]
  <2> HIDE DEF PolyData
  <2>1. /\ cut = [i \in 1 .. whole |-> BlockAt(D, (c + i - 1) * PolyBlock)]
        /\ cut \in Seq(PolyData(S)) /\ Len(cut) = whole
    BY <1>9, <1>11
  <2>2. /\ first \o cut \in Seq(PolyData(S)) /\ Len(first \o cut) = c + whole
        /\ \A i \in 1 .. c : (first \o cut)[i] = first[i]
        /\ \A i \in 1 .. whole : (first \o cut)[c + i] = cut[i]
    <3>1. whole \in Nat
      BY <1>8
    <3>2. first \in Seq(PolyData(S)) /\ Len(first) = c /\ cut \in Seq(PolyData(S)) /\ Len(cut) = whole
      BY <1>11, <2>1
    <3>3. /\ first \o cut \in Seq(PolyData(S)) /\ Len(first \o cut) = Len(first) + Len(cut)
          /\ \A i \in 1 .. Len(first) : (first \o cut)[i] = first[i]
          /\ \A i \in 1 .. Len(cut) : (first \o cut)[Len(first) + i] = cut[i]
      <4>1. first \o cut \in Seq(PolyData(S)) /\ IsJoin(first \o cut, first, cut)
        BY <3>2, JoinIs, Zenon
      <4>. QED  BY <4>1, Zenon DEF IsJoin
    <3>. QED  BY ONLY <3>2, <3>3, Zenon
  <2>3. ASSUME NEW i \in 1 .. c + whole  PROVE (first \o cut)[i] = BlockAt(D, (i - 1) * PolyBlock)
    <3>1. CASE i \in 1 .. c
      BY <1>11, <2>2, <3>1
    <3>2. CASE i \notin 1 .. c
      <4> DEFINE j == i - c
      <4>1. j \in 1 .. whole /\ c + j = i /\ c + j - 1 = i - 1
        BY <1>8, <3>2
      <4> HIDE DEF j
      <4>2. cut[j] = BlockAt(D, (c + j - 1) * PolyBlock)
        BY <2>1, <4>1
      <4>. QED  BY <2>2, <4>1, <4>2
    <3>. QED  BY <3>1, <3>2
  <2> DEFINE t == first \o cut
             F(i) == BlockAt(D, (i - 1) * PolyBlock)
  <2>4. t \in Seq(PolyData(S)) /\ Len(t) = c + whole /\ \A i \in 1 .. c + whole : t[i] = F(i)
    BY <2>2, <2>3
  <2> HIDE DEF t, F
  <2>5. t = [i \in 1 .. c + whole |-> F(i)]
    BY <2>4
  <2>. QED  BY <2>5 DEF t, F
<1>12. CASE full
  <2>1. r + fill = PolyBlock /\ q + 1 \in Nat /\ Len(d) + fill = (q + 1) * PolyBlock
    <3>1. (q + 1) * PolyBlock = a + PolyBlock
      BY <1>3, Multiples DEF a
    <3>2. r + fill = PolyBlock
      BY <1>6, <1>12
    <3> DEFINE g == (q + 1) * PolyBlock
    <3>3. g = a + PolyBlock
      BY <3>1
    <3> HIDE DEF g
    <3>4. Len(d) + fill = g
      BY <1>2, <1>3, <1>5, <3>2, <3>3
    <3>. QED  BY <1>3, <3>2, <3>4 DEF g
  <2> DEFINE first == PolyAdd(s.blocks, buf, TRUE)
  <2>2. first \in Seq(PolyData(S)) /\ Len(first) = q + 1
        /\ \A i \in 1 .. q + 1 : first[i] = BlockAt(D, (i - 1) * PolyBlock)
    <3> DEFINE last == [bytes |-> buf, hibit |-> TRUE]
    <3>1. last \in PolyData(S)
      BY <1>6 DEF PolyData
    <3>2. last = BlockAt(D, a)
      BY <1>6, <2>1, Zenon DEF BlockAt
    <3> HIDE DEF PolyData, last
    <3>3. first = Append(s.blocks, last)
      BY DEF PolyAdd, last
    <3>4. /\ first \in Seq(PolyData(S)) /\ Len(first) = q + 1
          /\ \A i \in 1 .. q : first[i] = s.blocks[i]
          /\ first[q + 1] = last
      <4>1. s.blocks \in Seq(PolyData(S)) /\ Len(s.blocks) = q /\ q \in Nat
        BY <1>2, <1>3
      <4> DEFINE u == s.blocks
      <4>2. u \in Seq(PolyData(S)) /\ Len(u) = q
        BY <4>1
      <4> HIDE DEF u
      <4>3. /\ Append(u, last) \in Seq(PolyData(S)) /\ Len(Append(u, last)) = Len(u) + 1
            /\ \A i \in 1 .. Len(u) : Append(u, last)[i] = u[i]
            /\ Append(u, last)[Len(u) + 1] = last
        BY ONLY <3>1, <4>2, Appended
      <4>. QED  BY <3>3, <4>2, <4>3 DEF u
    <3> HIDE DEF first
    <3>5. ASSUME NEW i \in 1 .. q + 1  PROVE first[i] = BlockAt(D, (i - 1) * PolyBlock)
      <4>1. CASE i \in 1 .. q
        BY <1>10, <3>4, <4>1
      <4>2. CASE i \notin 1 .. q
        <5>1. i = q + 1 /\ i - 1 = q
          BY <1>3, <4>2
        <5>. QED  BY <3>2, <3>4, <5>1 DEF a
      <4>. QED  BY <4>1, <4>2
    <3>. QED  BY <3>4, <3>5
  <2> HIDE DEF first
  <2>3. new.blocks = [i \in 1 .. q + 1 + whole |-> BlockAt(D, (i - 1) * PolyBlock)]
    BY <1>1, <1>11, <1>12, <2>1, <2>2 DEF first
  <2>4. /\ rest = [k \in 1 .. Len(D) - (q + 1 + whole) * PolyBlock |-> D[(q + 1 + whole) * PolyBlock + k]]
        /\ (q + 1 + whole) * PolyBlock <= Len(D) /\ Len(D) - (q + 1 + whole) * PolyBlock < PolyBlock
    BY <1>9, <2>1
  <2>5. new.buf = rest
    BY <1>1, <1>12
  <2>6. q + 1 + whole \in Nat
    BY <1>3, <1>8
  <2>7. Absorbed(new, D, q + 1 + whole)
    BY <2>3, <2>4, <2>5, <2>6 DEF Absorbed
  <2>. QED  BY <2>6, <2>7 DEF new, D
<1>13. CASE ~ full /\ r = 0
  <2>1. fill = 0 /\ Len(d) + fill = q * PolyBlock /\ buf = <<>>
    <3>1. fill = 0
      BY <1>5, <1>13
    <3>2. Len(buf) = 0
      BY <1>6, <1>13, <3>1
    <3>3. buf = <<>>
      BY <1>6, <3>2, EmptySeq
    <3>4. Len(d) + fill = a
      BY <1>2, <1>3, <1>13, <3>1
    <3>. QED  BY <3>1, <3>3, <3>4 DEF a
  <2>2. new.blocks = [i \in 1 .. q + whole |-> BlockAt(D, (i - 1) * PolyBlock)]
    BY <1>1, <1>2, <1>3, <1>10, <1>11, <1>13, <2>1
  <2>3. /\ rest = [k \in 1 .. Len(D) - (q + whole) * PolyBlock |-> D[(q + whole) * PolyBlock + k]]
        /\ (q + whole) * PolyBlock <= Len(D) /\ Len(D) - (q + whole) * PolyBlock < PolyBlock
    BY <1>3, <1>9, <2>1
  <2>4. new.buf = rest
    BY <1>1, <1>13, <2>1
  <2>5. q + whole \in Nat
    BY <1>3, <1>8
  <2>6. Absorbed(new, D, q + whole)
    BY <2>2, <2>3, <2>4, <2>5 DEF Absorbed
  <2>. QED  BY <2>5, <2>6 DEF new, D
<1>14. CASE ~ full /\ r # 0
  <2>1. fill = Len(x) /\ r + fill < PolyBlock /\ Len(more) = 0
    <3>1. r + fill # PolyBlock
      BY <1>6, <1>14
    <3>. QED  BY <1>2, <1>3, <1>5, <1>7, <1>14, <3>1
  <2>2. whole = 0
    <3>1. whole * PolyBlock = 0
      BY <1>8, <2>1
    <3>2. whole # 0 => 1 * PolyBlock <= whole * PolyBlock
      BY <1>3, <1>8, Multiples
    <3>3. 1 * PolyBlock = PolyBlock
      BY <1>3, Multiples
    <3>. QED  BY <1>3, <3>1, <3>2, <3>3
  <2>3. cut = <<>>
    BY <2>2 DEF cut
  <2>4. rest = <<>>
    <3>1. whole * PolyBlock = 0
      BY <1>8, <2>1
    <3>2. more = <<>>
      BY <1>7, <2>1, EmptySeq
    <3>. QED  BY <3>1, <3>2 DEF rest, After
  <2>5. new.blocks = s.blocks /\ new.buf = buf
    <3>1. s.blocks \o <<>> = s.blocks
      <4> HIDE DEF PolyData
      <4>. QED  BY <1>2
    <3>. QED  BY <1>1, <1>14, <2>3, <2>4, <3>1
  <2>6. new.blocks = [i \in 1 .. q |-> BlockAt(D, (i - 1) * PolyBlock)]
    <3>1. s.blocks = [i \in 1 .. q |-> s.blocks[i]]
      BY DEF Absorbed
    <3>. QED  BY <1>10, <2>5, <3>1
  <2>7. Len(D) - a = r + fill /\ a <= Len(D)
    BY <1>2, <1>3, <1>4, <1>5, <2>1
  <2>8. Absorbed(new, D, q)
    BY <1>3, <1>6, <2>1, <2>5, <2>6, <2>7 DEF Absorbed, a
  <2>. QED  BY <1>3, <2>8 DEF new, D
<1>. QED  BY <1>12, <1>13, <1>14

-----------------------------------------------------------------------------
(* The tag of a message tells its parts. *)

\* d in m blocks.
BlocksOf(d, m) == [i \in 1 .. m |-> BlockAt(d, (i - 1) * PolyBlock)]

LEMMA MultiplesFit ==
  ASSUME NEW m \in Nat, NEW q \in Nat, NEW b \in Nat \ {0}, q * b <= m * b, m * b - q * b < b
  PROVE  q = m
<1>1. q < m => FALSE
  <2>1. SUFFICES ASSUME q < m  PROVE FALSE
    OBVIOUS
  <2>2. q + 1 <= m /\ q + 1 \in Nat
    BY <2>1
  <2>3. (q + 1) * b <= m * b /\ (q + 1) * b = q * b + 1 * b /\ 1 * b = b
    BY <2>2, Multiples
  <2>4. m * b \in Nat /\ q * b \in Nat
    BY Multiples
  <2> DEFINE x == m * b
             y == q * b
             z == (q + 1) * b
  <2>5. x \in Nat /\ y \in Nat /\ z <= x /\ z = y + b /\ y <= x /\ x - y < b
    BY <2>3, <2>4
  <2> HIDE DEF x, y, z
  <2>. QED  BY <2>5
<1>2. m < q => FALSE
  <2>1. SUFFICES ASSUME m < q  PROVE FALSE
    OBVIOUS
  <2>2. m + 1 <= q /\ m + 1 \in Nat
    BY <2>1
  <2>3. (m + 1) * b <= q * b /\ (m + 1) * b = m * b + 1 * b /\ 1 * b = b
    BY <2>2, Multiples
  <2>4. m * b \in Nat /\ q * b \in Nat
    BY Multiples
  <2> DEFINE x == m * b
             y == q * b
             z == (m + 1) * b
  <2>5. x \in Nat /\ y \in Nat /\ z <= y /\ z = x + b /\ y <= x
    BY <2>3, <2>4
  <2> HIDE DEF x, y, z
  <2>. QED  BY <2>5
<1>. QED  BY <1>1, <1>2

LEMMA PolyFinishes ==
  ASSUME NEW S, NEW d \in Seq(S), NEW s, NEW q, Absorbed(s, d, q), NEW m \in Nat, Len(d) = m * PolyBlock
  PROVE  PolyFinish(s) = BlocksOf(d, m)
<1>1. q \in Nat /\ q * PolyBlock <= m * PolyBlock /\ m * PolyBlock - q * PolyBlock < PolyBlock
  BY DEF Absorbed
<1>2. q = m
  BY <1>1, PolySize, MultiplesFit
<1>3. s.buf \in Seq(S) /\ Len(s.buf) = Len(d) - q * PolyBlock /\ Len(d) \in Nat
  BY AbsorbedTypes
<1>4. Len(s.buf) = 0
  <2> DEFINE x == m * PolyBlock
  <2>1. Len(s.buf) = x - x /\ x \in Nat
    BY <1>2, <1>3
  <2> HIDE DEF x
  <2>. QED  BY <2>1
<1>5. s.buf = <<>>
  BY <1>3, <1>4, EmptySeq
<1>6. s.blocks = [i \in 1 .. q |-> BlockAt(d, (i - 1) * PolyBlock)]
  BY DEF Absorbed
<1>. QED  BY <1>2, <1>5, <1>6, Zenon DEF PolyFinish, BlocksOf

LEMMA BlocksOfAt ==
  ASSUME NEW d, NEW m \in Nat, NEW j \in Nat, j < m
  PROVE  BlocksOf(d, m)[j + 1] = BlockAt(d, j * PolyBlock)
<1>1. PICK i : i = j + 1
  OBVIOUS
<1>2. i \in 1 .. m /\ i - 1 = j
  BY <1>1
<1>3. BlocksOf(d, m)[i] = BlockAt(d, (i - 1) * PolyBlock)
  BY <1>2, Zenon DEF BlocksOf
<1>. QED  BY <1>1, <1>2, <1>3, Zenon

LEMMA BlocksTell ==
  ASSUME NEW S, NEW d \in Seq(S), NEW e \in Seq(S), NEW m \in Nat, NEW n \in Nat,
         Len(d) = m * PolyBlock, Len(e) = n * PolyBlock, BlocksOf(d, m) = BlocksOf(e, n)
  PROVE  d = e
<1>1. m = n
  <2>1. 1 .. m = 1 .. n
    <3>1. DOMAIN BlocksOf(d, m) = 1 .. m /\ DOMAIN BlocksOf(e, n) = 1 .. n
      BY DEF BlocksOf
    <3>. QED  BY <3>1
  <2>. QED  BY <2>1
<1>2. ASSUME NEW p \in 1 .. Len(d)  PROVE d[p] = e[p]
  <2> DEFINE j == (p - 1) \div PolyBlock
             k == (p - 1) % PolyBlock
  <2>1. p - 1 \in Nat /\ p \in Nat \ {0} /\ p <= m * PolyBlock
    OBVIOUS
  <2>2. j \in Nat /\ k \in 0 .. PolyBlock - 1 /\ p - 1 = j * PolyBlock + k
    BY <2>1, PolySize, Quotient
  <2> HIDE DEF j, k
  <2>3. j < m
    <3>1. SUFFICES ASSUME m <= j  PROVE FALSE
      BY <2>2
    <3>2. m * PolyBlock <= j * PolyBlock
      BY <2>2, <3>1, PolySize, Multiples
    <3> DEFINE x == m * PolyBlock
               y == j * PolyBlock
    <3>3. x \in Nat /\ y \in Nat
      BY <2>2, PolySize, Multiples
    <3>4. x <= y /\ p - 1 = y + k /\ p <= x
      BY <2>1, <2>2, <3>2
    <3> HIDE DEF x, y
    <3>. QED  BY <2>1, <2>2, <3>3, <3>4, PolySize
  <2>4. j + 1 \in 1 .. m /\ j + 1 - 1 = j
    BY <2>2, <2>3
  <2>5. BlocksOf(d, m)[j + 1] = BlockAt(d, j * PolyBlock) /\ BlocksOf(e, n)[j + 1] = BlockAt(e, j * PolyBlock)
    BY <1>1, <2>2, <2>3, BlocksOfAt, Zenon
  <2>6. BlockAt(d, j * PolyBlock).bytes = BlockAt(e, j * PolyBlock).bytes
    BY <2>5
  <2> DEFINE a == j * PolyBlock
  <2>7. k + 1 \in 1 .. PolyBlock /\ a + (k + 1) = p
    <3>1. a \in Nat /\ p - 1 = a + k
      BY <2>2, PolySize, Multiples
    <3> HIDE DEF a
    <3>. QED  BY <2>1, <2>2, <3>1, PolySize
  <2>8. [i \in 1 .. PolyBlock |-> d[a + i]] = [i \in 1 .. PolyBlock |-> e[a + i]]
    BY <2>6 DEF BlockAt
  <2> HIDE DEF a
  <2>9. d[a + (k + 1)] = e[a + (k + 1)]
    BY <2>7, <2>8
  <2>. QED  BY <2>7, <2>9
<1>3. Len(d) = Len(e)
  BY <1>1
<1>. QED  BY <1>2, <1>3

SameJoins(a, s, b, t) == a \o s = b \o t /\ Len(s) = Len(t)

LEMMA Cancel ==
  ASSUME NEW S, NEW a \in Seq(S), NEW b \in Seq(S), NEW s \in Seq(S), NEW t \in Seq(S),
         SameJoins(a, s, b, t)
  PROVE  a = b /\ s = t
<1>. a \o s = b \o t /\ Len(s) = Len(t)
  BY DEF SameJoins
<1>1. Len(a) = Len(b)
  <2>1. Len(a \o s) = Len(a) + Len(s) /\ Len(b \o t) = Len(b) + Len(t)
    OBVIOUS
  <2>. QED  BY <2>1
<1>2. ASSUME NEW k \in 1 .. Len(a)  PROVE a[k] = b[k]
  <2>1. (a \o s)[k] = a[k] /\ (b \o t)[k] = b[k]
    BY <1>1
  <2>. QED  BY <2>1
<1>3. ASSUME NEW k \in 1 .. Len(s)  PROVE s[k] = t[k]
  <2>1. (a \o s)[Len(a) + k] = s[k] /\ (b \o t)[Len(b) + k] = t[k]
    <3>1. IsJoin(a \o s, a, s) /\ IsJoin(b \o t, b, t)
      BY JoinIs, Zenon
    <3>2. k \in 1 .. Len(s) /\ k \in 1 .. Len(t)
      OBVIOUS
    <3>. QED  BY <3>1, <3>2, Zenon DEF IsJoin
  <2>. QED  BY <1>1, <2>1
<1>4. a = b
  BY <1>1, <1>2
<1>5. s = t
  BY <1>3
<1>. QED  BY <1>4, <1>5

-----------------------------------------------------------------------------
Pairs == Nat \X Nat
Bytes == [value : Nat, masks : SUBSET Pairs]

LEMMA ByteIs ==
  ASSUME NEW v \in Nat
  PROVE  Byte(v) \in Bytes
BY DEF Byte, Bytes

LEMMA ZerosAre ==
  ASSUME NEW n \in Nat
  PROVE  Zeros(n) \in Seq(Bytes) /\ Len(Zeros(n)) = n
<1>1. Byte(0) \in Bytes
  BY ByteIs
<1>. QED  BY <1>1 DEF Zeros

LEMMA DigitsAre ==
  ASSUME NEW n \in Nat, NEW w \in Nat
  PROVE  Digits(n, w) \in Seq(Bytes) /\ Len(Digits(n, w)) = w
<1> DEFINE F(i) == Byte(Shifted(n, w)[i - 1] % 256)
<1>1. ASSUME NEW i \in 1 .. w  PROVE F(i) \in Bytes
  <2>1. i - 1 \in 0 .. w
    OBVIOUS
  <2>2. Shifted(n, w)[i - 1] \in Nat
    BY <2>1, ShiftedBy
  <2> DEFINE x == Shifted(n, w)[i - 1]
  <2>3. x \in Nat
    BY <2>2
  <2> HIDE DEF x
  <2>4. x % 256 \in Nat
    BY <2>3
  <2>. QED  BY <2>4, ByteIs DEF x
<1>2. Digits(n, w) = [i \in 1 .. w |-> F(i)]
  BY DEF Digits
<1> HIDE DEF F
<1>. QED  BY <1>1, <1>2

LEMMA PadIs ==
  ASSUME NEW data \in Seq(Bytes)
  PROVE  /\ Pad(data) \in Seq(Bytes)
         /\ \E m \in Nat : Len(data) + Len(Pad(data)) = m * PolyBlock
<1> DEFINE b == PolyBlock
           l == Len(data)
           q == l \div b
           r == l % b
           z == (b - r) % b
<1>1. b \in Nat \ {0} /\ l \in Nat
  BY PolySize
<1> HIDE DEF b, l
<1>2. q \in Nat /\ r \in 0 .. b - 1 /\ l = q * b + r
  BY <1>1, Quotient
<1> HIDE DEF q, r
<1>3. z = IF r = 0 THEN 0 ELSE b - r
  <2>1. CASE r = 0
    <3>1. b - r = 1 * b + 0 /\ 0 \in 0 .. b - 1 /\ 1 \in Nat
      BY <1>1, <2>1
    <3>2. (1 * b + 0) % b = 0
      BY <1>1, <3>1, QuotientIs
    <3>. QED  BY <2>1, <3>1, <3>2
  <2>2. CASE r # 0
    <3>1. b - r = 0 * b + (b - r) /\ b - r \in 0 .. b - 1 /\ 0 \in Nat
      BY <1>1, <1>2, <2>2
    <3>2. (0 * b + (b - r)) % b = b - r
      BY <1>1, <3>1, QuotientIs
    <3>. QED  BY <2>2, <3>1, <3>2
  <2>. QED  BY <2>1, <2>2
<1>4. Pad(data) = Zeros(z)
  BY DEF Pad, b, l, r
<1> HIDE DEF z
<1>5. z \in Nat
  BY <1>1, <1>2, <1>3
<1>6. Pad(data) \in Seq(Bytes) /\ Len(Pad(data)) = z
  BY <1>4, <1>5, ZerosAre
<1>7. \E m \in Nat : l + z = m * b
  <2>1. CASE r = 0
    <3> DEFINE x == q * b
    <3>1. x \in Nat /\ l = x + r
      BY <1>1, <1>2
    <3> HIDE DEF x
    <3>2. l + z = x
      BY <1>3, <2>1, <3>1
    <3>. QED  BY <1>2, <3>2 DEF x
  <2>2. CASE r # 0
    <3> DEFINE x == q * b
               y == (q + 1) * b
    <3>1. x \in Nat /\ l = x + r /\ y = x + b
      BY <1>1, <1>2, Multiples
    <3> HIDE DEF x, y
    <3>2. l + z = y
      BY <1>1, <1>2, <1>3, <2>2, <3>1
    <3>3. q + 1 \in Nat
      BY <1>2
    <3>. QED  BY <3>2, <3>3 DEF y
  <2>. QED  BY <2>1, <2>2
<1>. QED  BY <1>6, <1>7 DEF b, l

\* What chacha20_poly1305_encrypt feeds to the tag, in one piece.
MacInput(aad, text) == (((aad \o Pad(aad)) \o text) \o Pad(text)) \o LengthBlock(aad, text)

LEMMA PaddedInput ==
  ASSUME NEW s, NEW q, NEW d \in Seq(Bytes), NEW data \in Seq(Bytes), Absorbed(s, d, q)
  PROVE  \E u \in Nat : Absorbed(UpdatePadded(s, data), (d \o data) \o Pad(data), u)
<1>1. PICK u \in Nat : Absorbed(PolyUpdate(s, data), d \o data, u)
  BY PolyTakes
<1>2. d \o data \in Seq(Bytes) /\ Pad(data) \in Seq(Bytes)
  BY PadIs
<1> HIDE DEF Absorbed
<1>3. \E v \in Nat : Absorbed(PolyUpdate(PolyUpdate(s, data), Pad(data)), (d \o data) \o Pad(data), v)
  BY <1>1, <1>2, PolyTakes, Zenon
<1>. QED  BY <1>3, Zenon DEF UpdatePadded

LEMMA LengthsAre ==
  ASSUME NEW aad \in Seq(Bytes), NEW text \in Seq(Bytes)
  PROVE  LengthBlock(aad, text) \in Seq(Bytes) /\ Len(LengthBlock(aad, text)) = PolyBlock
<1> DEFINE w == PolyBlock \div 2
<1>1. w \in Nat /\ w + w = PolyBlock
  <2>1. PolyBlock % 2 = 0
    BY PrimitivesAssumption
  <2>. QED  BY <2>1, PolySize
<1> DEFINE x == Digits(Len(aad), w)
           y == Digits(Len(text), w)
<1> HIDE DEF w
<1>2. x \in Seq(Bytes) /\ Len(x) = w /\ y \in Seq(Bytes) /\ Len(y) = w
  <2>1. Len(aad) \in Nat /\ Len(text) \in Nat
    OBVIOUS
  <2>. QED  BY <1>1, <2>1, DigitsAre
<1>3. LengthBlock(aad, text) = x \o y
  BY DEF LengthBlock, w
<1> HIDE DEF x, y
<1>4. x \o y \in Seq(Bytes) /\ IsJoin(x \o y, x, y)
  BY <1>2, JoinIs, Zenon
<1>5. Len(x \o y) = w + w
  BY <1>2, <1>4, Zenon DEF IsJoin
<1>. QED  BY <1>1, <1>3, <1>4, <1>5

LEMMA MacInputIs ==
  ASSUME NEW aad \in Seq(Bytes), NEW text \in Seq(Bytes)
  PROVE  /\ MacInput(aad, text) \in Seq(Bytes)
         /\ \E m \in Nat : /\ Len(MacInput(aad, text)) = m * PolyBlock
                           /\ Mac(aad, text) = BlocksOf(MacInput(aad, text), m)
<1> DEFINE P == Pad(aad)
           Q == Pad(text)
           L == LengthBlock(aad, text)
           A == (aad \o P) \o text
           B == A \o Q
           I == B \o L
           s1 == UpdatePadded(PolyInit, aad)
           s2 == UpdatePadded(s1, text)
           s3 == PolyUpdate(s2, L)
<1>1. P \in Seq(Bytes) /\ Q \in Seq(Bytes) /\ L \in Seq(Bytes)
  BY PadIs, LengthsAre
<1>2. aad \o P \in Seq(Bytes) /\ Len(aad \o P) = Len(aad) + Len(P)
  <2> HIDE DEF P
  <2>. QED  BY <1>1, JoinIs DEF IsJoin
<1>3. A \in Seq(Bytes) /\ Len(A) = Len(aad \o P) + Len(text)
  <2> DEFINE U == aad \o P
  <2>1. U \in Seq(Bytes)
    BY <1>2
  <2> HIDE DEF U
  <2>2. U \o text \in Seq(Bytes) /\ Len(U \o text) = Len(U) + Len(text)
    BY <2>1, JoinIs DEF IsJoin
  <2>. QED  BY <2>2 DEF U
<1> HIDE DEF A
<1>4. B \in Seq(Bytes) /\ Len(B) = Len(A) + Len(Q)
  <2> HIDE DEF Q
  <2>. QED  BY <1>1, <1>3, JoinIs DEF IsJoin
<1> HIDE DEF B
<1>5. I \in Seq(Bytes) /\ Len(I) = Len(B) + Len(L)
  <2> HIDE DEF L
  <2>. QED  BY <1>1, <1>4, JoinIs DEF IsJoin
<1>6. \E m \in Nat : Len(I) = m * PolyBlock
  <2>1. PICK i \in Nat : Len(aad) + Len(P) = i * PolyBlock
    BY PadIs
  <2>2. PICK j \in Nat : Len(text) + Len(Q) = j * PolyBlock
    BY PadIs
  <2>3. Len(L) = PolyBlock
    BY LengthsAre
  <2> DEFINE x == i * PolyBlock
             y == j * PolyBlock
             z == (i + j + 1) * PolyBlock
  <2>4. z = x + y + PolyBlock /\ x \in Nat /\ y \in Nat
    <3>1. (i + j + 1) * PolyBlock = (i + j) * PolyBlock + 1 * PolyBlock /\ 1 * PolyBlock = PolyBlock
      BY PolySize, Multiples
    <3>2. (i + j) * PolyBlock = x + y /\ x \in Nat /\ y \in Nat
      BY PolySize, Multiples
    <3> DEFINE v == (i + j) * PolyBlock
               t == 1 * PolyBlock
    <3>3. z = v + t /\ t = PolyBlock /\ v = x + y
      BY <3>1, <3>2
    <3> HIDE DEF v, t, x, y, z
    <3>. QED  BY <3>2, <3>3
  <2>5. /\ Len(aad) \in Nat /\ Len(text) \in Nat /\ Len(P) \in Nat /\ Len(Q) \in Nat
        /\ Len(aad) + Len(P) = x /\ Len(text) + Len(Q) = y
    BY <1>1, <2>1, <2>2
  <2> DEFINE u == Len(aad \o P)
             v == Len(I)
  <2>6. u = Len(aad) + Len(P) /\ Len(A) = u + Len(text) /\ Len(B) = Len(A) + Len(Q) /\ v = Len(B) + PolyBlock
    BY <1>2, <1>3, <1>4, <1>5, <2>3
  <2> HIDE DEF x, y, z, u, v, P, Q
  <2>8. v = z
    BY <2>4, <2>5, <2>6, PolySize
  <2>7. i + j + 1 \in Nat
    OBVIOUS
  <2>. QED  BY <2>7, <2>8 DEF v, z
<1>7. Absorbed(PolyInit, <<>>, 0)
  <2>1. 0 * PolyBlock = 0
    BY PolySize
  <2>. QED  BY <2>1, PolySize DEF Absorbed, PolyInit
<1>8. <<>> \in Seq(Bytes) /\ <<>> \o aad = aad
  OBVIOUS
<1> HIDE DEF Absorbed
<1>9. PICK q1 \in Nat : Absorbed(s1, (<<>> \o aad) \o P, q1)
  BY <1>7, <1>8, PaddedInput, Zenon
<1>10. PICK q2 \in Nat : Absorbed(s2, ((aad \o P) \o text) \o Q, q2)
  <2>1. Absorbed(s1, aad \o P, q1)
    BY <1>8, <1>9
  <2>. QED  BY <1>2, <2>1, PaddedInput, Zenon
<1>11. PICK q3 \in Nat : Absorbed(s3, I, q3)
  <2>1. Absorbed(s2, B, q2)
    BY <1>10 DEF A, B
  <2>. QED  BY <1>1, <1>4, <2>1, PolyTakes, Zenon
<1>12. PICK m \in Nat : Len(I) = m * PolyBlock
  BY <1>6
<1>13. PolyFinish(s3) = BlocksOf(I, m)
  BY <1>5, <1>11, <1>12, PolyFinishes, Zenon
<1>14. Mac(aad, text) = PolyFinish(s3)
  BY Zenon DEF Mac
<1>15. MacInput(aad, text) = I
  BY DEF MacInput, A, B
<1>. QED  BY <1>5, <1>12, <1>13, <1>14, <1>15, Zenon

\* A length fits the digits it is written in.
DigitsFit(n) == n \in Nat /\ Shifted(n, PolyBlock \div 2)[PolyBlock \div 2] = 0

LEMMA MacTells ==
  ASSUME NEW aad \in Seq(Bytes), NEW text \in Seq(Bytes), NEW b \in Seq(Bytes), NEW t \in Seq(Bytes),
         DigitsFit(Len(aad)), DigitsFit(Len(text)), DigitsFit(Len(b)), DigitsFit(Len(t)), Mac(aad, text) = Mac(b, t)
  PROVE  aad = b /\ text = t
<1>1. MacInput(aad, text) = MacInput(b, t)
  <2>1. MacInput(aad, text) \in Seq(Bytes) /\ MacInput(b, t) \in Seq(Bytes)
    BY MacInputIs
  <2>2. PICK m \in Nat : /\ Len(MacInput(aad, text)) = m * PolyBlock
                         /\ Mac(aad, text) = BlocksOf(MacInput(aad, text), m)
    BY MacInputIs
  <2>3. PICK n \in Nat : /\ Len(MacInput(b, t)) = n * PolyBlock
                         /\ Mac(b, t) = BlocksOf(MacInput(b, t), n)
    BY MacInputIs
  <2>4. BlocksOf(MacInput(aad, text), m) = BlocksOf(MacInput(b, t), n)
    BY <2>2, <2>3
  <2>. QED  BY <2>1, <2>2, <2>3, <2>4, BlocksTell, Zenon
<1> DEFINE P == Pad(aad)
           Q == Pad(text)
           L == LengthBlock(aad, text)
           A == (aad \o P) \o text
           B == A \o Q
           R == Pad(b)
           T == Pad(t)
           M == LengthBlock(b, t)
           C == (b \o R) \o t
           D == C \o T
<1>2. /\ P \in Seq(Bytes) /\ Q \in Seq(Bytes) /\ L \in Seq(Bytes)
      /\ R \in Seq(Bytes) /\ T \in Seq(Bytes) /\ M \in Seq(Bytes)
      /\ Len(L) = PolyBlock /\ Len(M) = PolyBlock
  BY PadIs, LengthsAre
<1> DEFINE U == aad \o P
           V == b \o R
<1>3. U \in Seq(Bytes) /\ V \in Seq(Bytes)
  BY <1>2, JoinIs, Zenon
<1>4. A \in Seq(Bytes) /\ C \in Seq(Bytes)
  BY <1>3, JoinIs, Zenon
<1>5. B \in Seq(Bytes) /\ D \in Seq(Bytes)
  BY <1>2, <1>4, JoinIs, Zenon
<1>6. B \o L = D \o M
  BY <1>1, Zenon DEF MacInput
<1>7. B = D /\ L = M
  <2>1. Len(L) = Len(M) /\ L \in Seq(Bytes) /\ M \in Seq(Bytes)
    BY <1>2
  <2> HIDE DEF B, D, L, M
  <2>2. SameJoins(B, L, D, M)
    BY <1>6, <2>1, Zenon DEF SameJoins
  <2>. QED  BY <1>5, <2>1, <2>2, Cancel
<1>8. Len(aad) = Len(b) /\ Len(text) = Len(t)
  <2> DEFINE w == PolyBlock \div 2
  <2>1. w \in Nat /\ Len(aad) \in Nat /\ Len(b) \in Nat /\ Len(text) \in Nat /\ Len(t) \in Nat
    BY PolySize
  <2>2. /\ Shifted(Len(aad), w)[w] = 0 /\ Shifted(Len(text), w)[w] = 0
        /\ Shifted(Len(b), w)[w] = 0 /\ Shifted(Len(t), w)[w] = 0
    BY DEF DigitsFit
  <2>3. Digits(Len(aad), w) \o Digits(Len(text), w) = Digits(Len(b), w) \o Digits(Len(t), w)
    BY <1>7, Zenon DEF LengthBlock
  <2> HIDE DEF w
  <2>4. /\ Digits(Len(aad), w) \in Seq(Bytes) /\ Digits(Len(text), w) \in Seq(Bytes)
        /\ Digits(Len(b), w) \in Seq(Bytes) /\ Digits(Len(t), w) \in Seq(Bytes)
        /\ Len(Digits(Len(text), w)) = w /\ Len(Digits(Len(t), w)) = w
    BY <2>1, DigitsAre
  <2>5. SameJoins(Digits(Len(aad), w), Digits(Len(text), w), Digits(Len(b), w), Digits(Len(t), w))
    BY <2>3, <2>4, Zenon DEF SameJoins
  <2>6. Digits(Len(aad), w) = Digits(Len(b), w) /\ Digits(Len(text), w) = Digits(Len(t), w)
    BY <2>4, <2>5, Cancel, Zenon
  <2>. QED  BY <2>1, <2>2, <2>6, DigitsTell, Zenon
<1>9. Len(Q) = Len(T) /\ Len(P) = Len(R)
  <2>1. Q = T /\ P = R
    BY <1>8, Zenon DEF Pad
  <2>. QED  BY <2>1
<1>10. A = C
  <2>1. SameJoins(A, Q, C, T)
    BY <1>7, <1>9, Zenon DEF SameJoins
  <2> HIDE DEF A, Q, C, T
  <2>. QED  BY <1>2, <1>4, <2>1, Cancel
<1>11. U = V /\ text = t
  <2>1. U \o text = V \o t
    BY <1>10
  <2> HIDE DEF U, V
  <2>2. SameJoins(U, text, V, t)
    BY <1>8, <2>1, Zenon DEF SameJoins
  <2>. QED  BY <1>3, <2>2, Cancel
<1>12. aad = b
  <2>1. SameJoins(aad, P, b, R)
    BY <1>9, <1>11, Zenon DEF SameJoins
  <2> HIDE DEF P, R
  <2>. QED  BY <1>2, <2>1, Cancel
<1>. QED  BY <1>11, <1>12

-----------------------------------------------------------------------------
\* Spec => []OpenedIsSealed.

Toggle(ms, k) == (ms \ {k}) \cup ({k} \ ms)

LEMMA ToggleTwice ==
  ASSUME NEW T, NEW ms \in SUBSET T, NEW k \in T
  PROVE  Toggle(ms, k) \in SUBSET T /\ Toggle(Toggle(ms, k), k) = ms
BY DEF Toggle

LEMMA CryptIs ==
  ASSUME NEW data \in Seq(Bytes), NEW counter \in Nat
  PROVE  /\ Crypt(data, counter) \in Seq(Bytes) /\ Len(Crypt(data, counter)) = Len(data)
         /\ Crypt(Crypt(data, counter), counter) = data
<1> DEFINE mask(i) == <<counter + (i - 1) \div StreamBlock, (i - 1) % StreamBlock>>
           Turn(b, i) == [b EXCEPT !.masks = Toggle(@, mask(i))]
<1>1. StreamBlock \in Nat \ {0}
  BY PrimitivesAssumption
<1>2. ASSUME NEW i \in 1 .. Len(data)  PROVE mask(i) \in Pairs
  <2> DEFINE j == i - 1
  <2>1. j \in Nat
    OBVIOUS
  <2> HIDE DEF j
  <2>2. j \div StreamBlock \in Nat /\ j % StreamBlock \in Nat
    BY <1>1, <2>1
  <2>3. counter + j \div StreamBlock \in Nat
    BY <2>2
  <2>. QED  BY <2>2, <2>3 DEF j, Pairs
<1>3. \A x : Crypt(x, counter) = [i \in 1 .. Len(x) |-> Turn(x[i], i)]
  BY Zenon DEF Crypt, Toggle
<1> HIDE DEF mask
<1>4. ASSUME NEW i \in 1 .. Len(data)
      PROVE  Turn(data[i], i) \in Bytes /\ Turn(Turn(data[i], i), i) = data[i]
  <2>1. data[i] \in Bytes
    OBVIOUS
  <2>2. PICK v \in Nat, ms \in SUBSET Pairs : data[i] = [value |-> v, masks |-> ms]
    BY <2>1 DEF Bytes
  <2>3. mask(i) \in Pairs
    BY <1>2
  <2>4. Toggle(ms, mask(i)) \in SUBSET Pairs /\ Toggle(Toggle(ms, mask(i)), mask(i)) = ms
    BY <2>3, ToggleTwice, Zenon
  <2> DEFINE t == Toggle(ms, mask(i))
  <2>5. Turn(data[i], i) = [value |-> v, masks |-> t]
    BY <2>2
  <2> HIDE DEF t
  <2>6. Turn([value |-> v, masks |-> t], i) = [value |-> v, masks |-> Toggle(t, mask(i))]
    OBVIOUS
  <2>7. t \in SUBSET Pairs /\ Toggle(t, mask(i)) = ms
    BY <2>4 DEF t
  <2>8. [value |-> v, masks |-> t] \in Bytes
    BY <2>7 DEF Bytes
  <2> HIDE DEF Turn
  <2>9. Turn(Turn(data[i], i), i) = [value |-> v, masks |-> ms]
    BY <2>5, <2>6, <2>7, Zenon
  <2>. QED  BY <2>2, <2>5, <2>8, <2>9, Zenon
<1> HIDE DEF Turn
<1> DEFINE c == Crypt(data, counter)
<1>5. c = [i \in 1 .. Len(data) |-> Turn(data[i], i)]
  BY <1>3
<1>6. c \in Seq(Bytes) /\ Len(c) = Len(data)
  <2> HIDE DEF c, Bytes
  <2>. QED  BY <1>4, <1>5
<1>7. Crypt(c, counter) = [i \in 1 .. Len(c) |-> Turn(c[i], i)]
  BY <1>3
<1> HIDE DEF c
<1>8. \A i \in 1 .. Len(data) : Turn(c[i], i) = data[i]
  BY <1>4, <1>5
<1>9. Crypt(c, counter) = [i \in 1 .. Len(data) |-> data[i]]
  BY <1>6, <1>7, <1>8
<1>10. data = [i \in 1 .. Len(data) |-> data[i]]
  OBVIOUS
<1>. QED  BY <1>6, <1>9, <1>10 DEF c

LEMMA TextIs ==
  ASSUME NEW n \in Nat
  PROVE  Text(1, n) \in Seq(Bytes) /\ Len(Text(1, n)) = n
<1>1. \A i \in 1 .. n : Byte(1 + i - 1) \in Bytes
  BY ByteIs
<1>2. Text(1, n) = [i \in 1 .. n |-> Byte(1 + i - 1)]
  BY DEF Text
<1> HIDE DEF Byte
<1>. QED  BY <1>1, <1>2

\* A length that PrimitivesAssumption speaks of.
Short(n) == \E a \in AadLengths, k \in TextLengths : n \in 0 .. a + k + PolyBlock

LEMMA ShortFits ==
  ASSUME NEW n, Short(n)
  PROVE  DigitsFit(n)
<1>1. PICK a \in AadLengths, k \in TextLengths : n \in 0 .. a + k + PolyBlock
  BY DEF Short
<1>2. n \in Nat
  BY <1>1
<1>. QED  BY <1>1, <1>2, PrimitivesAssumption DEF DigitsFit

\* What was sealed is the text, and what arrives has its tag.
SentIs(m) ==
  \E a \in AadLengths, n \in TextLengths, aad \in Seq(Bytes) :
    Len(aad) = a /\ m = Encrypt(aad, Text(1, n))

ArrivedIs(m, s) ==
  /\ m.aad \in Seq(Bytes) /\ m.text \in Seq(Bytes)
  /\ Short(Len(m.aad)) /\ Short(Len(m.text)) /\ m.tag = s.tag

SealedInv ==
  /\ sent # NoMessage => SentIs(sent)
  /\ arrived # NoMessage => sent # NoMessage /\ ArrivedIs(arrived, sent)
  /\ opened # NoMessage => arrived # NoMessage /\ opened = [text |-> Decrypt(arrived)]

LEMMA SentTells ==
  ASSUME NEW m, SentIs(m)
  PROVE  /\ m = [aad |-> m.aad, text |-> m.text, tag |-> m.tag]
         /\ m.aad \in Seq(Bytes) /\ m.text \in Seq(Bytes) /\ m.tag = Mac(m.aad, m.text)
         /\ Len(m.aad) \in AadLengths /\ Len(m.text) \in TextLengths
         /\ Crypt(m.text, 1) = Text(1, Len(m.text))
<1>1. PICK a \in AadLengths, n \in TextLengths, aad \in Seq(Bytes) :
        Len(aad) = a /\ m = Encrypt(aad, Text(1, n))
  BY DEF SentIs
<1>2. n \in Nat
  BY PrimitivesAssumption
<1> DEFINE c == Crypt(Text(1, n), 1)
<1>3. /\ c \in Seq(Bytes) /\ Len(c) = n /\ Crypt(c, 1) = Text(1, n)
  BY <1>2, TextIs, CryptIs
<1>4. m = [aad |-> aad, text |-> c, tag |-> Mac(aad, c)]
  BY <1>1, Zenon DEF Encrypt
<1> HIDE DEF c
<1>5. m.aad = aad /\ m.text = c /\ m.tag = Mac(aad, c)
  BY <1>4
<1>. QED  BY <1>1, <1>3, <1>4, <1>5

LEMMA ShortMessages ==
  ASSUME NEW m, SentIs(m)
  PROVE  /\ Short(Len(m.aad)) /\ Short(Len(m.text))
         /\ \A n \in 0 .. Len(m.aad) + Len(m.text) + PolyBlock : Short(n)
<1>1. Len(m.aad) \in AadLengths /\ Len(m.text) \in TextLengths
  BY SentTells
<1>2. \A n \in 0 .. Len(m.aad) + Len(m.text) + PolyBlock : Short(n)
  BY <1>1, Zenon DEF Short
<1> DEFINE x == Len(m.aad)
           y == Len(m.text)
<1>3. x \in Nat /\ y \in Nat
  BY <1>1, PrimitivesAssumption
<1> HIDE DEF x, y
<1>4. x \in 0 .. x + y + PolyBlock /\ y \in 0 .. x + y + PolyBlock
  BY <1>3, PolySize
<1>. QED  BY <1>2, <1>4 DEF x, y

LEMMA OpenedWasSealed ==
  ASSUME SealedInv
  PROVE  OpenedIsSealed
<1> SUFFICES ASSUME opened # NoMessage
             PROVE  IF <<arrived.aad, arrived.text>> = <<sent.aad, sent.text>>
                    THEN opened.text = Text(1, Len(sent.text))
                    ELSE opened.text = NoMessage
  BY DEF OpenedIsSealed
<1>1. /\ SentIs(sent) /\ ArrivedIs(arrived, sent) /\ opened = [text |-> Decrypt(arrived)]
  BY DEF SealedInv
<1>2. opened.text = Decrypt(arrived)
  BY <1>1
<1>3. /\ sent.aad \in Seq(Bytes) /\ sent.text \in Seq(Bytes) /\ sent.tag = Mac(sent.aad, sent.text)
      /\ Crypt(sent.text, 1) = Text(1, Len(sent.text))
      /\ DigitsFit(Len(sent.aad)) /\ DigitsFit(Len(sent.text))
  BY <1>1, SentTells, ShortMessages, ShortFits
<1>4. /\ arrived.aad \in Seq(Bytes) /\ arrived.text \in Seq(Bytes) /\ arrived.tag = sent.tag
      /\ DigitsFit(Len(arrived.aad)) /\ DigitsFit(Len(arrived.text))
  BY <1>1, ShortFits DEF ArrivedIs
<1>5. ASSUME arrived.aad = sent.aad, arrived.text = sent.text
      PROVE  opened.text = Text(1, Len(sent.text))
  <2>1. Mac(arrived.aad, arrived.text) = arrived.tag
    BY <1>3, <1>4, <1>5
  <2>2. Decrypt(arrived) = Crypt(arrived.text, 1)
    BY <2>1, Zenon DEF Decrypt
  <2>. QED  BY <1>2, <1>3, <1>5, <2>2
<1>6. ASSUME ~ (arrived.aad = sent.aad /\ arrived.text = sent.text)
      PROVE  opened.text = NoMessage
  <2>1. Mac(arrived.aad, arrived.text) # Mac(sent.aad, sent.text)
    <3>1. SUFFICES ASSUME Mac(arrived.aad, arrived.text) = Mac(sent.aad, sent.text)
                   PROVE  FALSE
      OBVIOUS
    <3> DEFINE w == arrived.aad
               x == arrived.text
               y == sent.aad
               z == sent.text
    <3>2. /\ w \in Seq(Bytes) /\ x \in Seq(Bytes) /\ y \in Seq(Bytes) /\ z \in Seq(Bytes)
          /\ DigitsFit(Len(w)) /\ DigitsFit(Len(x)) /\ DigitsFit(Len(y)) /\ DigitsFit(Len(z)) /\ Mac(w, x) = Mac(y, z)
      BY <1>3, <1>4, <3>1
    <3> HIDE DEF w, x, y, z
    <3>3. w = y /\ x = z
      BY ONLY <3>2, MacTells
    <3>. QED  BY <1>6, <3>3 DEF w, x, y, z
  <2>2. Mac(arrived.aad, arrived.text) # arrived.tag
    BY <1>3, <1>4, <2>1
  <2>. QED  BY <1>2, <2>2, Zenon DEF Decrypt
<1>. QED  BY <1>5, <1>6

LEMMA SealedInvInit ==
  ASSUME Init
  PROVE  SealedInv
BY DEF Init, SealedInv

LEMMA SealKeeps ==
  ASSUME SealedInv, Seal
  PROVE  SealedInv'
<1>1. PICK a \in AadLengths, n \in TextLengths :
        \E aad \in {Text(1, a), Zeros(a)} : sent' = Encrypt(aad, Text(1, n))
  BY DEF Seal
<1>2. PICK aad \in {Text(1, a), Zeros(a)} : sent' = Encrypt(aad, Text(1, n))
  BY <1>1
<1>3. a \in Nat
  BY PrimitivesAssumption
<1>4. aad \in Seq(Bytes) /\ Len(aad) = a
  BY <1>3, TextIs, ZerosAre
<1>5. SentIs(sent')
  BY <1>2, <1>4, Zenon DEF SentIs
<1>6. arrived' = arrived /\ opened' = opened /\ sent = NoMessage
  BY DEF Seal
<1>. QED  BY <1>5, <1>6 DEF SealedInv

LEMMA ArriveKeeps ==
  ASSUME SealedInv, Arrive
  PROVE  SealedInv'
<1> DEFINE all == sent.aad \o sent.text
           A(border, more, after) == SubSeq(all, 1, border) \o (IF after THEN <<>> ELSE Zeros(more))
           T(border, end, more, after) ==
             SubSeq(all, border + 1, end) \o (IF after THEN Zeros(more) ELSE <<>>)
<1>1. SentIs(sent) /\ sent # NoMessage /\ arrived = NoMessage /\ opened' = opened /\ sent' = sent
  BY DEF Arrive, SealedInv
<1>2. PICK border \in 0 .. Len(all), end \in 0 .. Len(all), more \in 0 .. PolyBlock, after \in BOOLEAN :
        /\ border <= end
        /\ arrived' = [sent EXCEPT !.aad = A(border, more, after), !.text = T(border, end, more, after)]
  BY DEF Arrive
<1>3. /\ sent = [aad |-> sent.aad, text |-> sent.text, tag |-> sent.tag]
      /\ sent.aad \in Seq(Bytes) /\ sent.text \in Seq(Bytes)
  BY <1>1, SentTells
<1>4. all \in Seq(Bytes) /\ Len(all) = Len(sent.aad) + Len(sent.text) /\ Len(all) \in Nat
  <2> DEFINE u == sent.aad
             v == sent.text
  <2>1. u \in Seq(Bytes) /\ v \in Seq(Bytes)
    BY <1>3
  <2> HIDE DEF u, v
  <2>2. u \o v \in Seq(Bytes) /\ IsJoin(u \o v, u, v)
    BY <2>1, JoinIs, Zenon
  <2>3. Len(u \o v) = Len(u) + Len(v)
    BY <2>2, Zenon DEF IsJoin
  <2>4. all \in Seq(Bytes) /\ Len(all) = Len(sent.aad) + Len(sent.text)
    BY <2>2, <2>3 DEF u, v
  <2>5. Len(u) \in Nat /\ Len(v) \in Nat
    BY <2>1
  <2>6. Len(u) + Len(v) \in Nat
    BY <2>5
  <2>. QED  BY <2>2, <2>3, <2>6, Zenon DEF u, v
<1> HIDE DEF all
<1>15. border \in Nat /\ end \in Nat /\ border <= end /\ end <= Len(all)
  <2> DEFINE l == Len(all)
  <2>1. l \in Nat /\ border \in 0 .. l /\ end \in 0 .. l /\ border <= end
    BY <1>2, <1>4
  <2> HIDE DEF l
  <2>2. border \in Nat /\ end \in Nat /\ border <= end /\ end <= l
    BY <2>1
  <2>. QED  BY <2>2 DEF l
<1>5. Zeros(more) \in Seq(Bytes) /\ Len(Zeros(more)) = more /\ more \in Nat
  BY PolySize, ZerosAre
<1>6. SubSeq(all, 1, border) \in Seq(Bytes) /\ Len(SubSeq(all, 1, border)) = border
  BY <1>4, FirstOf
<1>7. SubSeq(all, border + 1, end) \in Seq(Bytes) /\ Len(SubSeq(all, border + 1, end)) = end - border
  <2>1. border \in Nat /\ end - border \in Nat /\ border + (end - border) = end /\ end <= Len(all)
    BY <1>15
  <2> DEFINE n == end - border
  <2>2. border \in Nat /\ n \in Nat /\ border + n = end
    BY <2>1
  <2> HIDE DEF n
  <2>3. border + n <= Len(all)
    BY <2>1, <2>2
  <2>4. SubSeq(all, border + 1, border + n) \in Seq(Bytes) /\ Len(SubSeq(all, border + 1, border + n)) = n
    <3>1. all \in Seq(Bytes)
      BY <1>4
    <3>. QED  BY ONLY <2>2, <2>3, <3>1, PartOf
  <2>. QED  BY <2>2, <2>4 DEF n
<1> DEFINE z == IF after THEN <<>> ELSE Zeros(more)
           o == IF after THEN Zeros(more) ELSE <<>>
           p == SubSeq(all, 1, border)
           r == SubSeq(all, border + 1, end)
<1>8. /\ z \in Seq(Bytes) /\ o \in Seq(Bytes) /\ Len(z) \in 0 .. PolyBlock /\ Len(o) \in 0 .. PolyBlock
      /\ p \in Seq(Bytes) /\ r \in Seq(Bytes) /\ Len(p) = border /\ Len(r) = end - border
  <2>1. /\ z \in Seq(Bytes) /\ o \in Seq(Bytes) /\ Len(z) \in 0 .. PolyBlock /\ Len(o) \in 0 .. PolyBlock
    BY <1>5, PolySize
  <2>. QED  BY <1>6, <1>7, <2>1
<1> HIDE DEF z, o, p, r
<1>9. /\ p \o z \in Seq(Bytes) /\ Len(p \o z) = border + Len(z)
      /\ r \o o \in Seq(Bytes) /\ Len(r \o o) = end - border + Len(o)
  <2>1. p \o z \in Seq(Bytes) /\ IsJoin(p \o z, p, z) /\ r \o o \in Seq(Bytes) /\ IsJoin(r \o o, r, o)
    BY <1>8, JoinIs, Zenon
  <2>2. Len(p \o z) = Len(p) + Len(z) /\ Len(r \o o) = Len(r) + Len(o)
    BY <2>1, Zenon DEF IsJoin
  <2>. QED  BY <1>8, <2>1, <2>2, Zenon
<1>10. arrived' = [aad |-> p \o z, text |-> r \o o, tag |-> sent.tag]
  <2>1. A(border, more, after) = p \o z /\ T(border, end, more, after) = r \o o
    BY DEF p, z, r, o
  <2> HIDE DEF A, T
  <2>. QED  BY <1>2, <1>3, <2>1
<1>11. Short(Len(p \o z)) /\ Short(Len(r \o o))
  <2> DEFINE x == Len(p \o z)
             y == Len(r \o o)
  <2>1. /\ x = border + Len(z) /\ y = end - border + Len(o)
        /\ Len(z) \in 0 .. PolyBlock /\ Len(o) \in 0 .. PolyBlock
    BY <1>8, <1>9
  <2> DEFINE l == Len(all)
             k == Len(z)
             j == Len(o)
  <2>4. /\ x = border + k /\ y = end - border + j /\ k \in 0 .. PolyBlock /\ j \in 0 .. PolyBlock
        /\ border \in Nat /\ end \in Nat /\ border <= end /\ end <= l /\ l \in Nat
    BY <1>4, <1>15, <2>1
  <2> HIDE DEF x, y, l, k, j
  <2>5. x \in 0 .. l + PolyBlock /\ y \in 0 .. l + PolyBlock
    BY <2>4, PolySize
  <2>2. x \in 0 .. Len(all) + PolyBlock /\ y \in 0 .. Len(all) + PolyBlock
    BY <2>5 DEF l
  <2>3. \A n \in 0 .. Len(all) + PolyBlock : Short(n)
    BY <1>1, <1>4, ShortMessages
  <2>. QED  BY <2>2, <2>3 DEF x, y
<1>12. arrived'.aad = p \o z /\ arrived'.text = r \o o /\ arrived'.tag = sent.tag
  BY <1>10
<1>13. ArrivedIs(arrived', sent')
  BY <1>1, <1>9, <1>11, <1>12, Zenon DEF ArrivedIs
<1>14. opened = NoMessage
  BY <1>1 DEF SealedInv
<1>. QED  BY <1>1, <1>13, <1>14 DEF SealedInv

LEMMA SealedInvNext ==
  ASSUME SealedInv, [Next]_vars
  PROVE  SealedInv'
<1>1. CASE Update
  BY <1>1 DEF Update, SealedInv
<1>2. CASE Seal
  BY <1>2, SealKeeps
<1>3. CASE Arrive
  BY <1>3, ArriveKeeps
<1>4. CASE Open
  <2>1. /\ arrived # NoMessage /\ opened' = [text |-> Decrypt(arrived)]
        /\ sent' = sent /\ arrived' = arrived
    BY <1>4 DEF Open
  <2>. QED  BY <2>1 DEF SealedInv
<1>5. CASE UNCHANGED vars
  BY <1>5 DEF vars, digests, SealedInv
<1>6. CASE Finished
  BY <1>6 DEF Finished, vars, digests, SealedInv
<1>. QED  BY <1>1, <1>2, <1>3, <1>4, <1>5, <1>6 DEF Next

\* chacha20_poly1305_decrypt opens a message just if its parts are those that
\* were sealed, and returns the text, for every size of the blocks and every
\* length the tag's digits hold.
THEOREM SealedIsOpened == Spec => []OpenedIsSealed
<1>1. Init => SealedInv
  BY SealedInvInit
<1>2. SealedInv /\ [Next]_vars => SealedInv'
  BY SealedInvNext
<1>3. SealedInv => OpenedIsSealed
  BY OpenedWasSealed
<1>. QED  BY <1>1, <1>2, <1>3, PTL DEF Spec
-----------------------------------------------------------------------------
\* n places of D, after place a.
Piece(D, a, n) == [k \in 1 .. n |-> D[a + k]]

LEMMA PieceIs ==
  ASSUME NEW S, NEW D \in Seq(S), NEW a \in Nat, NEW n \in Nat, a + n <= Len(D)
  PROVE  Piece(D, a, n) \in Seq(S) /\ Len(Piece(D, a, n)) = n
<1>1. ASSUME NEW k \in 1 .. n  PROVE D[a + k] \in S
  <2>1. a + k \in 1 .. Len(D)
    OBVIOUS
  <2>. QED  BY <2>1
<1>. QED  BY <1>1 DEF Piece

LEMMA PieceStarts ==
  ASSUME NEW S, NEW D \in Seq(S), NEW a \in Nat, NEW n \in Nat, a + n <= Len(D), NEW t \in 0 .. n
  PROVE  SubSeq(Piece(D, a, n), 1, t) = Piece(D, a, t)
<1> DEFINE P == Piece(D, a, n)
<1>1. P \in Seq(S) /\ Len(P) = n
  BY PieceIs
<1>2. \A k \in 1 .. n : P[k] = D[a + k]
  BY DEF Piece
<1> HIDE DEF P
<1>3. t \in Nat /\ 0 + t <= Len(P) /\ 0 + 1 = 1 /\ 0 + t = t
  BY <1>1
<1>4. SubSeq(P, 0 + 1, 0 + t) = [k \in 1 .. t |-> P[0 + k]]
  BY <1>1, <1>3, PartOf
<1>5. SubSeq(P, 1, t) = [k \in 1 .. t |-> P[k]]
  BY <1>3, <1>4
<1>6. \A k \in 1 .. t : P[k] = D[a + k]
  BY <1>2
<1>. QED  BY <1>5, <1>6 DEF P, Piece

LEMMA PieceEnds ==
  ASSUME NEW S, NEW D \in Seq(S), NEW a \in Nat, NEW n \in Nat, a + n <= Len(D), NEW t \in 0 .. n
  PROVE  After(Piece(D, a, n), t) = Piece(D, a + t, n - t)
<1> DEFINE P == Piece(D, a, n)
<1>1. P \in Seq(S) /\ Len(P) = n
  BY PieceIs
<1>2. \A k \in 1 .. n : P[k] = D[a + k]
  BY DEF Piece
<1> HIDE DEF P
<1> DEFINE m == n - t
<1>3. t \in Nat /\ m \in Nat /\ t + m = n /\ t + m <= Len(P)
  BY <1>1
<1> HIDE DEF m
<1>4. SubSeq(P, t + 1, t + m) = [k \in 1 .. m |-> P[t + k]]
  BY <1>1, <1>3, PartOf
<1>5. After(P, t) = [k \in 1 .. m |-> P[t + k]]
  BY <1>1, <1>3, <1>4 DEF After
<1>6. \A k \in 1 .. m : P[t + k] = D[a + t + k]
  <2>1. \A k \in 1 .. m : t + k \in 1 .. n /\ a + (t + k) = a + t + k
    BY <1>3
  <2>. QED  BY <1>2, <2>1
<1>. QED  BY <1>5, <1>6 DEF P, Piece, m

LEMMA PiecesJoin ==
  ASSUME NEW S, NEW D \in Seq(S), NEW a \in Nat, NEW n \in Nat, NEW m \in Nat, a + n + m <= Len(D)
  PROVE  Piece(D, a, n) \o Piece(D, a + n, m) = Piece(D, a, n + m)
<1> DEFINE P == Piece(D, a, n)
           Q == Piece(D, a + n, m)
<1>1. P \in Seq(S) /\ Len(P) = n /\ Q \in Seq(S) /\ Len(Q) = m
  BY PieceIs
<1>2. (\A k \in 1 .. n : P[k] = D[a + k]) /\ (\A k \in 1 .. m : Q[k] = D[a + n + k])
  BY DEF Piece
<1> HIDE DEF P, Q
<1>3. P \o Q \in Seq(S) /\ IsJoin(P \o Q, P, Q)
  BY <1>1, JoinIs, Zenon
<1> DEFINE J == P \o Q
<1>4. /\ J \in Seq(S) /\ Len(J) = Len(P) + Len(Q)
      /\ \A k \in 1 .. Len(P) : J[k] = P[k]
      /\ \A k \in 1 .. Len(Q) : J[Len(P) + k] = Q[k]
  BY <1>3, Zenon DEF IsJoin
<1> HIDE DEF J
<1>5. Len(J) = n + m
  BY <1>1, <1>4
<1>6. ASSUME NEW k \in 1 .. n + m  PROVE J[k] = D[a + k]
  <2>1. CASE k \in 1 .. n
    BY <1>1, <1>2, <1>4, <2>1
  <2>2. CASE k \notin 1 .. n
    <3>1. k - n \in 1 .. m /\ n + (k - n) = k /\ a + n + (k - n) = a + k
      BY <2>2
    <3>2. J[n + (k - n)] = Q[k - n] /\ Q[k - n] = D[a + n + (k - n)]
      BY <1>1, <1>2, <1>4, <3>1
    <3>. QED  BY <3>1, <3>2
  <2>. QED  BY <2>1, <2>2
<1>7. J = [k \in 1 .. n + m |-> D[a + k]]
  BY <1>4, <1>5, <1>6
<1>. QED  BY <1>7 DEF J, P, Q, Piece

-----------------------------------------------------------------------------
(* SHA-256 *)

LEMMA ShaSize ==
  /\ ShaBlock \in Nat \ {0} /\ ShaLength \in Nat \ {0} /\ ShaLength < ShaBlock
BY DigestsAssumption

\* A turn of the loop in sha256_update.
ShaTurn(p) == IF p.rest = <<>> THEN p ELSE ShaTake(p.state, p.rest)

IsShaRun(f, b, n) == f = [i \in 0 .. n |-> IF i = 0 THEN b ELSE ShaTurn(f[i - 1])]

LEMMA ShaRunsExist ==
  ASSUME NEW b, NEW n \in Nat
  PROVE  \E f : IsShaRun(f, b, n)
<1> DEFINE T == {m \in Nat : ~ \E f : IsShaRun(f, b, m)}
<1>1. SUFFICES ASSUME T # {}  PROVE FALSE
  OBVIOUS
<1>2. PICK m \in T : \A k \in T : m <= k
  BY <1>1, LeastNatural
<1>3. m # 0
  <2>1. IsShaRun([i \in 0 .. 0 |-> b], b, 0)
    BY DEF IsShaRun
  <2>. QED  BY <1>2, <2>1
<1>4. m - 1 \in Nat /\ m - 1 \notin T
  BY <1>2, <1>3
<1>5. PICK f : IsShaRun(f, b, m - 1)
  BY <1>4
<1> DEFINE g == [i \in 0 .. m |-> IF i \in 0 .. m - 1 THEN f[i] ELSE ShaTurn(f[m - 1])]
<1>6. ASSUME NEW i \in 0 .. m  PROVE g[i] = IF i = 0 THEN b ELSE ShaTurn(g[i - 1])
  <2>1. \A j \in 0 .. m - 1 : f[j] = IF j = 0 THEN b ELSE ShaTurn(f[j - 1])
    BY <1>5 DEF IsShaRun
  <2>2. CASE i = 0
    BY <1>4, <2>1, <2>2
  <2>3. CASE i \in 1 .. m - 1
    <3>1. i - 1 \in 0 .. m - 1 /\ i - 1 \in 0 .. m /\ i \in 0 .. m - 1
      BY <1>4, <2>3
    <3>. QED  BY <2>1, <2>3, <3>1
  <2>4. CASE i = m
    <3>1. i - 1 \in 0 .. m - 1 /\ i - 1 \in 0 .. m /\ i \notin 0 .. m - 1 /\ i # 0 /\ i - 1 = m - 1
      BY <1>3, <1>4, <2>4
    <3>. QED  BY <3>1
  <2>. QED  BY <1>4, <2>2, <2>3, <2>4
<1>7. IsShaRun(g, b, m)
  BY <1>6 DEF IsShaRun
<1>. QED  BY <1>2, <1>7

LEMMA ShaUpdateRuns ==
  ASSUME NEW s, NEW data, Len(data) \in Nat
  PROVE  \E f : /\ IsShaRun(f, [state |-> [s EXCEPT !.total = @ + Len(data)], rest |-> data], Len(data))
                /\ ShaUpdate(s, data) = f[Len(data)].state
<1> DEFINE b == [state |-> [s EXCEPT !.total = @ + Len(data)], rest |-> data]
           n == Len(data)
           g == CHOOSE f : f = [i \in 0 .. n |-> IF i = 0 THEN b ELSE ShaTurn(f[i - 1])]
<1> HIDE DEF b
<1>1. PICK f : IsShaRun(f, b, n)
  BY ShaRunsExist
<1>2. f = [i \in 0 .. n |-> IF i = 0 THEN b ELSE ShaTurn(f[i - 1])]
  BY <1>1, Zenon DEF IsShaRun
<1>3. g = [i \in 0 .. n |-> IF i = 0 THEN b ELSE ShaTurn(g[i - 1])]
  BY <1>2, Zenon
<1>4. ShaUpdate(s, data) = g[n].state
  BY Zenon DEF ShaUpdate, Loop, ShaTurn, b
<1> HIDE DEF g, n
<1>5. IsShaRun(g, b, n)
  BY <1>3, Zenon DEF IsShaRun
<1>. QED  BY <1>4, <1>5 DEF b, n

ShaHolds(s, D, n, q) ==
  /\ s = [chain |-> s.chain, buf |-> s.buf, total |-> s.total]
  /\ q \in Nat /\ q * ShaBlock <= n /\ n - q * ShaBlock < ShaBlock
  /\ s.chain = [i \in 1 .. q |-> Piece(D, (i - 1) * ShaBlock, ShaBlock)]
  /\ s.buf = Piece(D, q * ShaBlock, n - q * ShaBlock)

\* What a turn leaves: at least from place n on, the loop is at some place of D.
TurnTaken(t, total, D, n) ==
  \E m \in n .. Len(D), u \in Nat :
    ShaHolds(t.state, D, m, u) /\ t.state.total = total /\ t.rest = Piece(D, m, Len(D) - m)

\* sha256_update takes from the piece what the buffer has room for.
LEMMA ShaTurns ==
  ASSUME NEW S, NEW D \in Seq(S), NEW n \in Nat, n < Len(D), NEW s, NEW q, ShaHolds(s, D, n, q)
  PROVE  TurnTaken(ShaTake(s, Piece(D, n, Len(D) - n)), s.total, D, n + 1)
<1> DEFINE l == Len(D)
           a == q * ShaBlock
           r == n - a
           rest == Piece(D, n, l - n)
           take == Min({Len(rest), ShaBlock - Len(s.buf)})
           buf == s.buf \o SubSeq(rest, 1, take)
           filled == [s EXCEPT !.buf = @ \o SubSeq(rest, 1, take)]
           t == ShaTake(s, rest)
           m == n + take
<1>1. /\ l \in Nat /\ ShaBlock \in Nat \ {0} /\ q \in Nat /\ a \in Nat /\ r \in 0 .. ShaBlock - 1 /\ n = a + r
      /\ n < l
  <2>1. l \in Nat /\ ShaBlock \in Nat \ {0} /\ q \in Nat /\ a <= n /\ n - a < ShaBlock /\ n < l
    BY ShaSize DEF ShaHolds
  <2>2. a \in Nat
    BY <2>1, Multiples
  <2> HIDE DEF a, l
  <2>. QED  BY <2>1, <2>2
<1>2. s.buf = Piece(D, a, r)
  BY DEF ShaHolds
<1>3. t = [state |-> ShaCompress(filled), rest |-> After(rest, take)]
  BY Zenon DEF ShaTake
<1>4. s = [chain |-> s.chain, buf |-> s.buf, total |-> s.total]
  BY DEF ShaHolds
<1>5. s.chain = [i \in 1 .. q |-> Piece(D, (i - 1) * ShaBlock, ShaBlock)]
  BY DEF ShaHolds
<1> HIDE DEF a, r, l
<1>6. s.buf \in Seq(S) /\ Len(s.buf) = r
  <2>1. a \in Nat /\ r \in Nat /\ a + r <= Len(D)
    BY <1>1 DEF l
  <2>. QED  BY <1>2, <2>1, PieceIs
<1>7. rest \in Seq(S) /\ Len(rest) = l - n
  <2> DEFINE k == l - n
  <2>1. k \in Nat /\ n + k = l
    BY <1>1
  <2> HIDE DEF k
  <2>2. n + k <= Len(D)
    BY <1>1, <2>1 DEF l
  <2>3. Piece(D, n, k) \in Seq(S) /\ Len(Piece(D, n, k)) = k
    BY <2>1, <2>2, PieceIs
  <2>. QED  BY <2>3 DEF k
<1>8. /\ take \in 1 .. l - n /\ r + take <= ShaBlock /\ (r + take = ShaBlock \/ take = l - n)
  <2>1. l - n \in Nat /\ ShaBlock - r \in Nat
    BY <1>1
  <2>2. take = IF l - n <= ShaBlock - r THEN l - n ELSE ShaBlock - r
    BY <1>6, <1>7, <2>1, MinOfTwo
  <2> HIDE DEF take
  <2>. QED  BY <1>1, <2>2
<1> HIDE DEF take
<1>9. SubSeq(rest, 1, take) = Piece(D, n, take)
  <2> DEFINE k == l - n
  <2>1. k \in Nat /\ n + k <= Len(D) /\ take \in 0 .. k
    BY <1>1, <1>8 DEF l
  <2> HIDE DEF k
  <2>2. SubSeq(Piece(D, n, k), 1, take) = Piece(D, n, take)
    BY <2>1, PieceStarts
  <2>. QED  BY <2>2 DEF k
<1>10. m \in n + 1 .. l /\ m \in Nat
  BY <1>1, <1>8
<1>11. After(rest, take) = Piece(D, m, l - m)
  <2> DEFINE k == l - n
  <2>1. k \in Nat /\ n + k <= Len(D) /\ take \in 0 .. k /\ k - take = l - m
    BY <1>1, <1>8 DEF l
  <2> HIDE DEF k, m
  <2>2. After(Piece(D, n, k), take) = Piece(D, n + take, k - take)
    BY <2>1, PieceEnds
  <2>. QED  BY <2>1, <2>2 DEF k, m
<1>12. buf = Piece(D, a, r + take)
  <2>1. a \in Nat /\ r \in Nat /\ take \in Nat /\ a + r + take <= Len(D)
    BY <1>1, <1>8 DEF l
  <2>2. Piece(D, a, r) \o Piece(D, a + r, take) = Piece(D, a, r + take)
    BY <2>1, PiecesJoin
  <2>3. buf = Piece(D, a, r) \o Piece(D, n, take)
    BY <1>2, <1>9
  <2>. QED  BY <1>1, <2>2, <2>3
<1>13. Len(buf) = r + take
  <2> DEFINE k == r + take
  <2>1. a \in Nat /\ k \in Nat /\ a + k <= Len(D)
    BY <1>1, <1>8 DEF l
  <2> HIDE DEF k
  <2>2. Len(Piece(D, a, k)) = k
    BY <2>1, PieceIs
  <2>. QED  BY <1>12, <2>2 DEF k
<1>14. filled = [chain |-> s.chain, buf |-> buf, total |-> s.total]
  <2> DEFINE more == SubSeq(rest, 1, take)
             g == [chain |-> s.chain, buf |-> s.buf, total |-> s.total]
  <2>1. filled = [s EXCEPT !.buf = @ \o more]
    BY Zenon
  <2>2. s = g
    BY <1>4
  <2> HIDE DEF more, filled, buf, g
  <2>3. filled = [g EXCEPT !.buf = g.buf \o more]
    BY <2>1, <2>2, Zenon
  <2>4. g.buf \o more = buf
    BY <2>2, Zenon DEF buf, more
  <2>5. [g EXCEPT !.buf = buf] = [chain |-> s.chain, buf |-> buf, total |-> s.total]
    BY DEF g
  <2>. QED  BY <2>3, <2>4, <2>5, Zenon
<1> HIDE DEF buf, filled, t, rest, m
<1>15. filled.chain = s.chain /\ filled.buf = buf /\ filled.total = s.total
  BY <1>14
<1>16. t.rest = Piece(D, m, l - m) /\ t.state = ShaCompress(filled)
  BY <1>3, <1>11
<1>17. ASSUME NEW u \in Nat, ShaHolds(t.state, D, m, u), t.state.total = s.total
       PROVE  TurnTaken(ShaTake(s, Piece(D, n, Len(D) - n)), s.total, D, n + 1)
  <2>1. TurnTaken(t, s.total, D, n + 1)
    BY <1>10, <1>16, <1>17, Zenon DEF l, TurnTaken
  <2>. QED  BY <2>1, Zenon DEF l, t, rest
<1>18. CASE r + take = ShaBlock
  <2>1. ShaCompress(filled) = [chain |-> Append(s.chain, buf), buf |-> <<>>, total |-> s.total]
    <3>1. Len(filled.buf) = ShaBlock
      BY <1>13, <1>15, <1>18
    <3>2. ShaCompress(filled) = [filled EXCEPT !.chain = Append(@, filled.buf), !.buf = <<>>]
      BY <3>1, Zenon DEF ShaCompress
    <3>. QED  BY <1>14, <1>15, <3>2
  <2> DEFINE F(i) == Piece(D, (i - 1) * ShaBlock, ShaBlock)
             h == Append(s.chain, buf)
  <2>2. buf = F(q + 1)
    <3>1. PICK i : i = q + 1
      OBVIOUS
    <3>2. i - 1 = q
      BY <1>1, <3>1
    <3>3. F(i) = Piece(D, a, ShaBlock)
      BY <3>2, Zenon DEF a
    <3> HIDE DEF F
    <3>. QED  BY <1>12, <1>18, <3>1, <3>3
  <2> HIDE DEF F
  <2>3. s.chain = [i \in 1 .. q |-> F(i)]
    BY <1>5 DEF F
  <2>4. h = [i \in 1 .. q + 1 |-> F(i)]
    <3>1. Len(s.chain) = q
      BY <1>1, <2>3
    <3>2. h = [i \in 1 .. q + 1 |-> IF i = q + 1 THEN buf ELSE s.chain[i]]
      <4> DEFINE c == s.chain
                 R == {F(i) : i \in 1 .. q} \cup {buf}
      <4>1. c \in Seq(R) /\ Len(c) = q /\ buf \in R
        BY <1>1, <2>3
      <4> HIDE DEF c, R
      <4>2. /\ Append(c, buf) \in Seq(R) /\ Len(Append(c, buf)) = Len(c) + 1
            /\ \A i \in 1 .. Len(c) : Append(c, buf)[i] = c[i]
            /\ Append(c, buf)[Len(c) + 1] = buf
        BY <4>1, Appended, Zenon
      <4> DEFINE g == Append(c, buf)
      <4>3. /\ g \in Seq(R) /\ Len(g) = q + 1 /\ \A i \in 1 .. q : g[i] = c[i]
            /\ g[q + 1] = buf
        BY <4>1, <4>2, Zenon
      <4> HIDE DEF g
      <4>4. \A i \in 1 .. q + 1 : g[i] = IF i = q + 1 THEN buf ELSE c[i]
        BY <1>1, <4>3
      <4>5. g = [i \in 1 .. q + 1 |-> IF i = q + 1 THEN buf ELSE c[i]]
        BY <4>3, <4>4
      <4>. QED  BY <4>5 DEF g, c
    <3>3. ASSUME NEW i \in 1 .. q + 1  PROVE (IF i = q + 1 THEN buf ELSE s.chain[i]) = F(i)
      <4>1. CASE i = q + 1
        BY <2>2, <4>1
      <4>2. CASE i # q + 1
        <5>1. i \in 1 .. q
          BY <1>1, <4>2
        <5>. QED  BY <2>3, <4>2, <5>1
      <4>. QED  BY <4>1, <4>2
    <3>. QED  BY <3>2, <3>3
  <2>5. q + 1 \in Nat /\ (q + 1) * ShaBlock = m
    <3>1. (q + 1) * ShaBlock = a + ShaBlock
      BY <1>1, Multiples DEF a
    <3>2. m = a + ShaBlock
      BY <1>1, <1>8, <1>18 DEF m
    <3>. QED  BY <1>1, <3>1, <3>2
  <2> HIDE DEF h
  <2>6. t.state = [chain |-> h, buf |-> <<>>, total |-> s.total]
    BY <1>16, <2>1 DEF h
  <2>7. Piece(D, m, 0) = <<>> /\ m - m = 0
    BY <1>10 DEF Piece
  <2>8. t.state.chain = h /\ t.state.buf = <<>> /\ t.state.total = s.total
    BY <2>6
  <2>9. t.state = [chain |-> t.state.chain, buf |-> t.state.buf, total |-> t.state.total]
    BY <2>6, <2>8
  <2>10. h = [i \in 1 .. q + 1 |-> Piece(D, (i - 1) * ShaBlock, ShaBlock)]
    BY <2>4 DEF F
  <2>11. m <= m /\ m - m < ShaBlock
    BY <1>1, <1>10
  <2>12. ShaHolds(t.state, D, m, q + 1)
    BY <2>5, <2>7, <2>8, <2>9, <2>10, <2>11, Zenon DEF ShaHolds
  <2>. QED  BY <1>17, <2>5, <2>8, <2>12
<1>19. CASE r + take # ShaBlock
  <2>1. ShaCompress(filled) = filled
    <3>1. Len(filled.buf) # ShaBlock
      BY <1>13, <1>15, <1>19
    <3>. QED  BY <3>1, Zenon DEF ShaCompress
  <2>2. t.state.chain = s.chain /\ t.state.buf = buf /\ t.state.total = s.total
    BY <1>15, <1>16, <2>1
  <2>3. t.state = [chain |-> t.state.chain, buf |-> t.state.buf, total |-> t.state.total]
    BY <1>14, <1>16, <2>1, <2>2
  <2>4. a <= m /\ m - a < ShaBlock /\ m - a = r + take
    BY <1>1, <1>8, <1>19 DEF m
  <2>5. buf = Piece(D, a, m - a)
    BY <1>12, <2>4
  <2>6. ShaHolds(t.state, D, m, q)
    BY <1>1, <1>5, <2>2, <2>3, <2>4, <2>5, Zenon DEF ShaHolds, a
  <2>. QED  BY <1>1, <1>17, <2>2, <2>6
<1>. QED  BY <1>18, <1>19

\* Whatever pieces a message comes in, the blocks are those of the whole.
LEMMA ShaTakes ==
  ASSUME NEW S, NEW D \in Seq(S), NEW n \in 0 .. Len(D), NEW s, NEW q, ShaHolds(s, D, n, q),
         NEW x, x = Piece(D, n, Len(D) - n), s.total \in Nat
  PROVE  /\ \E u \in Nat : ShaHolds(ShaUpdate(s, x), D, Len(D), u)
         /\ ShaUpdate(s, x).total = s.total + (Len(D) - n)
<1> DEFINE l == Len(D)
           k == l - n
           b == [state |-> [s EXCEPT !.total = @ + k], rest |-> x]
           At(p, i) == \E m \in n .. l, u \in Nat :
                         /\ m >= n + i \/ m = l
                         /\ ShaHolds(p.state, D, m, u) /\ p.state.total = s.total + k
                         /\ p.rest = Piece(D, m, l - m)
<1>1. l \in Nat /\ n \in Nat /\ k \in Nat /\ n + k = l /\ Len(D) = l
  OBVIOUS
<1>2. Len(x) = k
  <2> HIDE DEF k
  <2>1. n + k <= Len(D)
    BY <1>1
  <2>. QED  BY <1>1, <2>1, PieceIs DEF k
<1>3. PICK f : IsShaRun(f, b, k) /\ ShaUpdate(s, x) = f[k].state
  <2>1. Len(x) \in Nat
    BY <1>1, <1>2
  <2>2. PICK f : /\ IsShaRun(f, [state |-> [s EXCEPT !.total = @ + Len(x)], rest |-> x], Len(x))
                 /\ ShaUpdate(s, x) = f[Len(x)].state
    BY <2>1, ShaUpdateRuns
  <2>. QED  BY <1>2, <2>2
<1>4. (\A i \in 0 .. k : f[i] = IF i = 0 THEN b ELSE ShaTurn(f[i - 1]))
  BY <1>3, Zenon DEF IsShaRun
<1>5. At(b, 0)
  <2>1. s = [chain |-> s.chain, buf |-> s.buf, total |-> s.total]
    BY DEF ShaHolds
  <2>2. b.state = [chain |-> s.chain, buf |-> s.buf, total |-> s.total + k] /\ b.rest = x
    <3> HIDE DEF k
    <3>1. [s EXCEPT !.total = @ + k]
            = [[chain |-> s.chain, buf |-> s.buf, total |-> s.total] EXCEPT !.total = @ + k]
      BY <2>1, Zenon
    <3>. QED  BY <3>1
  <2> HIDE DEF b, k
  <2>3. b.state.chain = s.chain /\ b.state.buf = s.buf /\ b.state.total = s.total + k
    BY <2>2
  <2>4. b.state = [chain |-> b.state.chain, buf |-> b.state.buf, total |-> b.state.total]
    BY <2>2, <2>3
  <2>5. ShaHolds(b.state, D, n, q)
    BY <2>3, <2>4, Zenon DEF ShaHolds
  <2>6. q \in Nat
    BY DEF ShaHolds
  <2>7. n \in n .. l /\ n >= n + 0
    BY <1>1
  <2>. QED  BY <2>2, <2>3, <2>5, <2>6, <2>7, Zenon
<1> HIDE DEF l, k
<1>6. ASSUME NEW i \in 1 .. k, NEW p, At(p, i - 1)  PROVE At(ShaTurn(p), i)
  <2>1. PICK m \in n .. l, u \in Nat :
          /\ m >= n + (i - 1) \/ m = l
          /\ ShaHolds(p.state, D, m, u) /\ p.state.total = s.total + k
          /\ p.rest = Piece(D, m, l - m)
    BY <1>6
  <2>2. CASE m = l
    <3>1. p.rest = <<>>
      <4>1. l - l = 0
        BY <1>1
      <4>2. p.rest = Piece(D, l, 0)
        BY <2>1, <2>2, <4>1
      <4>. QED  BY <4>2 DEF Piece
    <3>2. ShaTurn(p) = p
      BY <3>1, Zenon DEF ShaTurn
    <3>3. \E mm \in n .. l, v \in Nat :
             /\ mm >= n + i \/ mm = l
             /\ ShaHolds(p.state, D, mm, v) /\ p.state.total = s.total + k
             /\ p.rest = Piece(D, mm, l - mm)
      BY <2>1, <2>2, Zenon
    <3>. QED  BY <3>2, <3>3, Zenon
  <2>3. CASE m # l
    <3>1. m \in Nat /\ m < l /\ l - m \in Nat /\ l - m # 0
      BY <1>1, <2>3
    <3>2. p.rest # <<>>
      <4> DEFINE j == l - m
      <4>1. j \in Nat /\ j # 0 /\ m + j = l
        BY <1>1, <3>1
      <4> HIDE DEF j
      <4>2. m + j <= Len(D)
        BY <1>1, <4>1
      <4>3. Len(Piece(D, m, j)) = j
        BY <3>1, <4>1, <4>2, PieceIs
      <4>4. Len(p.rest) # 0
        BY <2>1, <4>1, <4>3 DEF j
      <4>. QED  BY <4>4
    <3>3. ShaTurn(p) = ShaTake(p.state, Piece(D, m, l - m))
      BY <2>1, <3>2, Zenon DEF ShaTurn
    <3>4. PICK mm \in m + 1 .. Len(D), v \in Nat :
             /\ ShaHolds(ShaTurn(p).state, D, mm, v) /\ ShaTurn(p).state.total = p.state.total
             /\ ShaTurn(p).rest = Piece(D, mm, Len(D) - mm)
      <4>1. m \in Nat /\ m < Len(D) /\ ShaHolds(p.state, D, m, u)
        BY <1>1, <2>1, <3>1
      <4>2. TurnTaken(ShaTake(p.state, Piece(D, m, Len(D) - m)), p.state.total, D, m + 1)
        BY <4>1, ShaTurns, Zenon
      <4>3. TurnTaken(ShaTurn(p), p.state.total, D, m + 1)
        BY <1>1, <3>3, <4>2
      <4>. QED  BY <4>3, Zenon DEF TurnTaken
    <3>5. mm \in n .. l /\ mm >= n + i
      BY <1>1, <2>1, <2>3, <3>1, <3>4
    <3>6. /\ ShaHolds(ShaTurn(p).state, D, mm, v) /\ ShaTurn(p).state.total = s.total + k
          /\ ShaTurn(p).rest = Piece(D, mm, l - mm)
      BY <1>1, <2>1, <3>4
    <3>. QED  BY <3>5, <3>6, Zenon
  <2>. QED  BY <2>2, <2>3
<1> HIDE DEF At, b
<1>7. ASSUME NEW T, T = {i \in 0 .. k : ~ At(f[i], i)}  PROVE T = {}
  <2>1. SUFFICES ASSUME T # {}  PROVE FALSE
    OBVIOUS
  <2>2. PICK i \in T : \A j \in T : i <= j
    <3>1. T \subseteq Nat
      BY <1>1, <1>7
    <3>. QED  BY <2>1, <3>1, LeastNatural
  <2>3. i \in 0 .. k /\ ~ At(f[i], i)
    BY <1>7
  <2>4. i # 0
    <3>1. 0 \in 0 .. k
      BY <1>1
    <3>. QED  BY <1>4, <1>5, <2>3, <3>1
  <2>5. i \in 1 .. k /\ i - 1 \in 0 .. k /\ ~ (i <= i - 1)
    BY <1>1, <2>3, <2>4
  <2>6. At(f[i - 1], i - 1)
    BY <1>7, <2>2, <2>5
  <2>7. f[i] = ShaTurn(f[i - 1])
    BY <1>4, <2>3, <2>4, Zenon
  <2>. QED  BY <1>6, <2>3, <2>5, <2>6, <2>7, Zenon
<1>8. At(f[k], k)
  <2>1. k \in 0 .. k
    BY <1>1
  <2>. QED  BY <1>7, <2>1
<1>9. PICK m \in n .. l, u \in Nat :
         /\ m >= n + k \/ m = l
         /\ ShaHolds(f[k].state, D, m, u) /\ f[k].state.total = s.total + k
  BY <1>8 DEF At
<1>10. m = l
  BY <1>1, <1>9
<1>. QED  BY <1>1, <1>3, <1>9, <1>10 DEF k
\* What s holds when d has been fed to it.
ShaState(s, d) == s.total = Len(d) /\ \E u \in Nat : ShaHolds(s, d, Len(d), u)

LEMMA ShaStarts == ShaState(ShaInit, <<>>)
<1>1. Len(<<>>) = 0 /\ 0 * ShaBlock = 0 /\ 0 - 0 * ShaBlock = 0
  BY ShaSize, Multiples
<1>2. /\ ShaInit.chain = <<>> /\ ShaInit.buf = <<>> /\ ShaInit.total = 0
      /\ ShaInit = [chain |-> <<>>, buf |-> <<>>, total |-> 0]
  BY DEF ShaInit
<1>3. Piece(<<>>, 0, 0) = <<>>
  BY DEF Piece
<1>4. [i \in 1 .. 0 |-> Piece(<<>>, (i - 1) * ShaBlock, ShaBlock)] = <<>>
  OBVIOUS
<1>5. 0 \in Nat /\ 0 <= 0 /\ 0 < ShaBlock
  BY ShaSize
<1>6. ShaHolds(ShaInit, <<>>, 0, 0)
  BY <1>1, <1>2, <1>3, <1>4, <1>5 DEF ShaHolds
<1>. QED  BY <1>1, <1>2, <1>5, <1>6 DEF ShaState

\* What was read of d is read of any D that starts with d.
LEMMA ShaStays ==
  ASSUME NEW S, NEW d \in Seq(S), NEW D, \A k \in 1 .. Len(d) : D[k] = d[k],
         NEW s, NEW q, ShaHolds(s, d, Len(d), q)
  PROVE  ShaHolds(s, D, Len(d), q)
<1> DEFINE l == Len(d)
           F(i) == Piece(d, (i - 1) * ShaBlock, ShaBlock)
           G(i) == Piece(D, (i - 1) * ShaBlock, ShaBlock)
           a == q * ShaBlock
<1>1. /\ l \in Nat /\ q \in Nat /\ a <= l /\ l - a < ShaBlock /\ ShaBlock \in Nat \ {0}
      /\ \A k \in 1 .. l : D[k] = d[k]
  BY ShaSize DEF ShaHolds
<1>2. s.buf = Piece(d, a, l - a) /\ s.chain = [i \in 1 .. q |-> F(i)]
  BY DEF ShaHolds
<1>3. ASSUME NEW b \in Nat, NEW n \in Nat, b + n <= l  PROVE Piece(d, b, n) = Piece(D, b, n)
  <2>1. ASSUME NEW k \in 1 .. n  PROVE d[b + k] = D[b + k]
    <3>1. b + k \in 1 .. l
      BY <1>1, <1>3
    <3>. QED  BY <1>1, <3>1
  <2>. QED  BY <2>1 DEF Piece
<1>4. a \in Nat
  BY <1>1, Multiples
<1>5. Piece(d, a, l - a) = Piece(D, a, l - a)
  <2> HIDE DEF a, l
  <2>1. l - a \in Nat /\ a + (l - a) <= l
    BY <1>1, <1>4
  <2>. QED  BY <1>3, <1>4, <2>1
<1>6. ASSUME NEW i \in 1 .. q  PROVE F(i) = G(i)
  <2> DEFINE b == (i - 1) * ShaBlock
  <2>1. b \in Nat /\ i * ShaBlock = b + ShaBlock
    BY <1>1, Before
  <2>2. i * ShaBlock <= a
    BY <1>1, Multiples
  <2> HIDE DEF a, b, l
  <2>3. b + ShaBlock <= l
    BY <1>1, <1>4, <2>1, <2>2
  <2>. QED  BY <1>1, <1>3, <2>1, <2>3 DEF b
<1> HIDE DEF F, G
<1>7. s.chain = [i \in 1 .. q |-> G(i)]
  BY <1>2, <1>6
<1>. QED  BY <1>2, <1>5, <1>7 DEF ShaHolds, G

LEMMA ShaAbsorbs ==
  ASSUME NEW S, NEW d \in Seq(S), NEW x \in Seq(S), NEW s, ShaState(s, d)
  PROVE  ShaState(ShaUpdate(s, x), d \o x)
<1> DEFINE D == d \o x
           n == Len(d)
<1>1. D \in Seq(S) /\ IsJoin(D, d, x)
  BY JoinIs, Zenon
<1> HIDE DEF D
<1>2. /\ Len(D) = n + Len(x) /\ (\A k \in 1 .. n : D[k] = d[k])
      /\ (\A k \in 1 .. Len(x) : D[n + k] = x[k])
  BY <1>1 DEF IsJoin
<1>3. n \in Nat /\ Len(x) \in Nat /\ n \in 0 .. Len(D) /\ Len(D) - n = Len(x)
  BY <1>2
<1>4. x = Piece(D, n, Len(D) - n)
  BY <1>2, <1>3 DEF Piece
<1>5. PICK q \in Nat : ShaHolds(s, d, n, q)
  BY DEF ShaState
<1>6. s.total = n
  BY DEF ShaState
<1>7. ShaHolds(s, D, n, q)
  BY <1>2, <1>5, ShaStays, Zenon
<1> HIDE DEF n
<1>8. /\ \E u \in Nat : ShaHolds(ShaUpdate(s, x), D, Len(D), u)
      /\ ShaUpdate(s, x).total = s.total + (Len(D) - n)
  <2>1. s.total \in Nat
    BY <1>3, <1>6
  <2>. QED  BY <1>1, <1>3, <1>4, <1>7, <2>1, ShaTakes, Zenon
<1>9. ShaUpdate(s, x).total = Len(D)
  BY <1>3, <1>6, <1>8, <1>2
<1>. QED  BY <1>8, <1>9 DEF ShaState, D

\* What the padding of sha256_final makes of a message: z zeros, and the length.
PaddingOf(n, z) == <<Byte(128)>> \o Zeros(z) \o Reverse(Digits(n, ShaLength))

Padded(d, z) == d \o PaddingOf(Len(d) * 8, z)

ChainOf(D, m) == [i \in 1 .. m |-> Piece(D, (i - 1) * ShaBlock, ShaBlock)]

IsPadded(D, d, z) ==
  /\ Len(D) = Len(d) + 1 + z + ShaLength
  /\ \A k \in 1 .. Len(d) : D[k] = d[k]
  /\ D[Len(d) + 1] = Byte(128)
  /\ \A k \in 1 .. z : D[Len(d) + 1 + k] = Byte(0)

LEMMA PaddingIs ==
  ASSUME NEW S, Bytes \subseteq S, NEW z \in Nat, NEW n \in Nat
  PROVE  /\ PaddingOf(n, z) \in Seq(S) /\ Len(PaddingOf(n, z)) = 1 + z + ShaLength
         /\ PaddingOf(n, z)[1] = Byte(128) /\ \A k \in 1 .. z : PaddingOf(n, z)[1 + k] = Byte(0)
<1> DEFINE o == <<Byte(128)>>
           zs == Zeros(z)
           g == Digits(n, ShaLength)
           r == Reverse(g)
           oz == o \o zs
           p == oz \o r
<1>1. ShaLength \in Nat
  BY ShaSize
<1>2. o \in Seq(Bytes) /\ Len(o) = 1 /\ o[1] = Byte(128)
  <2>1. Byte(128) \in Bytes
    BY ByteIs
  <2>. QED  BY <2>1
<1>3. zs \in Seq(Bytes) /\ Len(zs) = z /\ \A k \in 1 .. z : zs[k] = Byte(0)
  <2>1. zs \in Seq(Bytes) /\ Len(zs) = z
    BY ZerosAre
  <2>2. \A k \in 1 .. z : zs[k] = Byte(0)
    BY DEF Zeros
  <2>. QED  BY <2>1, <2>2
<1>4. g \in Seq(Bytes) /\ Len(g) = ShaLength
  BY <1>1, DigitsAre
<1> HIDE DEF g, zs, o
<1>5. r \in Seq(Bytes) /\ Len(r) = ShaLength
  <2>1. r = [i \in 1 .. ShaLength |-> g[ShaLength - i + 1]]
    BY <1>4, Zenon DEF Reverse
  <2>2. ASSUME NEW i \in 1 .. ShaLength  PROVE g[ShaLength - i + 1] \in Bytes
    <3>1. ShaLength - i + 1 \in 1 .. ShaLength
      BY <1>1
    <3>. QED  BY <1>4, <3>1
  <2>. QED  BY <1>1, <2>1, <2>2
<1> HIDE DEF r
<1>6. oz \in Seq(Bytes) /\ IsJoin(oz, o, zs)
  BY <1>2, <1>3, JoinIs, Zenon
<1> HIDE DEF oz
<1>7. p \in Seq(Bytes) /\ IsJoin(p, oz, r)
  BY <1>5, <1>6, JoinIs, Zenon
<1> HIDE DEF p
<1>8. Len(oz) = 1 + z /\ oz[1] = Byte(128) /\ \A k \in 1 .. z : oz[1 + k] = Byte(0)
  <2>1. /\ Len(oz) = Len(o) + Len(zs) /\ (\A k \in 1 .. Len(o) : oz[k] = o[k])
        /\ \A k \in 1 .. Len(zs) : oz[Len(o) + k] = zs[k]
    BY <1>6, Zenon DEF IsJoin
  <2>2. 1 \in 1 .. Len(o) /\ Len(o) + Len(zs) = 1 + z
    BY <1>2, <1>3
  <2>3. oz[1] = Byte(128)
    BY <1>2, <2>1, <2>2
  <2>4. \A k \in 1 .. z : oz[1 + k] = Byte(0)
    BY <1>2, <1>3, <2>1
  <2>. QED  BY <2>1, <2>2, <2>3, <2>4
<1>9. Len(p) = 1 + z + ShaLength /\ \A k \in 1 .. 1 + z : p[k] = oz[k]
  BY <1>5, <1>7, <1>8 DEF IsJoin
<1>10. p[1] = Byte(128) /\ \A k \in 1 .. z : p[1 + k] = Byte(0)
  <2>1. 1 \in 1 .. 1 + z /\ \A k \in 1 .. z : 1 + k \in 1 .. 1 + z
    OBVIOUS
  <2>. QED  BY <1>8, <1>9, <2>1
<1>11. p \in Seq(S)
  BY <1>7
<1>12. PaddingOf(n, z) = p
  BY Zenon DEF PaddingOf, p, oz, r, g, zs, o
<1>. QED  BY <1>9, <1>10, <1>11, <1>12

LEMMA PaddedIs ==
  ASSUME NEW S, Bytes \subseteq S, NEW d \in Seq(S), NEW z \in Nat
  PROVE  Padded(d, z) \in Seq(S) /\ IsPadded(Padded(d, z), d, z)
<1> DEFINE n == Len(d) * 8
           p == PaddingOf(n, z)
           D == d \o p
<1>1. n \in Nat /\ Len(d) \in Nat
  OBVIOUS
<1> HIDE DEF n
<1>2. /\ p \in Seq(S) /\ Len(p) = 1 + z + ShaLength /\ p[1] = Byte(128)
      /\ \A k \in 1 .. z : p[1 + k] = Byte(0)
  BY <1>1, PaddingIs, Zenon
<1>3. Padded(d, z) = D
  BY Zenon DEF Padded, n
<1> HIDE DEF p
<1>4. D \in Seq(S) /\ IsJoin(D, d, p)
  BY <1>2, JoinIs, Zenon
<1> HIDE DEF D
<1>5. /\ Len(D) = Len(d) + Len(p) /\ (\A k \in 1 .. Len(d) : D[k] = d[k])
      /\ (\A k \in 1 .. Len(p) : D[Len(d) + k] = p[k])
  BY <1>4 DEF IsJoin
<1>6. 1 \in 1 .. Len(p) /\ \A k \in 1 .. z : 1 + k \in 1 .. Len(p) /\ Len(d) + (1 + k) = Len(d) + 1 + k
  BY <1>1, <1>2, ShaSize
<1>7. Len(D) = Len(d) + 1 + z + ShaLength
  BY <1>1, <1>2, <1>5, ShaSize
<1>8. \A k \in 1 .. z : D[Len(d) + (1 + k)] = p[1 + k]
  BY <1>5, <1>6
<1>9. \A k \in 1 .. z : D[Len(d) + 1 + k] = Byte(0)
  BY <1>2, <1>6, <1>8
<1>. QED  BY <1>2, <1>3, <1>4, <1>5, <1>6, <1>7, <1>9 DEF IsPadded

\* sha256_final's own choice of zeros.
LEMMA ZerosFit ==
  ASSUME NEW S, NEW d \in Seq(S), NEW s, ShaState(s, d)
  PROVE  /\ ShaZeros(s) \in 0 .. ShaBlock - 1
         /\ \E m \in Nat : Len(d) + 1 + ShaZeros(s) + ShaLength = m * ShaBlock
<1> DEFINE n == Len(d)
           B == ShaBlock
           L == ShaLength
           z == ShaZeros(s)
<1>1. n \in Nat /\ B \in Nat \ {0} /\ L \in Nat \ {0} /\ L < B
  BY ShaSize
<1>2. PICK q \in Nat : ShaHolds(s, d, n, q)
  BY DEF ShaState
<1> DEFINE a == q * B
<1>3. a \in Nat /\ a <= n /\ n - a < B /\ s.buf = Piece(d, a, n - a) /\ (q + 1) * B = a + B /\ (q + 2) * B = a + B + B
  <2>1. a \in Nat /\ (q + 1) * B = a + 1 * B /\ 1 * B = B
    BY <1>1, Multiples
  <2>2. (q + 1 + 1) * B = (q + 1) * B + 1 * B
    BY <1>1, Multiples
  <2>3. q + 1 + 1 = q + 2
    OBVIOUS
  <2> HIDE DEF a
  <2>4. (q + 1) * B = a + B /\ (q + 2) * B = a + B + B
    BY <2>1, <2>2, <2>3
  <2>. QED  BY <1>2, <2>1, <2>4 DEF ShaHolds, a
<1>4. Len(s.buf) = n - a
  <2> DEFINE r == n - a
  <2> HIDE DEF a
  <2>1. r \in Nat /\ a + r <= n
    BY <1>1, <1>3
  <2> HIDE DEF r
  <2>2. Len(Piece(d, a, r)) = r
    BY <1>3, <2>1, PieceIs
  <2>. QED  BY <1>3, <2>2 DEF r
<1>5. z = (IF n - a < B - L THEN B ELSE 2 * B) - L - (n - a) - 1
  BY <1>4, Zenon DEF ShaZeros
<1> HIDE DEF a, n, z, B, L
<1>6. z \in 0 .. B - 1 /\ (n + 1 + z + L = a + B \/ n + 1 + z + L = a + B + B)
  <2>1. CASE n - a < B - L
    BY <1>1, <1>3, <1>5, <2>1
  <2>2. CASE ~ (n - a < B - L)
    BY <1>1, <1>3, <1>5, <2>2
  <2>. QED  BY <2>1, <2>2
<1>7. \E m \in Nat : n + 1 + z + L = m * B
  <2>1. q + 1 \in Nat /\ q + 2 \in Nat
    OBVIOUS
  <2>. QED  BY <1>3, <1>6, <2>1
<1>. QED  BY <1>6, <1>7 DEF n, z, B, L

\* sha256_final ends the message at the end of a block.
LEMMA ShaFinishes ==
  ASSUME NEW S, Bytes \subseteq S, NEW d \in Seq(S), NEW s, ShaState(s, d)
  PROVE  \E m \in Nat :
           /\ Len(Padded(d, ShaZeros(s))) = m * ShaBlock
           /\ ShaFinal(s) = ChainOf(Padded(d, ShaZeros(s)), m)
<1> DEFINE n == Len(d)
           z == ShaZeros(s)
           D == Padded(d, z)
           p == PaddingOf(n * 8, z)
           t == ShaUpdate(s, p)
<1>1. n \in Nat /\ s.total = n /\ z \in Nat
  BY ZerosFit, ShaSize DEF ShaState
<1>2. PICK m \in Nat : n + 1 + z + ShaLength = m * ShaBlock
  BY ZerosFit
<1> HIDE DEF z
<1>3. D \in Seq(S) /\ IsPadded(D, d, z)
  BY <1>1, PaddedIs, Zenon
<1>4. Len(D) = m * ShaBlock
  BY <1>2, <1>3 DEF IsPadded
<1>5. p \in Seq(S)
  <2> DEFINE k == n * 8
  <2>1. k \in Nat
    BY <1>1
  <2> HIDE DEF k
  <2>2. PaddingOf(k, z) \in Seq(S)
    BY <1>1, <2>1, PaddingIs, Zenon
  <2>. QED  BY <2>2 DEF k
<1>6. ShaState(t, d \o p)
  <2> HIDE DEF p
  <2>. QED  BY <1>5, ShaAbsorbs, Zenon
<1>7. d \o p = D
  BY Zenon DEF Padded
<1>8. ShaFinal(s) = t.chain
  <2>1. ShaFinal(s) = ShaUpdate(s, PaddingOf(s.total * 8, z)).chain
    BY Zenon DEF ShaFinal, PaddingOf, z
  <2>2. s.total * 8 = n * 8
    BY <1>1
  <2>3. PaddingOf(s.total * 8, z) = p
    BY <2>2, Zenon
  <2>. QED  BY <2>1, <2>3, Zenon
<1> HIDE DEF p, t, D
<1>9. PICK u \in Nat : ShaHolds(t, D, Len(D), u)
  BY <1>6, <1>7 DEF ShaState
<1>10. u * ShaBlock <= m * ShaBlock /\ m * ShaBlock - u * ShaBlock < ShaBlock
  BY <1>4, <1>9 DEF ShaHolds
<1>11. u = m
  BY <1>10, ShaSize, MultiplesFit
<1>12. t.chain = ChainOf(D, m)
  BY <1>9, <1>11, Zenon DEF ShaHolds, ChainOf
<1>. QED  BY <1>4, <1>8, <1>12 DEF D, z

LEMMA ChainOfAt ==
  ASSUME NEW d, NEW m \in Nat, NEW j \in Nat, j < m
  PROVE  ChainOf(d, m)[j + 1] = Piece(d, j * ShaBlock, ShaBlock)
<1>1. PICK i : i = j + 1
  OBVIOUS
<1>2. i \in 1 .. m /\ i - 1 = j
  BY <1>1
<1>3. ChainOf(d, m)[i] = Piece(d, (i - 1) * ShaBlock, ShaBlock)
  BY <1>2, Zenon DEF ChainOf
<1>. QED  BY <1>1, <1>2, <1>3, Zenon

LEMMA ChainTells ==
  ASSUME NEW S, NEW d \in Seq(S), NEW e \in Seq(S), NEW m \in Nat, NEW n \in Nat,
         Len(d) = m * ShaBlock, Len(e) = n * ShaBlock, ChainOf(d, m) = ChainOf(e, n)
  PROVE  d = e
<1>1. m = n
  <2>1. 1 .. m = 1 .. n
    <3>1. DOMAIN ChainOf(d, m) = 1 .. m /\ DOMAIN ChainOf(e, n) = 1 .. n
      BY DEF ChainOf
    <3>. QED  BY <3>1
  <2>. QED  BY <2>1
<1>2. ASSUME NEW p \in 1 .. Len(d)  PROVE d[p] = e[p]
  <2> DEFINE j == (p - 1) \div ShaBlock
             k == (p - 1) % ShaBlock
  <2>1. p - 1 \in Nat /\ p \in Nat \ {0} /\ p <= m * ShaBlock
    OBVIOUS
  <2>2. j \in Nat /\ k \in 0 .. ShaBlock - 1 /\ p - 1 = j * ShaBlock + k
    BY <2>1, ShaSize, Quotient
  <2> HIDE DEF j, k
  <2>3. j < m
    <3>1. SUFFICES ASSUME m <= j  PROVE FALSE
      BY <2>2
    <3>2. m * ShaBlock <= j * ShaBlock
      BY <2>2, <3>1, ShaSize, Multiples
    <3> DEFINE x == m * ShaBlock
               y == j * ShaBlock
    <3>3. x \in Nat /\ y \in Nat
      BY <2>2, ShaSize, Multiples
    <3>4. x <= y /\ p - 1 = y + k /\ p <= x
      BY <2>1, <2>2, <3>2
    <3> HIDE DEF x, y
    <3>. QED  BY <2>1, <2>2, <3>3, <3>4, ShaSize
  <2> DEFINE a == j * ShaBlock
  <2>4. k + 1 \in 1 .. ShaBlock /\ a + (k + 1) = p
    <3>1. a \in Nat /\ p - 1 = a + k
      BY <2>2, ShaSize, Multiples
    <3> HIDE DEF a
    <3>. QED  BY <2>1, <2>2, <3>1, ShaSize
  <2>5. Piece(d, a, ShaBlock) = Piece(e, a, ShaBlock)
    <3>1. ChainOf(d, m)[j + 1] = Piece(d, a, ShaBlock) /\ ChainOf(e, n)[j + 1] = Piece(e, a, ShaBlock)
      BY <1>1, <2>2, <2>3, ChainOfAt, Zenon
    <3>. QED  BY <3>1
  <2> HIDE DEF a
  <2>6. d[a + (k + 1)] = e[a + (k + 1)]
    BY <2>4, <2>5 DEF Piece
  <2>. QED  BY <2>4, <2>6
<1>3. Len(d) = Len(e)
  BY <1>1
<1>. QED  BY <1>2, <1>3

LEMMA PaddingTells ==
  ASSUME NEW S, NEW d \in Seq(S), NEW e \in Seq(S), NEW z \in Nat, NEW y \in Nat, NEW D,
         IsPadded(D, d, z), IsPadded(D, e, y)
  PROVE  ~ (Len(d) < Len(e))
<1> DEFINE l == Len(d)
           m == Len(e)
<1>1. /\ l \in Nat /\ m \in Nat /\ Len(D) = l + 1 + z + ShaLength /\ Len(D) = m + 1 + y + ShaLength
      /\ ShaLength \in Nat /\ D[m + 1] = Byte(128) /\ \A k \in 1 .. z : D[l + 1 + k] = Byte(0)
  <2>1. Len(D) = l + 1 + z + ShaLength /\ \A k \in 1 .. z : D[l + 1 + k] = Byte(0)
    BY Zenon DEF IsPadded
  <2>2. Len(D) = m + 1 + y + ShaLength /\ D[m + 1] = Byte(128)
    BY Zenon DEF IsPadded
  <2>3. l \in Nat /\ m \in Nat /\ ShaLength \in Nat
    BY ShaSize
  <2>. QED  BY <2>1, <2>2, <2>3, Zenon
<1> HIDE DEF l, m
<1>2. SUFFICES ASSUME l < m  PROVE FALSE
  BY DEF l, m
<1>3. m - l \in 1 .. z /\ l + 1 + (m - l) = m + 1
  BY <1>1, <1>2
<1>4. D[l + 1 + (m - l)] = Byte(0)
  BY <1>1, <1>3
<1>5. Byte(128) = Byte(0)
  BY <1>1, <1>3, <1>4
<1>6. Byte(128).value = 128 /\ Byte(0).value = 0
  BY DEF Byte
<1>. QED  BY <1>5, <1>6

\* SHA-256 tells every message from every other.
LEMMA ShaTells ==
  ASSUME NEW S, Bytes \subseteq S, NEW d \in Seq(S), NEW e \in Seq(S), NEW s, ShaState(s, d),
         NEW t, ShaState(t, e), ShaFinal(s) = ShaFinal(t)
  PROVE  d = e
<1> DEFINE z == ShaZeros(s)
           y == ShaZeros(t)
<1>0. z \in Nat /\ y \in Nat
  BY ZerosFit
<1>1. PICK m \in Nat : Len(Padded(d, z)) = m * ShaBlock /\ ShaFinal(s) = ChainOf(Padded(d, z), m)
  BY ShaFinishes
<1>2. PICK n \in Nat : Len(Padded(e, y)) = n * ShaBlock /\ ShaFinal(t) = ChainOf(Padded(e, y), n)
  BY ShaFinishes
<1> HIDE DEF z, y
<1>3. Padded(d, z) \in Seq(S) /\ IsPadded(Padded(d, z), d, z) /\ Padded(e, y) \in Seq(S) /\ IsPadded(Padded(e, y), e, y)
  BY <1>0, PaddedIs
<1>4. Padded(d, z) = Padded(e, y)
  BY <1>1, <1>2, <1>3, ChainTells, Zenon
<1>5. ~ (Len(d) < Len(e)) /\ ~ (Len(e) < Len(d))
  BY <1>0, <1>3, <1>4, PaddingTells, Zenon
<1>6. Len(d) = Len(e)
  BY <1>5
<1>7. (\A k \in 1 .. Len(d) : Padded(d, z)[k] = d[k]) /\ (\A k \in 1 .. Len(e) : Padded(e, y)[k] = e[k])
  BY <1>3 DEF IsPadded
<1>8. \A k \in 1 .. Len(d) : d[k] = e[k]
  BY <1>4, <1>6, <1>7
<1>. QED  BY <1>6, <1>8
-----------------------------------------------------------------------------
(* Keys. What HMAC and HKDF make of their input tells it. *)

LEMMA HashSize == HashLength \in Nat \ {0} /\ MaxInfo \in Nat /\ ShaBlock = 2 * HashLength
BY KeyScheduleAssumption

PartByte(w, i) == [of |-> w, index |-> i, masks |-> {}]

\* A byte that no constant was combined with.
IsClean(b) == (\E v : b = Byte(v)) \/ (\E w, i : b = PartByte(w, i))

AllClean(S) == \A b \in S : IsClean(b)

XorByte(b, c) == [b EXCEPT !.masks = (@ \ {c}) \cup ({c} \ @)]

LEMMA XorIs ==
  ASSUME NEW d, NEW c
  PROVE  Xor(d, c) = [i \in 1 .. Len(d) |-> XorByte(d[i], c)]
BY Zenon DEF Xor, XorByte

LEMMA XorOfByte ==
  ASSUME NEW v, NEW c
  PROVE  XorByte(Byte(v), c) = [value |-> v, masks |-> {c}]
<1>1. ({} \ {c}) \cup ({c} \ {}) = {c}
  OBVIOUS
<1>2. Byte(v).masks = {}
  BY DEF Byte
<1>3. XorByte(Byte(v), c) = [Byte(v) EXCEPT !.masks = {c}]
  BY <1>1, <1>2, Zenon DEF XorByte
<1>. QED  BY <1>3 DEF Byte

LEMMA XorOfPart ==
  ASSUME NEW w, NEW i, NEW c
  PROVE  XorByte(PartByte(w, i), c) = [of |-> w, index |-> i, masks |-> {c}]
<1>1. ({} \ {c}) \cup ({c} \ {}) = {c}
  OBVIOUS
<1>2. PartByte(w, i).masks = {}
  BY DEF PartByte
<1>3. XorByte(PartByte(w, i), c) = [PartByte(w, i) EXCEPT !.masks = {c}]
  BY <1>1, <1>2, Zenon DEF XorByte
<1>. QED  BY <1>3 DEF PartByte

LEMMA XorByteTells ==
  ASSUME NEW a, NEW b, NEW c, IsClean(a), IsClean(b), XorByte(a, c) = XorByte(b, c)
  PROVE  a = b
<1>1. CASE \E v, u : a = Byte(v) /\ b = Byte(u)
  <2>1. PICK v, u : a = Byte(v) /\ b = Byte(u)
    BY <1>1
  <2>2. [value |-> v, masks |-> {c}] = [value |-> u, masks |-> {c}]
    BY <2>1, XorOfByte
  <2>3. v = u
    BY <2>2
  <2>. QED  BY <2>1, <2>3
<1>2. CASE \E v, w, i : a = Byte(v) /\ b = PartByte(w, i)
  <2>1. PICK v, w, i : a = Byte(v) /\ b = PartByte(w, i)
    BY <1>2
  <2>2. [value |-> v, masks |-> {c}] = [of |-> w, index |-> i, masks |-> {c}]
    BY <2>1, XorOfByte, XorOfPart
  <2>3. DOMAIN [value |-> v, masks |-> {c}] = {"value", "masks"} /\ DOMAIN [of |-> w, index |-> i, masks |-> {c}] = {"of", "index", "masks"}
    OBVIOUS
  <2>. QED  BY <2>2, <2>3
<1>3. CASE \E v, w, i : b = Byte(v) /\ a = PartByte(w, i)
  <2>1. PICK v, w, i : b = Byte(v) /\ a = PartByte(w, i)
    BY <1>3
  <2>2. [value |-> v, masks |-> {c}] = [of |-> w, index |-> i, masks |-> {c}]
    BY <2>1, XorOfByte, XorOfPart
  <2>3. DOMAIN [value |-> v, masks |-> {c}] = {"value", "masks"} /\ DOMAIN [of |-> w, index |-> i, masks |-> {c}] = {"of", "index", "masks"}
    OBVIOUS
  <2>. QED  BY <2>2, <2>3
<1>4. CASE \E w, i, x, j : a = PartByte(w, i) /\ b = PartByte(x, j)
  <2>1. PICK w, i, x, j : a = PartByte(w, i) /\ b = PartByte(x, j)
    BY <1>4
  <2>2. [of |-> w, index |-> i, masks |-> {c}] = [of |-> x, index |-> j, masks |-> {c}]
    BY <2>1, XorOfPart
  <2>3. w = x /\ i = j
    BY <2>2
  <2>. QED  BY <2>1, <2>3
<1>. QED  BY <1>1, <1>2, <1>3, <1>4, Zenon DEF IsClean

LEMMA XorTells ==
  ASSUME NEW S, AllClean(S), NEW k \in Seq(S), NEW l \in Seq(S), NEW c,
         Xor(k, c) = Xor(l, c)
  PROVE  k = l
<1> DEFINE f == Xor(k, c)
           g == Xor(l, c)
<1>1. f = [i \in 1 .. Len(k) |-> XorByte(k[i], c)] /\ g = [i \in 1 .. Len(l) |-> XorByte(l[i], c)]
  BY XorIs
<1>2. f = g
  OBVIOUS
<1> HIDE DEF f, g
<1>3. DOMAIN f = 1 .. Len(k) /\ DOMAIN g = 1 .. Len(l)
  BY <1>1
<1>4. Len(k) = Len(l)
  BY <1>2, <1>3
<1>5. ASSUME NEW i \in 1 .. Len(k)  PROVE k[i] = l[i]
  <2>1. f[i] = XorByte(k[i], c) /\ g[i] = XorByte(l[i], c)
    BY <1>1, <1>4
  <2>2. IsClean(k[i]) /\ IsClean(l[i])
    BY <1>4 DEF AllClean
  <2>. QED  BY <1>2, <2>1, <2>2, XorByteTells
<1>. QED  BY <1>4, <1>5

LEMMA PartIs ==
  ASSUME NEW w, NEW n \in Nat
  PROVE  /\ Part(w, n) \in Seq({PartByte(w, i) : i \in Nat}) /\ Len(Part(w, n)) = n
         /\ \A i \in 1 .. n : Part(w, n)[i] = PartByte(w, i)
<1>1. Part(w, n) = [i \in 1 .. n |-> PartByte(w, i)]
  BY Zenon DEF Part, PartByte
<1>. QED  BY <1>1

LEMMA PartTells ==
  ASSUME NEW w, NEW x, NEW n \in Nat \ {0}, Part(w, n) = Part(x, n)
  PROVE  w = x
<1>1. Part(w, n)[1] = PartByte(w, 1) /\ Part(x, n)[1] = PartByte(x, 1)
  <2>1. 1 \in 1 .. n
    OBVIOUS
  <2>. QED  BY <2>1, PartIs
<1>2. PartByte(w, 1).of = w /\ PartByte(x, 1).of = x
  BY DEF PartByte
<1>. QED  BY <1>1, <1>2

LEMMA CleanIs == (\A v : IsClean(Byte(v))) /\ \A w, i : IsClean(PartByte(w, i))
BY Zenon DEF IsClean

SamePrefixes(a, s, b, t) == a \o s = b \o t /\ Len(a) = Len(b)

LEMMA CancelFirst ==
  ASSUME NEW S, NEW a \in Seq(S), NEW b \in Seq(S), NEW s \in Seq(S), NEW t \in Seq(S),
         SamePrefixes(a, s, b, t)
  PROVE  a = b /\ s = t
<1>1. a \o s = b \o t /\ Len(a) = Len(b)
  BY DEF SamePrefixes
<1> DEFINE j == a \o s
           k == b \o t
<1>2. j = k /\ IsJoin(j, a, s) /\ IsJoin(k, b, t)
  BY <1>1, JoinIs, Zenon
<1> HIDE DEF j, k
<1>3. Len(s) = Len(t)
  BY <1>1, <1>2 DEF IsJoin
<1>4. SameJoins(a, s, b, t)
  BY <1>1, <1>3 DEF SameJoins
<1>. QED  BY <1>4, Cancel, Zenon

KeyedHash(k, pad, data) == ShaFinal(ShaUpdate(ShaUpdate(ShaInit, Xor(k, pad)), data))

SameHashes(k, l, c, d, e) == Len(k) = Len(l) /\ KeyedHash(k, c, d) = KeyedHash(l, c, e)

LEMMA ListsAreSequences ==
  ASSUME NEW V, NEW n \in Nat, NEW s, s = [i \in 1 .. n |-> s[i]], \A i \in 1 .. n : s[i] \in V
  PROVE  s \in Seq(V) /\ Len(s) = n
OBVIOUS

LEMMA KeyedTells ==
  ASSUME NEW S, AllClean(S), NEW k \in Seq(S), NEW l \in Seq(S), NEW c,
         NEW d \in Seq(S), NEW e \in Seq(S), SameHashes(k, l, c, d, e)
  PROVE  k = l /\ d = e
<1>0. Len(k) = Len(l) /\ KeyedHash(k, c, d) = KeyedHash(l, c, e)
  BY DEF SameHashes
<1> DEFINE U == S \cup Bytes \cup {XorByte(b, c) : b \in S}
           x == Xor(k, c)
           y == Xor(l, c)
<1>1. /\ x = [i \in 1 .. Len(k) |-> XorByte(k[i], c)]
      /\ y = [i \in 1 .. Len(l) |-> XorByte(l[i], c)]
  BY XorIs
<1>2. Bytes \subseteq U /\ d \in Seq(U) /\ e \in Seq(U)
  OBVIOUS
<1>3. (\A i \in 1 .. Len(k) : XorByte(k[i], c) \in U) /\ (\A i \in 1 .. Len(l) : XorByte(l[i], c) \in U)
  OBVIOUS
<1> HIDE DEF U, x, y
<1>4. x \in Seq(U) /\ Len(x) = Len(k) /\ y \in Seq(U) /\ Len(y) = Len(l)
  <2>1. Len(k) \in Nat /\ x = [i \in 1 .. Len(k) |-> x[i]] /\ \A i \in 1 .. Len(k) : x[i] \in U
    BY <1>1, <1>3
  <2>2. Len(l) \in Nat /\ y = [i \in 1 .. Len(l) |-> y[i]] /\ \A i \in 1 .. Len(l) : y[i] \in U
    BY <1>1, <1>3
  <2>. QED  BY <2>1, <2>2, ListsAreSequences, Zenon
<1>5. <<>> \in Seq(U) /\ <<>> \o x = x /\ <<>> \o y = y
  BY <1>4
<1>6. ShaState(ShaUpdate(ShaInit, x), x) /\ ShaState(ShaUpdate(ShaInit, y), y)
  <2>1. ShaState(ShaUpdate(ShaInit, x), <<>> \o x) /\ ShaState(ShaUpdate(ShaInit, y), <<>> \o y)
    BY <1>4, <1>5, ShaStarts, ShaAbsorbs, Zenon
  <2>. QED  BY <1>5, <2>1
<1> DEFINE s == ShaUpdate(ShaUpdate(ShaInit, x), d)
           t == ShaUpdate(ShaUpdate(ShaInit, y), e)
<1>7. ShaState(s, x \o d) /\ ShaState(t, y \o e)
  BY <1>2, <1>4, <1>6, ShaAbsorbs, Zenon
<1>8. ShaFinal(s) = ShaFinal(t)
  BY <1>0, Zenon DEF KeyedHash, x, y
<1>9. x \o d \in Seq(U) /\ y \o e \in Seq(U)
  BY <1>2, <1>4, JoinIs, Zenon
<1> HIDE DEF s, t
<1>10. x \o d = y \o e
  <2> DEFINE m == x \o d
             n == y \o e
  <2>1. m \in Seq(U) /\ n \in Seq(U) /\ ShaState(s, m) /\ ShaState(t, n)
    BY <1>7, <1>9
  <2> HIDE DEF m, n
  <2>2. m = n
    BY <1>2, <1>8, <2>1, ShaTells, Zenon
  <2>. QED  BY <2>2 DEF m, n
<1>11. SamePrefixes(x, d, y, e)
  BY <1>0, <1>4, <1>10, Zenon DEF SamePrefixes
<1>12. x = y /\ d = e
  BY <1>2, <1>4, <1>11, CancelFirst, Zenon
<1>13. k = l
  BY <1>12, XorTells, Zenon DEF x, y
<1>. QED  BY <1>12, <1>13

KeyBlock(secret) == secret \o Zeros(ShaBlock - Len(secret))

InnerHash(secret, msg) == [sha |-> KeyedHash(KeyBlock(secret), "0x36", msg)]

OuterHash(secret, msg) == [sha |-> KeyedHash(KeyBlock(secret), "0x5c", Part(InnerHash(secret, msg), HashLength))]

LEMMA HmacIs ==
  ASSUME NEW secret, NEW msg, Len(secret) \in 0 .. ShaBlock
  PROVE  HmacSha256(secret, msg) = Part(OuterHash(secret, msg), HashLength)
<1>1. ~ (Len(secret) > ShaBlock)
  BY HashSize
<1>. QED  BY <1>1, Zenon DEF HmacSha256, OuterHash, InnerHash, KeyedHash, KeyBlock

LEMMA KeyBlockIs ==
  ASSUME NEW S, Byte(0) \in S, NEW k \in Seq(S), Len(k) <= ShaBlock
  PROVE  /\ KeyBlock(k) \in Seq(S) /\ Len(KeyBlock(k)) = ShaBlock
         /\ \A i \in 1 .. Len(k) : KeyBlock(k)[i] = k[i]
<1> DEFINE n == ShaBlock - Len(k)
           z == Zeros(n)
           b == k \o z
<1>1. n \in Nat /\ ShaBlock \in Nat /\ Len(k) \in Nat /\ Len(k) + n = ShaBlock
  BY ShaSize
<1> HIDE DEF n
<1>2. z \in Seq(S) /\ Len(z) = n
  <2>1. z = [i \in 1 .. n |-> Byte(0)]
    BY DEF Zeros
  <2>. QED  BY <1>1, <2>1
<1> HIDE DEF z
<1>3. b \in Seq(S) /\ IsJoin(b, k, z)
  BY <1>2, JoinIs, Zenon
<1> HIDE DEF b
<1>4. Len(b) = ShaBlock /\ \A i \in 1 .. Len(k) : b[i] = k[i]
  BY <1>1, <1>2, <1>3 DEF IsJoin
<1>5. KeyBlock(k) = b
  BY Zenon DEF KeyBlock, b, z, n
<1>. QED  BY <1>3, <1>4, <1>5

\* HMAC tells keys of one length, and messages.
LEMMA HmacTells ==
  ASSUME NEW S, AllClean(S), NEW k \in Seq(S), NEW l \in Seq(S), Len(k) = Len(l),
         Len(k) <= ShaBlock, NEW d \in Seq(S), NEW e \in Seq(S), HmacSha256(k, d) = HmacSha256(l, e)
  PROVE  k = l /\ d = e
<1> DEFINE v == InnerHash(k, d)
           w == InnerHash(l, e)
           p == Part(v, HashLength)
           r == Part(w, HashLength)
           U == S \cup {Byte(0)} \cup {PartByte(v, i) : i \in Nat} \cup {PartByte(w, i) : i \in Nat}
           x == KeyBlock(k)
           y == KeyBlock(l)
<1>1. HashLength \in Nat \ {0} /\ HashLength \in Nat /\ ShaBlock \in Nat
  BY HashSize, ShaSize
<1>2. HmacSha256(k, d) = Part(OuterHash(k, d), HashLength) /\ HmacSha256(l, e) = Part(OuterHash(l, e), HashLength)
  <2>1. Len(k) \in 0 .. ShaBlock /\ Len(l) \in 0 .. ShaBlock
    BY <1>1
  <2>. QED  BY <2>1, HmacIs
<1>3. OuterHash(k, d) = OuterHash(l, e)
  BY <1>1, <1>2, PartTells, Zenon
<1>4. KeyedHash(x, "0x5c", p) = KeyedHash(y, "0x5c", r)
  <2> DEFINE f == KeyedHash(x, "0x5c", p)
             g == KeyedHash(y, "0x5c", r)
  <2>1. [sha |-> f] = [sha |-> g]
    BY <1>3, Zenon DEF OuterHash
  <2> HIDE DEF f, g
  <2>2. [sha |-> f].sha = [sha |-> g].sha
    BY <2>1, Zenon
  <2>3. f = g
    BY <2>2
  <2>. QED  BY <2>3 DEF f, g
<1>5. p \in Seq({PartByte(v, i) : i \in Nat}) /\ r \in Seq({PartByte(w, i) : i \in Nat})
  BY <1>1, PartIs, Zenon
<1>6. ASSUME NEW b \in U  PROVE IsClean(b)
  <2>1. CASE b \in S
    BY <2>1 DEF AllClean
  <2>2. CASE b = Byte(0)
    BY <2>2, CleanIs
  <2>3. CASE \E i : b = PartByte(v, i) \/ b = PartByte(w, i)
    <3> HIDE DEF v, w
    <3>. QED  BY <2>3, CleanIs
  <2>. QED  BY <2>1, <2>2, <2>3
<1>7. S \subseteq U /\ Byte(0) \in U /\ {PartByte(v, i) : i \in Nat} \subseteq U /\ {PartByte(w, i) : i \in Nat} \subseteq U
  OBVIOUS
<1> HIDE DEF U, p, r, v, w
<1>8. k \in Seq(U) /\ l \in Seq(U) /\ d \in Seq(U) /\ e \in Seq(U) /\ p \in Seq(U) /\ r \in Seq(U)
  BY <1>5, <1>7
<1>9. /\ x \in Seq(U) /\ Len(x) = ShaBlock /\ y \in Seq(U) /\ Len(y) = ShaBlock
      /\ (\A i \in 1 .. Len(k) : x[i] = k[i]) /\ (\A i \in 1 .. Len(l) : y[i] = l[i])
  BY <1>7, <1>8, KeyBlockIs
<1> HIDE DEF x, y
<1>10. Len(x) = Len(y) /\ AllClean(U)
  BY <1>6, <1>9 DEF AllClean
<1>11. x = y /\ p = r
  <2>1. SameHashes(x, y, "0x5c", p, r)
    BY <1>4, <1>10, Zenon DEF SameHashes
  <2>. QED  BY <1>8, <1>9, <1>10, <2>1, KeyedTells, Zenon
<1>12. k = l
  <2>1. Len(k) = Len(l) /\ \A i \in 1 .. Len(k) : k[i] = l[i]
    BY <1>9, <1>11
  <2>. QED  BY <2>1
<1>13. v = w
  BY <1>1, <1>11, PartTells, Zenon DEF p, r
<1>14. KeyedHash(x, "0x36", d) = KeyedHash(y, "0x36", e)
  <2> DEFINE f == KeyedHash(x, "0x36", d)
             g == KeyedHash(y, "0x36", e)
  <2>1. [sha |-> f] = [sha |-> g]
    BY <1>13, Zenon DEF InnerHash, v, w, x, y
  <2> HIDE DEF f, g
  <2>2. [sha |-> f].sha = [sha |-> g].sha
    BY <2>1, Zenon
  <2>3. f = g
    BY <2>2
  <2>. QED  BY <2>3 DEF f, g
<1>15. d = e
  <2>1. SameHashes(x, y, "0x36", d, e)
    BY <1>10, <1>14, Zenon DEF SameHashes
  <2>. QED  BY <1>8, <1>9, <1>10, <2>1, KeyedTells, Zenon
<1>. QED  BY <1>12, <1>15

\* The first places of a join.
LEMMA StartOfJoin ==
  ASSUME NEW S, NEW a \in Seq(S), NEW b \in Seq(S), NEW n \in 0 .. Len(a)
  PROVE  SubSeq(a \o b, 1, n) = SubSeq(a, 1, n)
<1> DEFINE j == a \o b
<1>1. j \in Seq(S) /\ IsJoin(j, a, b)
  BY JoinIs, Zenon
<1> HIDE DEF j
<1>2. Len(j) = Len(a) + Len(b) /\ \A i \in 1 .. Len(a) : j[i] = a[i]
  BY <1>1 DEF IsJoin
<1>3. n \in 0 .. Len(j) /\ n \in Nat
  BY <1>2
<1>4. /\ SubSeq(j, 1, n) \in Seq(S) /\ Len(SubSeq(j, 1, n)) = n
      /\ \A k \in 1 .. n : SubSeq(j, 1, n)[k] = j[k]
  BY <1>1, <1>3, FirstOf
<1>5. /\ SubSeq(a, 1, n) \in Seq(S) /\ Len(SubSeq(a, 1, n)) = n
      /\ \A k \in 1 .. n : SubSeq(a, 1, n)[k] = a[k]
  BY FirstOf
<1> DEFINE f == SubSeq(j, 1, n)
           g == SubSeq(a, 1, n)
<1> HIDE DEF f, g
<1>6. f \in Seq(S) /\ Len(f) = n /\ g \in Seq(S) /\ Len(g) = n /\ \A k \in 1 .. n : f[k] = g[k]
  <2>1. \A k \in 1 .. n : j[k] = a[k]
    BY <1>2
  <2>. QED  BY <1>4, <1>5, <2>1 DEF f, g
<1>7. f = g
  BY <1>6
<1>. QED  BY <1>7 DEF f, g, j

LEMMA StartOfSecond ==
  ASSUME NEW S, NEW a \in Seq(S), NEW b \in Seq(S), NEW n \in 0 .. Len(b)
  PROVE  SubSeq(a \o b, 1, Len(a) + n) = a \o SubSeq(b, 1, n)
<1> DEFINE j == a \o b
           c == SubSeq(b, 1, n)
           m == Len(a) + n
           f == SubSeq(j, 1, m)
           g == a \o c
<1>1. j \in Seq(S) /\ IsJoin(j, a, b)
  BY JoinIs, Zenon
<1>2. c \in Seq(S) /\ Len(c) = n /\ \A k \in 1 .. n : c[k] = b[k]
  BY FirstOf
<1> HIDE DEF j, c
<1>3. g \in Seq(S) /\ IsJoin(g, a, c)
  BY <1>2, JoinIs, Zenon
<1> HIDE DEF g
<1>4. /\ Len(j) = Len(a) + Len(b) /\ (\A i \in 1 .. Len(a) : j[i] = a[i])
      /\ \A i \in 1 .. Len(b) : j[Len(a) + i] = b[i]
  BY <1>1 DEF IsJoin
<1>5. /\ Len(g) = m /\ (\A i \in 1 .. Len(a) : g[i] = a[i]) /\ \A i \in 1 .. n : g[Len(a) + i] = c[i]
  BY <1>2, <1>3 DEF IsJoin
<1>6. m \in 0 .. Len(j) /\ m \in Nat
  BY <1>4
<1> HIDE DEF m
<1>7. f \in Seq(S) /\ Len(f) = m /\ \A k \in 1 .. m : f[k] = j[k]
  BY <1>1, <1>6, FirstOf
<1> HIDE DEF f
<1>8. ASSUME NEW k \in 1 .. m  PROVE f[k] = g[k]
  <2>1. CASE k <= Len(a)
    BY <1>4, <1>5, <1>7, <2>1
  <2>2. CASE ~ (k <= Len(a))
    <3>1. k - Len(a) \in 1 .. n /\ k - Len(a) \in 1 .. Len(b) /\ Len(a) + (k - Len(a)) = k
      BY <2>2 DEF m
    <3>2. j[k] = b[k - Len(a)] /\ g[k] = c[k - Len(a)]
      BY <1>4, <1>5, <3>1
    <3>. QED  BY <1>2, <1>7, <3>1, <3>2
  <2>. QED  BY <2>1, <2>2
<1>9. f = g
  BY <1>3, <1>5, <1>7, <1>8
<1>. QED  BY <1>9 DEF f, g, j, c, m

LEMMA WholeIs ==
  ASSUME NEW S, NEW a \in Seq(S)
  PROVE  SubSeq(a, 1, Len(a)) = a
OBVIOUS

(* HKDF *)

AtFirst == [t |-> <<>>, okm |-> <<>>]

ExpandRun(f, prk, info, length, n) ==
  f = [counter \in 0 .. n |->
         IF counter = 0 THEN AtFirst ELSE NextBlock(prk, info, length, f[counter - 1], counter)]

\* What is asked for can be had, in n rounds.
HasRounds(info, length, n) ==
  /\ ~ (length > 255 * HashLength \/ Len(info) > MaxInfo)
  /\ n = (length + HashLength - 1) \div HashLength

LEMMA ExpandRuns ==
  ASSUME NEW prk, NEW info, NEW length, NEW n \in 0 .. 2, HasRounds(info, length, n)
  PROVE  \E f : ExpandRun(f, prk, info, length, n) /\ Expand(prk, info, length) = f[n].okm
<1> DEFINE b1 == NextBlock(prk, info, length, AtFirst, 1)
           b2 == NextBlock(prk, info, length, b1, 2)
           h == [counter \in 0 .. n |-> IF counter = 0 THEN AtFirst ELSE IF counter = 1 THEN b1 ELSE b2]
           g == CHOOSE f : f = [counter \in 0 .. n |->
                  IF counter = 0 THEN AtFirst ELSE NextBlock(prk, info, length, f[counter - 1], counter)]
<1> HIDE DEF b1, b2
<1>1. ASSUME NEW i \in 0 .. n
      PROVE  h[i] = IF i = 0 THEN AtFirst ELSE NextBlock(prk, info, length, h[i - 1], i)
  <2>1. CASE i = 0
    BY <2>1
  <2>2. CASE i = 1
    <3>1. 0 \in 0 .. n /\ i - 1 = 0
      BY <2>2
    <3>2. h[i - 1] = AtFirst /\ h[i] = b1
      BY <2>2, <3>1
    <3>. QED  BY <2>2, <3>2 DEF b1
  <2>3. CASE i = 2
    <3>1. 1 \in 0 .. n /\ i - 1 = 1
      BY <2>3
    <3>2. h[i - 1] = b1 /\ h[i] = b2
      BY <2>3, <3>1
    <3>. QED  BY <2>3, <3>2 DEF b2
  <2>. QED  BY <2>1, <2>2, <2>3
<1> HIDE DEF h
<1>2. h = [i \in 0 .. n |-> h[i]]
  BY DEF h
<1>3. h = [counter \in 0 .. n |->
             IF counter = 0 THEN AtFirst ELSE NextBlock(prk, info, length, h[counter - 1], counter)]
  BY <1>1, <1>2
<1>4. g = [counter \in 0 .. n |->
             IF counter = 0 THEN AtFirst ELSE NextBlock(prk, info, length, g[counter - 1], counter)]
  BY <1>3, Zenon
<1>5. Expand(prk, info, length) = g[n].okm
  BY Zenon DEF Expand, AtFirst, HasRounds
<1> HIDE DEF g
<1>6. ExpandRun(g, prk, info, length, n)
  BY <1>4, Zenon DEF ExpandRun
<1>. QED  BY <1>5, <1>6

FirstBlock(prk, info) == HmacSha256(prk, info \o <<Byte(1)>>)

SecondBlock(prk, info) == HmacSha256(prk, FirstBlock(prk, info) \o info \o <<Byte(2)>>)

LEMMA HmacIsWhole ==
  ASSUME NEW secret, NEW msg, Len(secret) \in 0 .. ShaBlock
  PROVE  \E w : HmacSha256(secret, msg) = Part(w, HashLength)
BY HmacIs, Zenon

LEMMA RoundsAre ==
  /\ (0 + HashLength - 1) \div HashLength = 0
  /\ (1 + HashLength - 1) \div HashLength = 1
  /\ (HashLength + HashLength - 1) \div HashLength = 1
  /\ (HashLength + 1 + HashLength - 1) \div HashLength = 2
<1> DEFINE h == HashLength
<1>1. h \in Nat \ {0}
  BY HashSize
<1> HIDE DEF h
<1>2. 0 \in 0 .. h - 1 /\ h - 1 \in 0 .. h - 1
  BY <1>1
<1>3. (0 * h + (h - 1)) \div h = 0 /\ (1 * h + 0) \div h = 1 /\ (1 * h + (h - 1)) \div h = 1 /\ (2 * h + 0) \div h = 2
  BY <1>1, <1>2, QuotientIs
<1>4. /\ 0 + h - 1 = 0 * h + (h - 1) /\ 1 + h - 1 = 1 * h + 0 /\ h + h - 1 = 1 * h + (h - 1)
      /\ h + 1 + h - 1 = 2 * h + 0
  BY <1>1
<1>. QED  BY <1>3, <1>4 DEF h

\* hkdf_sha256_expand returns the start of the blocks RFC 5869 defines.
LEMMA ExpandsTo ==
  ASSUME NEW S, NEW info \in Seq(S), Len(info) <= MaxInfo, NEW prk, Len(prk) \in 0 .. ShaBlock,
         NEW length \in {0, 1, HashLength, HashLength + 1}
  PROVE  Expand(prk, info, length) = SubSeq(FirstBlock(prk, info) \o SecondBlock(prk, info), 1, length)
<1> DEFINE h == HashLength
           first == FirstBlock(prk, info)
           second == SecondBlock(prk, info)
           b1 == NextBlock(prk, info, length, AtFirst, 1)
           b2 == NextBlock(prk, info, length, b1, 2)
           n == (length + HashLength - 1) \div HashLength
<1>1. h \in Nat \ {0} /\ length \in Nat
  BY HashSize
<1>2. PICK v, w : first = Part(v, h) /\ second = Part(w, h)
  BY HmacIsWhole, Zenon DEF FirstBlock, SecondBlock
<1> DEFINE T == {PartByte(v, i) : i \in Nat} \cup {PartByte(w, i) : i \in Nat}
<1>3. first \in Seq(T) /\ Len(first) = h /\ second \in Seq(T) /\ Len(second) = h
  <2>1. first \in Seq({PartByte(v, i) : i \in Nat}) /\ second \in Seq({PartByte(w, i) : i \in Nat}) /\ Len(first) = h /\ Len(second) = h
    BY <1>1, <1>2, PartIs
  <2> HIDE DEF first, second
  <2>. QED  BY <2>1
<1>4. n \in 0 .. 2 /\ (length = 0 => n = 0) /\ (length = 1 \/ length = h => n = 1) /\ (length = h + 1 => n = 2)
  BY RoundsAre, HashSize
<1>5. ~ (length > 255 * HashLength \/ Len(info) > MaxInfo)
  <2>1. Len(info) \in Nat /\ MaxInfo \in Nat /\ HashLength \in Nat \ {0}
    BY HashSize
  <2>2. length <= 255 * HashLength
    BY <2>1
  <2>. QED  BY <1>1, <2>1, <2>2
<1>6. PICK f : ExpandRun(f, prk, info, length, n) /\ Expand(prk, info, length) = f[n].okm
  <2> HIDE DEF n
  <2>1. HasRounds(info, length, n)
    BY <1>5, Zenon DEF n, HasRounds
  <2>2. n \in 0 .. 2
    BY <1>4
  <2>. QED  BY <2>1, <2>2, ExpandRuns
<1> HIDE DEF n, first, second, T
<1>7. \A i \in 0 .. n : f[i] = IF i = 0 THEN AtFirst ELSE NextBlock(prk, info, length, f[i - 1], i)
  BY <1>6, Zenon DEF ExpandRun
<1>8. f[0] = AtFirst /\ (n >= 1 => f[1] = b1) /\ (n = 2 => f[2] = b2)
  <2> HIDE DEF b1, b2
  <2>1. f[0] = AtFirst
    BY <1>4, <1>7
  <2>2. n >= 1 => f[1] = b1
    <3>1. SUFFICES ASSUME n >= 1  PROVE f[1] = b1
      OBVIOUS
    <3>2. 1 \in 0 .. n /\ 1 # 0 /\ 1 - 1 = 0
      BY <1>4, <3>1
    <3>3. f[1] = NextBlock(prk, info, length, f[1 - 1], 1)
      BY <1>7, <3>2, Zenon
    <3>. QED  BY <2>1, <3>2, <3>3 DEF b1
  <2>3. n = 2 => f[2] = b2
    <3>1. SUFFICES ASSUME n = 2  PROVE f[2] = b2
      OBVIOUS
    <3>2. 2 \in 0 .. n /\ 2 # 0 /\ 2 - 1 = 1
      BY <1>4, <3>1
    <3>3. f[2] = NextBlock(prk, info, length, f[2 - 1], 2)
      BY <1>7, <3>2, Zenon
    <3>. QED  BY <2>2, <3>1, <3>2, <3>3 DEF b2
  <2>. QED  BY <2>1, <2>2, <2>3
<1>9. b1 = [t |-> first, okm |-> SubSeq(first, 1, Min({length, h}))]
  <2>1. AtFirst.t = <<>> /\ AtFirst.okm = <<>>
    BY DEF AtFirst
  <2>2. <<>> \o info = info
    OBVIOUS
  <2>3. HmacSha256(prk, AtFirst.t \o info \o <<Byte(1)>>) = first
    BY <2>1, <2>2, Zenon DEF first, FirstBlock
  <2>4. length - Len(AtFirst.okm) = length
    BY <1>1, <2>1
  <2> DEFINE c == SubSeq(first, 1, Min({length, h}))
  <2>5. b1 = [t |-> first, okm |-> AtFirst.okm \o c]
    BY <2>3, <2>4, Zenon DEF NextBlock
  <2>6. Min({length, h}) \in 0 .. Len(first)
    <3>1. Min({length, h}) = IF length <= h THEN length ELSE h
      BY <1>1, MinOfTwo
    <3>. QED  BY <1>1, <1>3, <3>1
  <2>7. c \in Seq(T)
    BY <1>3, <2>6, FirstOf
  <2> HIDE DEF c
  <2>8. AtFirst.okm \o c = c
    BY <2>1, <2>7
  <2>. QED  BY <2>5, <2>8 DEF c
<1>10. CASE length = 0
  <2>1. Expand(prk, info, length) = <<>>
    BY <1>4, <1>6, <1>8, <1>10 DEF AtFirst
  <2>2. SubSeq(first \o second, 1, 0) = SubSeq(first, 1, 0)
    <3>1. 0 \in 0 .. Len(first)
      BY <1>1, <1>3
    <3>. QED  BY <1>3, <3>1, StartOfJoin
  <2>3. SubSeq(first, 1, 0) = <<>>
    BY <1>3
  <2>. QED  BY <1>10, <2>1, <2>2, <2>3 DEF first, second
<1>11. CASE length \in {1, h}
  <2> DEFINE c == SubSeq(first, 1, Min({length, h}))
  <2> HIDE DEF b1
  <2>4. n = 1 /\ f[n] = b1 /\ b1 = [t |-> first, okm |-> c]
    BY <1>4, <1>8, <1>9, <1>11
  <2> HIDE DEF c
  <2>5. b1.okm = c
    BY <2>4
  <2>1. Expand(prk, info, length) = SubSeq(first, 1, Min({length, h}))
    BY <1>6, <2>4, <2>5 DEF c
  <2>2. Min({length, h}) = length /\ length \in 0 .. Len(first)
    <3>1. Min({length, h}) = IF length <= h THEN length ELSE h
      BY <1>1, MinOfTwo
    <3>. QED  BY <1>1, <1>3, <1>11, <3>1
  <2>3. SubSeq(first \o second, 1, length) = SubSeq(first, 1, length)
    BY <1>3, <2>2, StartOfJoin
  <2>. QED  BY <2>1, <2>2, <2>3 DEF first, second
<1>12. CASE length = h + 1
  <2>1. Min({length, h}) = h
    <3>1. Min({length, h}) = IF length <= h THEN length ELSE h
      BY <1>1, MinOfTwo
    <3>. QED  BY <1>1, <1>12, <3>1
  <2>2. b1 = [t |-> first, okm |-> first]
    BY <1>3, <1>9, <2>1, WholeIs
  <2> HIDE DEF b1
  <2>3. b1.t = first /\ b1.okm = first
    BY <2>2
  <2>4. HmacSha256(prk, b1.t \o info \o <<Byte(2)>>) = second
    BY <2>3, Zenon DEF second, SecondBlock, first
  <2>5. length - Len(b1.okm) = 1
    BY <1>1, <1>3, <1>12, <2>3
  <2>6. Min({1, h}) = 1
    <3>1. Min({1, h}) = IF 1 <= h THEN 1 ELSE h
      BY <1>1, MinOfTwo
    <3>. QED  BY <1>1, <3>1
  <2>7. b2 = [t |-> second, okm |-> first \o SubSeq(second, 1, 1)]
    BY <2>3, <2>4, <2>5, <2>6, Zenon DEF NextBlock
  <2> HIDE DEF b2
  <2>8. Expand(prk, info, length) = first \o SubSeq(second, 1, 1)
    BY <1>4, <1>6, <1>8, <1>12, <2>7
  <2>9. 1 \in 0 .. Len(second) /\ length = Len(first) + 1
    BY <1>1, <1>3, <1>12
  <2>10. SubSeq(first \o second, 1, Len(first) + 1) = first \o SubSeq(second, 1, 1)
    BY <1>3, <2>9, StartOfSecond
  <2>. QED  BY <2>8, <2>9, <2>10 DEF first, second
<1>. QED  BY <1>10, <1>11, <1>12
-----------------------------------------------------------------------------
(* The keys that are derived. *)

Salt(c) == PublicKey(c.eph) \o PublicKey(c.relay)

Ikm(c) == Shared(c.pair, c.point)

Info(c) == Part([label |-> c.label], LabelLength[c.label])

Prk(c) == HmacSha256(Salt(c), Ikm(c))

\* A derivation is about the link between its two ends, whoever makes it.
Linked(c) == c.label \in Labels /\ {c.pair, c.point} = {c.eph, c.relay}

ScheduleInv ==
  /\ identity \in [Hosts -> {"none", "secret", "erased"}]
  /\ \A c \in derived : Linked(c)

\* The bytes that stand for a part of a member of W, and the counter.
Parts(W) == {PartByte(w, i) : w \in W, i \in Nat} \cup {Byte(1)}

LEMMA PartsAreClean ==
  ASSUME NEW W
  PROVE  AllClean(Parts(W))
BY CleanIs DEF AllClean, Parts

LEMMA PartIn ==
  ASSUME NEW W, NEW w \in W, NEW n \in Nat
  PROVE  Part(w, n) \in Seq(Parts(W))
<1>1. Part(w, n) \in Seq({PartByte(w, i) : i \in Nat})
  BY PartIs
<1>2. {PartByte(w, i) : i \in Nat} \subseteq Parts(W)
  BY DEF Parts
<1>. QED  BY <1>1, <1>2

LEMMA SaltIs ==
  ASSUME NEW W, NEW c, [public |-> c.eph] \in W, [public |-> c.relay] \in W
  PROVE  Salt(c) \in Seq(Parts(W)) /\ Len(Salt(c)) = ShaBlock
<1> DEFINE p == PublicKey(c.eph)
           r == PublicKey(c.relay)
           u == [public |-> c.eph]
           v == [public |-> c.relay]
<1>1. HashLength \in Nat /\ u \in W /\ v \in W
  BY HashSize
<1>2. p = Part(u, HashLength) /\ r = Part(v, HashLength)
  BY Zenon DEF PublicKey
<1> HIDE DEF p, r, u, v
<1>3. p \in Seq(Parts(W)) /\ r \in Seq(Parts(W)) /\ Len(p) = HashLength /\ Len(r) = HashLength
  BY <1>1, <1>2, PartIn, PartIs
<1>4. p \o r \in Seq(Parts(W)) /\ IsJoin(p \o r, p, r)
  BY <1>3, JoinIs, Zenon
<1>5. Len(p \o r) = Len(p) + Len(r)
  BY <1>4, Zenon DEF IsJoin
<1>6. Len(p \o r) = ShaBlock
  <2> DEFINE j == p \o r
  <2>1. Len(j) = Len(p) + Len(r)
    BY <1>5
  <2> HIDE DEF j
  <2>2. Len(j) = ShaBlock
    BY <1>1, <1>3, <2>1, HashSize
  <2>. QED  BY <2>2 DEF j
<1>7. Salt(c) = p \o r
  BY Zenon DEF Salt, p, r
<1>. QED  BY <1>4, <1>6, <1>7

LEMMA InfoIs ==
  ASSUME NEW W, NEW c, c.label \in Labels, [label |-> c.label] \in W
  PROVE  /\ Info(c) \in Seq(Parts(W)) /\ Len(Info(c)) \in 1 .. MaxInfo
         /\ Info(c)[1] = PartByte([label |-> c.label], 1)
<1> DEFINE n == LabelLength[c.label]
           w == [label |-> c.label]
<1>1. n \in 1 .. MaxInfo /\ n \in Nat /\ 1 \in 1 .. n /\ w \in W
  <2>1. n \in 1 .. MaxInfo /\ MaxInfo \in Nat
    BY KeyScheduleAssumption
  <2> HIDE DEF n
  <2>. QED  BY <2>1
<1>2. Info(c) = Part(w, n)
  BY Zenon DEF Info
<1> HIDE DEF n, w
<1>3. Part(w, n) \in Seq(Parts(W)) /\ Len(Part(w, n)) = n /\ Part(w, n)[1] = PartByte(w, 1)
  BY <1>1, PartIn, PartIs
<1>. QED  BY <1>1, <1>2, <1>3 DEF w

LEMMA PrkIs ==
  ASSUME NEW c
  PROVE  /\ \E w : Prk(c) = Part(w, HashLength)
         /\ Len(Prk(c)) = HashLength /\ Len(Prk(c)) \in 0 .. ShaBlock /\ Len(Salt(c)) \in 0 .. ShaBlock
         /\ Extract(Salt(c), Ikm(c)) = Prk(c)
<1>1. Len(Salt(c)) = ShaBlock
  <2> DEFINE W == {[public |-> c.eph], [public |-> c.relay]}
  <2>1. [public |-> c.eph] \in W /\ [public |-> c.relay] \in W
    OBVIOUS
  <2> HIDE DEF W
  <2>. QED  BY <2>1, SaltIs, Zenon
<1>2. HashLength \in Nat \ {0} /\ ShaBlock = 2 * HashLength
  BY HashSize
<1>3. Len(Salt(c)) \in 0 .. ShaBlock /\ Salt(c) # <<>>
  BY <1>1, <1>2
<1>4. PICK w : Prk(c) = Part(w, HashLength)
  BY <1>3, HmacIsWhole, Zenon DEF Prk
<1>5. Len(Prk(c)) = HashLength
  BY <1>2, <1>4, PartIs
<1>6. Extract(Salt(c), Ikm(c)) = Prk(c)
  BY <1>3, Zenon DEF Extract, Prk
<1>7. Len(Prk(c)) \in 0 .. ShaBlock
  BY <1>2, <1>5
<1>. QED  BY <1>3, <1>4, <1>5, <1>6, <1>7, Zenon

LEMMA HkdfIs ==
  ASSUME NEW c, c.label \in Labels, NEW n \in {0, 1, HashLength, HashLength + 1}
  PROVE  Hkdf(Salt(c), Ikm(c), Info(c), n)
           = SubSeq(FirstBlock(Prk(c), Info(c)) \o SecondBlock(Prk(c), Info(c)), 1, n)
<1> DEFINE W == {[label |-> c.label]}
<1>1. [label |-> c.label] \in W
  OBVIOUS
<1> HIDE DEF W
<1>2. Info(c) \in Seq(Parts(W)) /\ Len(Info(c)) \in 1 .. MaxInfo
  BY <1>1, InfoIs
<1>3. Len(Info(c)) <= MaxInfo
  BY <1>2, HashSize
<1>4. Len(Prk(c)) \in 0 .. ShaBlock /\ Extract(Salt(c), Ikm(c)) = Prk(c)
  BY PrkIs
<1>5. Hkdf(Salt(c), Ikm(c), Info(c), n) = Expand(Prk(c), Info(c), n)
  BY <1>4, Zenon DEF Hkdf
<1>6. Expand(Prk(c), Info(c), n) = SubSeq(FirstBlock(Prk(c), Info(c)) \o SecondBlock(Prk(c), Info(c)), 1, n)
  BY <1>2, <1>3, <1>4, ExpandsTo, Zenon
<1>. QED  BY <1>5, <1>6

LEMMA KeyIs ==
  ASSUME NEW c, c.label \in Labels, c.point # SmallOrder
  PROVE  /\ Key(c) = FirstBlock(Prk(c), Info(c))
         /\ Len(Key(c)) = HashLength /\ Key(c) # Refused
<1> DEFINE a == FirstBlock(Prk(c), Info(c))
           b == SecondBlock(Prk(c), Info(c))
<1>1. HashLength \in Nat \ {0}
  BY HashSize
<1>2. Key(c) = Hkdf(Salt(c), Ikm(c), Info(c), HashLength)
  BY Zenon DEF Key, DeriveKey, Salt, Ikm, Info
<1>3. Hkdf(Salt(c), Ikm(c), Info(c), HashLength) = SubSeq(a \o b, 1, HashLength)
  BY HkdfIs
<1>4. Len(Prk(c)) \in 0 .. ShaBlock
  BY PrkIs
<1>5. PICK v, w : a = Part(v, HashLength) /\ b = Part(w, HashLength)
  BY <1>4, HmacIsWhole, Zenon DEF FirstBlock, SecondBlock
<1> DEFINE W == {v, w}
<1>6. v \in W /\ w \in W
  OBVIOUS
<1> HIDE DEF W, a, b
<1>7. a \in Seq(Parts(W)) /\ b \in Seq(Parts(W)) /\ Len(a) = HashLength /\ HashLength \in 0 .. Len(a)
  <2>1. a \in Seq(Parts(W)) /\ b \in Seq(Parts(W)) /\ Len(a) = HashLength
    BY <1>1, <1>5, <1>6, PartIn, PartIs
  <2>. QED  BY <1>1, <2>1
<1>8. SubSeq(a \o b, 1, HashLength) = SubSeq(a, 1, HashLength)
  BY <1>7, StartOfJoin, Zenon
<1>9. SubSeq(a, 1, HashLength) = a
  BY <1>7, WholeIs
<1>10. Key(c) = a
  BY <1>2, <1>3, <1>8, <1>9
<1>11. Len(a) # 0 /\ Len(Refused) = 0
  BY <1>1, <1>7 DEF Refused
<1>. QED  BY <1>7, <1>10, <1>11 DEF a

LEMMA KeyTells ==
  ASSUME NEW c, NEW d, c.label \in Labels, d.label \in Labels, c.point # SmallOrder, d.point # SmallOrder,
         Key(c) = Key(d)
  PROVE  c.eph = d.eph /\ c.relay = d.relay /\ c.label = d.label
<1>1. PICK v, w : Prk(c) = Part(v, HashLength) /\ Prk(d) = Part(w, HashLength)
  BY PrkIs
<1> DEFINE W == {v, w, [label |-> c.label], [label |-> d.label],
                 [public |-> c.eph], [public |-> c.relay], [public |-> d.eph], [public |-> d.relay],
                 [shared |-> {c.pair, c.point}], [shared |-> {d.pair, d.point}]}
           S == Parts(W)
           one == <<Byte(1)>>
           x == Info(c) \o one
           y == Info(d) \o one
<1>2. HashLength \in Nat \ {0} /\ HashLength \in Nat /\ HashLength <= ShaBlock
  BY HashSize
<1>3. /\ v \in W /\ w \in W /\ [label |-> c.label] \in W /\ [label |-> d.label] \in W
      /\ [public |-> c.eph] \in W /\ [public |-> c.relay] \in W
      /\ [public |-> d.eph] \in W /\ [public |-> d.relay] \in W
      /\ [shared |-> {c.pair, c.point}] \in W /\ [shared |-> {d.pair, d.point}] \in W
  OBVIOUS
<1> HIDE DEF W
<1>4. AllClean(S)
  BY PartsAreClean
<1>5. Prk(c) \in Seq(S) /\ Prk(d) \in Seq(S) /\ Len(Prk(c)) = Len(Prk(d)) /\ Len(Prk(c)) <= ShaBlock
  <2>1. Prk(c) \in Seq(S) /\ Prk(d) \in Seq(S)
    BY <1>1, <1>2, <1>3, PartIn
  <2>2. Len(Prk(c)) = HashLength /\ Len(Prk(d)) = HashLength
    BY PrkIs
  <2>. QED  BY <1>2, <2>1, <2>2
<1>6. /\ Info(c) \in Seq(S) /\ Info(c)[1] = PartByte([label |-> c.label], 1)
      /\ Info(d) \in Seq(S) /\ Info(d)[1] = PartByte([label |-> d.label], 1)
      /\ Len(Info(c)) >= 1 /\ Len(Info(d)) >= 1
  <2>1. ASSUME NEW b, b.label \in Labels, [label |-> b.label] \in W
        PROVE  /\ Info(b) \in Seq(S) /\ Info(b)[1] = PartByte([label |-> b.label], 1)
               /\ Len(Info(b)) >= 1
    <3>1. /\ Info(b) \in Seq(S) /\ Info(b)[1] = PartByte([label |-> b.label], 1)
          /\ Len(Info(b)) \in 1 .. MaxInfo
      BY <2>1, InfoIs, Zenon
    <3>2. MaxInfo \in Nat
      BY HashSize
    <3>. QED  BY <3>1, <3>2
  <2> HIDE DEF S
  <2>. QED  BY <1>3, <2>1, Zenon
<1>7. one \in Seq(S)
  <2>1. Byte(1) \in S
    BY DEF Parts
  <2> HIDE DEF S
  <2>. QED  BY <2>1
<1>8. /\ Salt(c) \in Seq(S) /\ Salt(d) \in Seq(S) /\ Len(Salt(c)) = Len(Salt(d)) /\ Len(Salt(c)) <= ShaBlock
  <2>1. Salt(c) \in Seq(S) /\ Len(Salt(c)) = ShaBlock
    BY <1>3, SaltIs
  <2>2. Salt(d) \in Seq(S) /\ Len(Salt(d)) = ShaBlock
    BY <1>3, SaltIs
  <2>. QED  BY <2>1, <2>2, ShaSize
<1>9. Ikm(c) \in Seq(S) /\ Ikm(d) \in Seq(S)
  <2> DEFINE r == [shared |-> {c.pair, c.point}]
             s == [shared |-> {d.pair, d.point}]
  <2>1. Ikm(c) = Part(r, HashLength) /\ Ikm(d) = Part(s, HashLength)
    BY Zenon DEF Ikm, Shared
  <2>2. r \in W /\ s \in W
    BY <1>3
  <2> HIDE DEF r, s
  <2>. QED  BY <1>2, <2>1, <2>2, PartIn
<1> HIDE DEF S, one
<1>10. x \in Seq(S) /\ IsJoin(x, Info(c), one) /\ y \in Seq(S) /\ IsJoin(y, Info(d), one)
  BY <1>6, <1>7, JoinIs, Zenon
<1>11. HmacSha256(Prk(c), x) = HmacSha256(Prk(d), y)
  <2>1. FirstBlock(Prk(c), Info(c)) = FirstBlock(Prk(d), Info(d))
    BY KeyIs
  <2>. QED  BY <2>1, Zenon DEF FirstBlock, one
<1> HIDE DEF x, y
<1>12. Prk(c) = Prk(d) /\ x = y
  BY <1>4, <1>5, <1>10, <1>11, HmacTells
<1>13. c.label = d.label
  <2>1. x[1] = Info(c)[1] /\ y[1] = Info(d)[1]
    <3>1. 1 \in 1 .. Len(Info(c)) /\ 1 \in 1 .. Len(Info(d))
      BY <1>6
    <3>. QED  BY <1>10, <3>1, Zenon DEF IsJoin
  <2>2. PartByte([label |-> c.label], 1).of = PartByte([label |-> d.label], 1).of
    BY <1>6, <1>12, <2>1
  <2>3. [label |-> c.label] = [label |-> d.label]
    BY <2>2 DEF PartByte
  <2>4. [label |-> c.label].label = [label |-> d.label].label
    BY <2>3, Zenon
  <2>. QED  BY <2>4
<1>14. Salt(c) = Salt(d)
  <2>1. HmacSha256(Salt(c), Ikm(c)) = HmacSha256(Salt(d), Ikm(d))
    BY <1>12, Zenon DEF Prk
  <2>. QED  BY <1>4, <1>8, <1>9, <2>1, HmacTells
<1> DEFINE ce == [public |-> c.eph]
           cr == [public |-> c.relay]
           de == [public |-> d.eph]
           dr == [public |-> d.relay]
           pce == Part(ce, HashLength)
           pcr == Part(cr, HashLength)
           pde == Part(de, HashLength)
           pdr == Part(dr, HashLength)
<1>15. Salt(c) = pce \o pcr /\ Salt(d) = pde \o pdr
  BY Zenon DEF Salt, PublicKey
<1>16. ce \in W /\ cr \in W /\ de \in W /\ dr \in W
  BY <1>3
<1> HIDE DEF ce, cr, de, dr
<1>17. /\ pce \in Seq(S) /\ pcr \in Seq(S) /\ pde \in Seq(S) /\ pdr \in Seq(S)
       /\ Len(pce) = HashLength /\ Len(pde) = HashLength
  BY <1>2, <1>16, PartIn, PartIs DEF S
<1> HIDE DEF pce, pcr, pde, pdr
<1>18. SamePrefixes(pce, pcr, pde, pdr)
  BY <1>14, <1>15, <1>17, Zenon DEF SamePrefixes
<1>19. pce = pde /\ pcr = pdr
  BY <1>17, <1>18, CancelFirst, Zenon
<1>20. ce = de /\ cr = dr
  BY <1>2, <1>19, PartTells, Zenon DEF pce, pcr, pde, pdr
<1>21. c.eph = d.eph /\ c.relay = d.relay
  <2>1. ce.public = c.eph /\ de.public = d.eph /\ cr.public = c.relay /\ dr.public = d.relay
    BY DEF ce, de, cr, dr
  <2>. QED  BY <1>20, <2>1
<1>. QED  BY <1>13, <1>21

\* What goes into a key are the two ends of the link and the label.
LEMMA KeyOfLink ==
  ASSUME NEW c, NEW d, Linked(c), Linked(d), c.point # SmallOrder, d.point # SmallOrder,
         c.eph = d.eph, c.relay = d.relay, c.label = d.label
  PROVE  Key(c) = Key(d)
<1>1. c.label \in Labels /\ d.label \in Labels /\ {c.pair, c.point} = {d.pair, d.point}
  BY DEF Linked
<1>2. Salt(c) = Salt(d) /\ Info(c) = Info(d)
  BY Zenon DEF Salt, Info
<1>3. Ikm(c) = Ikm(d)
  BY <1>1, Zenon DEF Ikm, Shared
<1>4. Prk(c) = Prk(d)
  BY <1>2, <1>3, Zenon DEF Prk
<1>5. FirstBlock(Prk(c), Info(c)) = FirstBlock(Prk(d), Info(d))
  BY <1>2, <1>4, Zenon
<1>. QED  BY <1>1, <1>5, KeyIs

LEMMA KeyRefused ==
  ASSUME NEW c, c.point = SmallOrder
  PROVE  Key(c) = Refused
BY Zenon DEF Key, DeriveKey

\* The key is RFC 5869's.
LEMMA KeyIsStandard ==
  ASSUME NEW c, c.label \in Labels, c.point # SmallOrder
  PROVE  LET salt == PublicKey(c.eph) \o PublicKey(c.relay)
             info == Part([label |-> c.label], LabelLength[c.label])
             prk == HmacSha256(salt, Shared(c.pair, c.point))
             first == HmacSha256(prk, info \o <<Byte(1)>>)
         IN /\ Key(c) = first
            /\ \A n \in {0, 1, HashLength + 1} :
                 Hkdf(salt, Shared(c.pair, c.point), info, n) =
                   SubSeq(first \o HmacSha256(prk, first \o info \o <<Byte(2)>>), 1, n)
<1>1. Key(c) = FirstBlock(Prk(c), Info(c))
  BY KeyIs
<1>2. ASSUME NEW n \in {0, 1, HashLength + 1}
      PROVE  Hkdf(Salt(c), Ikm(c), Info(c), n)
               = SubSeq(FirstBlock(Prk(c), Info(c)) \o SecondBlock(Prk(c), Info(c)), 1, n)
  BY HkdfIs
<1>. QED  BY <1>1, <1>2, Zenon DEF Salt, Info, Ikm, Prk, FirstBlock, SecondBlock

LEMMA ScheduleInvInit == ScheduleInit => ScheduleInv
BY DEF ScheduleInit, ScheduleInv

LEMMA RecordKeeps ==
  ASSUME ScheduleInv, NEW by, NEW pair, NEW point, NEW eph, NEW relay, NEW label \in Labels,
         {pair, point} = {eph, relay}, Record(by, pair, point, eph, relay, label)
  PROVE  ScheduleInv'
<1> DEFINE r == [by |-> by, pair |-> pair, point |-> point, eph |-> eph, relay |-> relay, label |-> label]
<1>1. derived' = derived \cup {r} /\ identity' = identity
  BY DEF Record
<1>2. Linked(r)
  <2>1. r.pair = pair /\ r.point = point /\ r.eph = eph /\ r.relay = relay /\ r.label = label
    OBVIOUS
  <2> HIDE DEF r
  <2>. QED  BY <2>1 DEF Linked
<1> HIDE DEF r
<1>. QED  BY <1>1, <1>2 DEF ScheduleInv

LEMMA ScheduleInvNext == ScheduleInv /\ [ScheduleNext]_schedule => ScheduleInv'
<1> SUFFICES ASSUME ScheduleInv, [ScheduleNext]_schedule  PROVE ScheduleInv'
  OBVIOUS
<1>1. CASE \E h \in Hosts : Generate(h) \/ Erase(h)
  BY <1>1 DEF ScheduleInv, Generate, Erase
<1>2. CASE \E e \in Ephemerals, h \in Hosts, label \in Labels : ClientDerives(e, h, label)
  <2>1. PICK e \in Ephemerals, h \in Hosts, label \in Labels : ClientDerives(e, h, label)
    BY <1>2
  <2>2. PICK point \in {h, SmallOrder} : Record("client", e, point, e, point, label)
    BY <2>1 DEF ClientDerives
  <2>3. {e, point} = {e, point}
    OBVIOUS
  <2>. QED  BY <2>2, <2>3, RecordKeeps
<1>3. CASE \E h \in Hosts, point \in Ephemerals \cup {SmallOrder}, label \in Labels :
             RelayDerives(h, point, label)
  <2>1. PICK h \in Hosts, point \in Ephemerals \cup {SmallOrder}, label \in Labels :
          RelayDerives(h, point, label)
    BY <1>3
  <2>2. Record("relay", h, point, point, h, label)
    BY <2>1 DEF RelayDerives
  <2>3. {h, point} = {point, h}
    OBVIOUS
  <2>. QED  BY <2>2, <2>3, RecordKeeps
<1>4. CASE UNCHANGED schedule
  BY <1>4 DEF ScheduleInv, schedule
<1>. QED  BY <1>1, <1>2, <1>3, <1>4 DEF ScheduleNext, Compared

LEMMA InvScheduleTypes == ScheduleInv => ScheduleTypes
<1> SUFFICES ASSUME ScheduleInv  PROVE ScheduleTypes
  OBVIOUS
<1>1. ASSUME NEW d \in derived  PROVE Len(Key(d)) \in {0, HashLength}
  <2>1. d.label \in Labels
    BY DEF ScheduleInv, Linked
  <2>2. CASE d.point = SmallOrder
    <3>1. Key(d) = <<>>
      BY <2>2, KeyRefused DEF Refused
    <3>. QED  BY <3>1
  <2>3. CASE d.point # SmallOrder
    BY <2>1, <2>3, KeyIs
  <2>. QED  BY <2>2, <2>3
<1>. QED  BY <1>1 DEF ScheduleInv, ScheduleTypes

LEMMA InvKeysAreSeparate == ScheduleInv => KeysAreSeparate
<1> SUFFICES ASSUME ScheduleInv, NEW c \in derived, NEW d \in derived
    PROVE  /\ Key(c) = Refused <=> c.point = SmallOrder
           /\ Key(c) # Refused /\ Key(d) # Refused =>
                (Key(c) = Key(d) <=> <<c.eph, c.relay, c.label>> = <<d.eph, d.relay, d.label>>)
           /\ Key(c) # Refused =>
                LET salt == PublicKey(c.eph) \o PublicKey(c.relay)
                    info == Part([label |-> c.label], LabelLength[c.label])
                    prk == HmacSha256(salt, Shared(c.pair, c.point))
                    first == HmacSha256(prk, info \o <<Byte(1)>>)
                IN /\ Key(c) = first
                   /\ \A n \in {0, 1, HashLength + 1} :
                        Hkdf(salt, Shared(c.pair, c.point), info, n) =
                          SubSeq(first \o HmacSha256(prk, first \o info \o <<Byte(2)>>), 1, n)
  BY Zenon DEF KeysAreSeparate
<1>1. Linked(c) /\ Linked(d) /\ c.label \in Labels /\ d.label \in Labels
  BY DEF ScheduleInv, Linked
<1>2. Key(c) = Refused <=> c.point = SmallOrder
  BY <1>1, KeyIs, KeyRefused
<1>3. Key(d) = Refused <=> d.point = SmallOrder
  BY <1>1, KeyIs, KeyRefused
<1>4. ASSUME Key(c) # Refused, Key(d) # Refused
      PROVE  Key(c) = Key(d) <=> <<c.eph, c.relay, c.label>> = <<d.eph, d.relay, d.label>>
  <2>1. c.point # SmallOrder /\ d.point # SmallOrder
    BY <1>2, <1>3, <1>4
  <2>2. Key(c) = Key(d) <=> c.eph = d.eph /\ c.relay = d.relay /\ c.label = d.label
    BY <1>1, <2>1, KeyTells, KeyOfLink, Zenon
  <2>. QED  BY <2>2
<1>5. Key(c) # Refused => c.point # SmallOrder
  BY <1>2
<1>. QED  BY <1>1, <1>2, <1>4, <1>5, KeyIsStandard, Zenon

LEMMA ScheduleHolds == ScheduleSpec => []ScheduleInv
BY ScheduleInvInit, ScheduleInvNext, PTL DEF ScheduleSpec

\* hkdf_sha256 returns whole keys to derive_hop_key and ox_derive_labeled_key.
THEOREM KeysAreWhole == ScheduleSpec => []ScheduleTypes
BY ScheduleHolds, InvScheduleTypes, PTL

\* derive_hop_key and ox_derive_labeled_key give the ends of a link one key,
\* RFC 5869's, and another one to every other relay, ephemeral key and label.
THEOREM LinksHaveTheirKeys == ScheduleSpec => []KeysAreSeparate
BY ScheduleHolds, InvKeysAreSeparate, PTL
-----------------------------------------------------------------------------
(* Digests are what the standards say, whatever pieces a message comes in. *)

Associate(a, b, c) == (a \o b) \o c = a \o (b \o c)

LEMMA JoinsAssociate ==
  ASSUME NEW S, NEW a \in Seq(S), NEW b \in Seq(S), NEW c \in Seq(S)
  PROVE  Associate(a, b, c)
<1> DEFINE ab == a \o b
           bc == b \o c
           f == ab \o c
           g == a \o bc
<1>1. ab \in Seq(S) /\ IsJoin(ab, a, b) /\ bc \in Seq(S) /\ IsJoin(bc, b, c)
  BY JoinIs, Zenon
<1> HIDE DEF ab, bc
<1>2. f \in Seq(S) /\ IsJoin(f, ab, c) /\ g \in Seq(S) /\ IsJoin(g, a, bc)
  BY <1>1, JoinIs, Zenon
<1> HIDE DEF f, g
<1>3. /\ Len(ab) = Len(a) + Len(b) /\ Len(bc) = Len(b) + Len(c)
      /\ Len(f) = Len(ab) + Len(c) /\ Len(g) = Len(a) + Len(bc)
  BY <1>1, <1>2, Zenon DEF IsJoin
<1>4. Len(a) \in Nat /\ Len(b) \in Nat /\ Len(c) \in Nat
  OBVIOUS
<1>5. Len(f) = Len(a) + Len(b) + Len(c) /\ Len(g) = Len(f)
  BY <1>3, <1>4
<1>6. ASSUME NEW k \in 1 .. Len(f)  PROVE f[k] = g[k]
  <2>1. CASE k \in 1 .. Len(a)
    <3>1. k \in 1 .. Len(ab)
      BY <1>3, <1>4, <2>1
    <3>2. f[k] = ab[k] /\ ab[k] = a[k] /\ g[k] = a[k]
      BY <1>1, <1>2, <2>1, <3>1, Zenon DEF IsJoin
    <3>. QED  BY <3>2
  <2>2. CASE k - Len(a) \in 1 .. Len(b)
    <3>1. PICK i \in 1 .. Len(b) : i = k - Len(a)
      BY <2>2
    <3>2. k = Len(a) + i /\ k \in 1 .. Len(ab) /\ i \in 1 .. Len(bc)
      BY <1>3, <1>4, <3>1
    <3>3. f[k] = ab[k] /\ ab[Len(a) + i] = b[i] /\ g[Len(a) + i] = bc[i] /\ bc[i] = b[i]
      BY <1>1, <1>2, <3>2, Zenon DEF IsJoin
    <3>. QED  BY <3>2, <3>3
  <2>3. CASE k - Len(ab) \in 1 .. Len(c)
    <3>1. PICK i \in 1 .. Len(c) : i = k - Len(ab)
      BY <2>3
    <3>2. k = Len(ab) + i /\ Len(b) + i \in 1 .. Len(bc) /\ k = Len(a) + (Len(b) + i)
      BY <1>3, <1>4, <3>1
    <3>3. f[Len(ab) + i] = c[i] /\ g[Len(a) + (Len(b) + i)] = bc[Len(b) + i] /\ bc[Len(b) + i] = c[i]
      BY <1>1, <1>2, <3>2, Zenon DEF IsJoin
    <3>. QED  BY <3>2, <3>3
  <2>. QED  BY <1>3, <1>4, <1>5, <2>1, <2>2, <2>3
<1>7. f = g
  BY <1>2, <1>5, <1>6
<1>. QED  BY <1>7, Zenon DEF f, g, ab, bc, Associate

\* Only one number of zeros below a block brings the length to its end.
LEMMA ZerosAreUnique ==
  ASSUME NEW n \in Nat, NEW B \in Nat \ {0}, NEW y \in 0 .. B - 1, NEW z \in 0 .. B - 1,
         NEW i \in Nat, NEW j \in Nat, n + y = i * B, n + z = j * B, y <= z
  PROVE  y = z
<1> DEFINE a == i * B
           b == j * B
<1>1. a \in Nat /\ b \in Nat /\ a = n + y /\ b = n + z
  BY Multiples
<1>2. a <= b /\ b - a < B
  <2> HIDE DEF a, b
  <2>. QED  BY <1>1
<1>3. i = j
  BY <1>2, MultiplesFit
<1> HIDE DEF a, b
<1>4. a = b
  BY <1>3 DEF a, b
<1>. QED  BY <1>1, <1>4

\* So the standard's are these.
StandardZeros(n) == CHOOSE z \in 0 .. ShaBlock - 1 : (n + 1 + z + ShaLength) % ShaBlock = 0

LEMMA StandardZerosAre ==
  ASSUME NEW n \in Nat, NEW z \in 0 .. ShaBlock - 1, NEW m \in Nat, n + 1 + z + ShaLength = m * ShaBlock
  PROVE  StandardZeros(n) = z
<1> DEFINE B == ShaBlock
           l == n + 1 + ShaLength
           y == StandardZeros(n)
<1>1. B \in Nat \ {0} /\ l \in Nat /\ ShaLength \in Nat /\ l + z = m * B
  BY ShaSize
<1>2. (n + 1 + z + ShaLength) % B = 0
  <2>1. 0 \in 0 .. B - 1
    BY <1>1
  <2>2. (m * B + 0) % B = 0
    BY <1>1, <2>1, QuotientIs
  <2>3. m * B \in Nat
    BY <1>1, Multiples
  <2> DEFINE x == m * B
  <2>4. n + 1 + z + ShaLength = x /\ x + 0 = x
    BY <2>3
  <2> HIDE DEF x
  <2>. QED  BY <2>2, <2>4 DEF x
<1>3. y \in 0 .. B - 1 /\ (n + 1 + y + ShaLength) % B = 0
  BY <1>2, Zenon DEF StandardZeros
<1> HIDE DEF y
<1>4. PICK i \in Nat : l + y = i * B
  <2> DEFINE k == l + y
             i == k \div B
  <2>1. k \in Nat /\ k = n + 1 + y + ShaLength
    BY <1>1, <1>3
  <2> HIDE DEF k
  <2>2. i \in Nat /\ k = i * B + (k % B)
    BY <1>1, <2>1, Quotient
  <2>3. k % B = 0
    BY <1>3, <2>1
  <2> HIDE DEF i
  <2>4. i * B \in Nat
    BY <1>1, <2>2, Multiples
  <2>5. k = i * B
    <3> DEFINE x == i * B
    <3>1. k = x + 0 /\ x \in Nat
      BY <2>2, <2>3, <2>4
    <3> HIDE DEF x
    <3>2. k = x
      BY <3>1
    <3>. QED  BY <3>2 DEF x
  <2>. QED  BY <2>2, <2>5 DEF k
<1> HIDE DEF l, B
<1>5. y <= z \/ z <= y
  BY <1>1, <1>3 DEF B
<1>6. z \in 0 .. B - 1
  BY DEF B
<1>7. y <= z => y = z
  BY <1>1, <1>3, <1>4, <1>6, ZerosAreUnique, Zenon
<1>8. z <= y => z = y
  BY <1>1, <1>3, <1>4, <1>6, ZerosAreUnique, Zenon
<1>. QED  BY <1>5, <1>7, <1>8 DEF y

LEMMA CutIs ==
  ASSUME NEW S, NEW D \in Seq(S), NEW m \in Nat, Len(D) = m * ShaBlock
  PROVE  Cut(D, ShaBlock) = ChainOf(D, m)
<1> DEFINE B == ShaBlock
           l == Len(D)
           F(i) == SubSeq(D, (i - 1) * B + 1, Min({i * B, l}))
           G(i) == Piece(D, (i - 1) * B, B)
<1>1. B \in Nat \ {0} /\ l \in Nat /\ l = m * B
  BY ShaSize
<1>2. (l + B - 1) \div B = m
  <2>1. B - 1 \in 0 .. B - 1
    BY <1>1
  <2>2. (m * B + (B - 1)) \div B = m
    BY <1>1, <2>1, QuotientIs
  <2> HIDE DEF l
  <2>3. l + B - 1 = l + (B - 1)
    BY <1>1
  <2>. QED  BY <1>1, <2>2, <2>3
<1>3. ASSUME NEW i \in 1 .. m  PROVE F(i) = G(i)
  <2> DEFINE a == (i - 1) * B
             b == i * B
  <2>1. i \in Nat \ {0} /\ i <= m
    OBVIOUS
  <2>2. b = a + B /\ a \in Nat /\ b \in Nat
    BY <1>1, <2>1, Before, Multiples
  <2>3. b <= l
    BY <1>1, <2>1, Multiples
  <2> HIDE DEF a, b, l
  <2>4. Min({b, l}) = a + B
    <3>1. Min({b, l}) = IF b <= l THEN b ELSE l
      BY <1>1, <2>2, MinOfTwo
    <3>. QED  BY <2>2, <2>3, <3>1
  <2>5. a + B <= Len(D)
    BY <2>2, <2>3 DEF l
  <2>6. SubSeq(D, a + 1, a + B) = [k \in 1 .. B |-> D[a + k]]
    BY <1>1, <2>2, <2>5, PartOf
  <2>. QED  BY <2>4, <2>6, Zenon DEF a, b, Piece
<1> HIDE DEF F, G
<1>4. [i \in 1 .. m |-> F(i)] = [i \in 1 .. m |-> G(i)]
  BY <1>3
<1>5. Cut(D, ShaBlock) = [i \in 1 .. m |-> F(i)]
  BY <1>2, Zenon DEF Cut, F, l, B
<1>6. ChainOf(D, m) = [i \in 1 .. m |-> G(i)]
  BY Zenon DEF ChainOf, G, B
<1>. QED  BY <1>4, <1>5, <1>6

LEMMA ShaIsStandard ==
  ASSUME NEW S, Bytes \subseteq S, NEW d \in Seq(S), NEW s, ShaState(s, d)
  PROVE  ShaFinal(s) = StandardSha(d)
<1> DEFINE n == Len(d)
           z == ShaZeros(s)
           D == Padded(d, z)
           o == <<Byte(128)>>
           zs == Zeros(z)
           r == Reverse(Digits(n * 8, ShaLength))
<1>1. z \in 0 .. ShaBlock - 1 /\ z \in Nat /\ n \in Nat
  BY ZerosFit
<1>2. PICK m \in Nat : n + 1 + z + ShaLength = m * ShaBlock
  BY ZerosFit
<1> HIDE DEF z
<1>3. StandardZeros(n) = z
  <2> HIDE DEF n
  <2>. QED  BY <1>1, <1>2, StandardZerosAre
<1>4. PICK k \in Nat : Len(D) = k * ShaBlock /\ ShaFinal(s) = ChainOf(D, k)
  BY ShaFinishes DEF z
<1>5. D \in Seq(S)
  BY <1>1, PaddedIs, Zenon
<1>6. Cut(D, ShaBlock) = ShaFinal(s)
  <2> HIDE DEF D
  <2>. QED  BY <1>4, <1>5, CutIs
<1>7. o \in Seq(S) /\ zs \in Seq(S) /\ r \in Seq(S) /\ o \o zs \in Seq(S)
  <2>1. o \in Seq(Bytes)
    BY ByteIs
  <2>2. zs \in Seq(Bytes)
    BY <1>1, ZerosAre
  <2>3. r \in Seq(Bytes)
    <3> DEFINE g == Digits(n * 8, ShaLength)
    <3>1. g \in Seq(Bytes) /\ Len(g) = ShaLength /\ ShaLength \in Nat
      <4>1. n * 8 \in Nat /\ ShaLength \in Nat
        BY <1>1, ShaSize
      <4>. QED  BY <4>1, DigitsAre
    <3> HIDE DEF g
    <3>2. Reverse(g) = [i \in 1 .. ShaLength |-> g[ShaLength - i + 1]]
      BY <3>1, Zenon DEF Reverse
    <3>3. ASSUME NEW i \in 1 .. ShaLength  PROVE g[ShaLength - i + 1] \in Bytes
      <4>1. ShaLength - i + 1 \in 1 .. ShaLength
        BY <3>1
      <4>. QED  BY <3>1, <4>1
    <3>. QED  BY <3>1, <3>2, <3>3 DEF g
  <2> HIDE DEF o, zs, r
  <2>4. o \in Seq(S) /\ zs \in Seq(S) /\ r \in Seq(S)
    BY <2>1, <2>2, <2>3
  <2>. QED  BY <2>4, JoinIs, Zenon
<1> HIDE DEF o, zs, r
<1>8. D = d \o o \o zs \o r
  <2>1. D = d \o ((o \o zs) \o r)
    BY Zenon DEF Padded, PaddingOf, o, zs, r, n
  <2>2. (d \o (o \o zs)) \o r = d \o ((o \o zs) \o r)
    <3> DEFINE oz == o \o zs
    <3>1. oz \in Seq(S)
      BY <1>7
    <3> HIDE DEF oz
    <3>2. Associate(d, oz, r)
      BY <1>7, <3>1, JoinsAssociate, Zenon
    <3>. QED  BY <3>2, Zenon DEF oz, Associate
  <2>3. (d \o o) \o zs = d \o (o \o zs)
    <3>1. Associate(d, o, zs)
      BY <1>7, JoinsAssociate, Zenon
    <3>. QED  BY <3>1, Zenon DEF Associate
  <2>. QED  BY <2>1, <2>2, <2>3, Zenon
<1>9. StandardSha(d) = Cut(d \o o \o zs \o r, ShaBlock)
  <2>1. StandardZeros(Len(d)) = z
    BY <1>3, Zenon DEF n
  <2>. QED  BY <2>1, Zenon DEF StandardSha, StandardZeros, o, zs, r, n
<1>. QED  BY <1>6, <1>8, <1>9

\* A message in blocks, the last of which may be short.
LEMMA PolyCuts ==
  ASSUME NEW S, NEW d \in Seq(S), NEW s, NEW q, Absorbed(s, d, q)
  PROVE  /\ Len(s.buf) = 0 => Len(Cut(d, PolyBlock)) = q
         /\ Len(s.buf) # 0 => Len(Cut(d, PolyBlock)) = q + 1 /\ Cut(d, PolyBlock)[q + 1] = s.buf
         /\ \A i \in 1 .. q : Cut(d, PolyBlock)[i] = Piece(d, (i - 1) * PolyBlock, PolyBlock)
         /\ q \in Nat
<1> DEFINE B == PolyBlock
           l == Len(d)
           a == q * B
           r == l - a
           n == (l + B - 1) \div B
           F(i) == SubSeq(d, (i - 1) * B + 1, Min({i * B, l}))
           cut == Cut(d, B)
<1>1. B \in Nat \ {0} /\ l \in Nat /\ q \in Nat /\ a \in Nat /\ r \in 0 .. B - 1 /\ Len(s.buf) = r
  BY PolySize, AbsorbedTypes DEF Absorbed
<1>2. s.buf = [k \in 1 .. r |-> d[a + k]]
  BY DEF Absorbed
<1>3. cut = [i \in 1 .. n |-> F(i)]
  BY Zenon DEF Cut
<1>4. (r = 0 => n = q) /\ (r # 0 => n = q + 1)
  <2>1. (q + 1) * B = a + B
    <3>1. (q + 1) * B = q * B + 1 * B /\ 1 * B = B
      BY <1>1, Multiples
    <3>. QED  BY <3>1
  <2>2. ASSUME r = 0  PROVE n = q
    <3>1. B - 1 \in 0 .. B - 1
      BY <1>1
    <3>2. (q * B + (B - 1)) \div B = q
      BY <1>1, <3>1, QuotientIs
    <3> HIDE DEF a, l
    <3>3. l + B - 1 = a + (B - 1)
      BY <1>1, <2>2
    <3>. QED  BY <3>2, <3>3 DEF a
  <2>3. ASSUME r # 0  PROVE n = q + 1
    <3>1. r - 1 \in 0 .. B - 1 /\ q + 1 \in Nat
      <4> HIDE DEF r, a, l, B
      <4>. QED  BY <1>1, <2>3
    <3>2. ((q + 1) * B + (r - 1)) \div B = q + 1
      BY <1>1, <3>1, QuotientIs
    <3> DEFINE b == (q + 1) * B
    <3> HIDE DEF a, l, b
    <3>3. l + B - 1 = b + (r - 1)
      BY <1>1, <2>1 DEF b
    <3>. QED  BY <3>2, <3>3 DEF b
  <2>. QED  BY <2>2, <2>3
<1> HIDE DEF a, n, cut, l
<1>5. n \in Nat
  BY <1>1, <1>4
<1>6. Len(cut) = n /\ \A i \in 1 .. n : cut[i] = F(i)
  <2> HIDE DEF F
  <2>. QED  BY <1>3, <1>5
<1>7. ASSUME NEW i \in 1 .. q  PROVE cut[i] = Piece(d, (i - 1) * B, B)
  <2> DEFINE b == (i - 1) * B
             c == i * B
  <2>1. i \in Nat \ {0} /\ i <= q
    BY <1>1
  <2>2. c = b + B /\ b \in Nat /\ c \in Nat
    BY <1>1, <2>1, Before, Multiples
  <2>3. c <= a
    BY <1>1, <2>1, Multiples DEF a
  <2> HIDE DEF b, c
  <2>4. c <= l
    BY <1>1, <2>2, <2>3
  <2>5. Min({c, l}) = b + B
    <3>1. Min({c, l}) = IF c <= l THEN c ELSE l
      BY <1>1, <2>2, MinOfTwo
    <3>. QED  BY <2>2, <2>4, <3>1
  <2>6. b + B <= Len(d)
    BY <2>2, <2>4 DEF l
  <2>7. SubSeq(d, b + 1, b + B) = [k \in 1 .. B |-> d[b + k]]
    BY <1>1, <2>2, <2>6, PartOf
  <2>8. cut[i] = F(i)
    <3> HIDE DEF F, r, B
    <3>1. i \in 1 .. n
      BY <1>1, <1>4
    <3>. QED  BY <1>6, <3>1
  <2>. QED  BY <2>5, <2>7, <2>8, Zenon DEF b, c, Piece
<1>8. ASSUME r # 0  PROVE cut[q + 1] = s.buf
  <2>1. PICK i : i = q + 1
    OBVIOUS
  <2>2. i - 1 = q /\ i \in 1 .. n /\ i \in Nat
    BY <1>1, <1>4, <1>8, <2>1
  <2>3. cut[i] = SubSeq(d, a + 1, Min({i * B, l}))
    BY <1>6, <2>2 DEF a
  <2>4. Min({i * B, l}) = a + r
    <3> DEFINE c == i * B
    <3>1. c = a + B /\ c \in Nat
      <4>1. (q + 1) * B = q * B + 1 * B /\ 1 * B = B
        BY <1>1, Multiples
      <4>2. c = a + B
        BY <2>1, <4>1 DEF a
      <4> HIDE DEF c
      <4>. QED  BY <1>1, <4>2
    <3> HIDE DEF c
    <3>2. Min({c, l}) = IF c <= l THEN c ELSE l
      BY <1>1, <3>1, MinOfTwo
    <3>3. l = a + r
      BY <1>1
    <3>4. Min({c, l}) = a + r
      BY <1>1, <3>1, <3>2, <3>3
    <3>. QED  BY <3>4 DEF c
  <2>5. r \in Nat /\ a + r <= Len(d)
    BY <1>1 DEF l
  <2> HIDE DEF r
  <2>6. SubSeq(d, a + 1, a + r) = [k \in 1 .. r |-> d[a + k]]
    BY <1>1, <2>5, PartOf
  <2>. QED  BY <1>2, <2>1, <2>3, <2>4, <2>6
<1>. QED  BY <1>1, <1>4, <1>6, <1>7, <1>8 DEF cut

LEMMA PolyIsStandard ==
  ASSUME NEW S, NEW d \in Seq(S), NEW s, NEW q, Absorbed(s, d, q)
  PROVE  PolyFinish(s) = StandardPoly(d)
<1> DEFINE cut == Cut(d, PolyBlock)
           Block(b) == IF Len(b) = PolyBlock THEN [bytes |-> b, hibit |-> TRUE]
                       ELSE [bytes |-> b \o <<Byte(1)>> \o Zeros(PolyBlock - Len(b) - 1), hibit |-> FALSE]
           last == [bytes |-> s.buf \o <<Byte(1)>> \o Zeros(PolyBlock - Len(s.buf) - 1), hibit |-> FALSE]
           F(i) == BlockAt(d, (i - 1) * PolyBlock)
<1>1. /\ (Len(s.buf) = 0 => Len(cut) = q) /\ (Len(s.buf) # 0 => Len(cut) = q + 1 /\ cut[q + 1] = s.buf)
      /\ (\A i \in 1 .. q : cut[i] = Piece(d, (i - 1) * PolyBlock, PolyBlock)) /\ q \in Nat
  BY PolyCuts
<1>2. /\ s.blocks = [i \in 1 .. q |-> F(i)] /\ s.blocks \in Seq(PolyData(S)) /\ Len(s.blocks) = q
      /\ s.buf \in Seq(S) /\ Len(s.buf) \in 0 .. PolyBlock - 1
  <2>1. s.blocks = [i \in 1 .. q |-> F(i)]
    BY DEF Absorbed
  <2>. QED  BY <2>1, AbsorbedTypes
<1>3. StandardPoly(d) = [i \in 1 .. Len(cut) |-> Block(cut[i])]
  BY Zenon DEF StandardPoly
<1> HIDE DEF cut
<1>4. ASSUME NEW i \in 1 .. q  PROVE Block(cut[i]) = F(i)
  <2> DEFINE b == Piece(d, (i - 1) * PolyBlock, PolyBlock)
  <2>1. b = [k \in 1 .. PolyBlock |-> d[(i - 1) * PolyBlock + k]]
    BY Zenon DEF Piece
  <2> HIDE DEF b
  <2>2. Len(b) = PolyBlock
    BY <2>1, PolySize
  <2>3. cut[i] = b
    BY <1>1 DEF b
  <2>4. Block(cut[i]) = [bytes |-> b, hibit |-> TRUE]
    BY <2>2, <2>3, Zenon
  <2>5. F(i) = [bytes |-> b, hibit |-> TRUE]
    BY <2>1, Zenon DEF BlockAt
  <2>. QED  BY <2>4, <2>5
<1>5. Len(s.buf) # 0 => Block(s.buf) = last
  <2>1. Len(s.buf) # PolyBlock
    BY <1>2, PolySize
  <2>. QED  BY <2>1, Zenon
<1> HIDE DEF Block, F
<1>6. CASE Len(s.buf) = 0
  <2>1. s.buf = <<>>
    BY <1>2, <1>6, EmptySeq
  <2>2. PolyFinish(s) = [i \in 1 .. q |-> F(i)]
    BY <1>2, <2>1, Zenon DEF PolyFinish
  <2>3. StandardPoly(d) = [i \in 1 .. q |-> Block(cut[i])]
    BY <1>1, <1>3, <1>6
  <2>4. [i \in 1 .. q |-> Block(cut[i])] = [i \in 1 .. q |-> F(i)]
    BY <1>4
  <2>. QED  BY <2>2, <2>3, <2>4, Zenon
<1>7. CASE Len(s.buf) # 0
  <2>1. s.buf # <<>>
    BY <1>7
  <2>2. PolyFinish(s) = Append(s.blocks, last)
    BY <2>1, Zenon DEF PolyFinish, PolyAdd
  <2> HIDE DEF last
  <2> DEFINE R == PolyData(S) \cup {last}
             c == s.blocks
             g == Append(c, last)
  <2>3. c \in Seq(R) /\ last \in R /\ Len(c) = q
    <3> DEFINE P == PolyData(S)
    <3>1. c \in Seq(P) /\ Len(c) = q
      BY <1>2
    <3> HIDE DEF P, c
    <3>2. c \in Seq(P \cup {last})
      BY <3>1
    <3>. QED  BY <3>1, <3>2 DEF P
  <2> HIDE DEF c, R
  <2>4. /\ Append(c, last) \in Seq(R) /\ Len(Append(c, last)) = Len(c) + 1
        /\ \A i \in 1 .. Len(c) : Append(c, last)[i] = c[i]
        /\ Append(c, last)[Len(c) + 1] = last
    BY <2>3, Appended, Zenon
  <2>5. /\ g \in Seq(R) /\ Len(g) = q + 1 /\ (\A i \in 1 .. q : g[i] = c[i]) /\ g[q + 1] = last
    BY <2>3, <2>4, Zenon
  <2> HIDE DEF g
  <2>6. ASSUME NEW i \in 1 .. q + 1  PROVE g[i] = Block(cut[i])
    <3>1. CASE i = q + 1
      BY <1>1, <1>5, <1>7, <2>5, <3>1
    <3>2. CASE i # q + 1
      <4>1. i \in 1 .. q
        BY <1>1, <3>2
      <4>2. c[i] = F(i)
        BY <1>2, <4>1 DEF c
      <4>. QED  BY <1>4, <2>5, <4>1, <4>2
    <3>. QED  BY <3>1, <3>2
  <2>7. g = [i \in 1 .. q + 1 |-> Block(cut[i])]
    BY <2>5, <2>6
  <2>8. StandardPoly(d) = [i \in 1 .. q + 1 |-> Block(cut[i])]
    BY <1>1, <1>3, <1>7
  <2>. QED  BY <2>2, <2>7, <2>8 DEF g, c
<1>. QED  BY <1>6, <1>7

LEMMA TextJoins ==
  ASSUME NEW n \in Nat, NEW m \in Nat
  PROVE  /\ Text(n + 1, n + m) \in Seq(Bytes)
         /\ Text(1, n) \o Text(n + 1, n + m) = Text(1, n + m)
<1> DEFINE d == Text(1, n)
           x == Text(n + 1, n + m)
           D == Text(1, n + m)
           j == d \o x
<1>1. d \in Seq(Bytes) /\ Len(d) = n /\ D \in Seq(Bytes) /\ Len(D) = n + m
  BY TextIs
<1>2. x = [i \in 1 .. m |-> Byte(n + i)] /\ d = [i \in 1 .. n |-> Byte(i)] /\ D = [i \in 1 .. n + m |-> Byte(i)]
  <2> HIDE DEF Byte
  <2>1. n + m - (n + 1) + 1 = m /\ n - 1 + 1 = n /\ n + m - 1 + 1 = n + m
    OBVIOUS
  <2>2. (\A i \in 1 .. m : n + 1 + i - 1 = n + i) /\ (\A i \in 1 .. n + m : 1 + i - 1 = i)
    OBVIOUS
  <2>. QED  BY <2>1, <2>2 DEF Text
<1> HIDE DEF d, x, D
<1>3. x \in Seq(Bytes) /\ Len(x) = m
  <2>1. \A i \in 1 .. m : Byte(n + i) \in Bytes
    BY ByteIs
  <2>. QED  BY <1>2, <2>1
<1>4. j \in Seq(Bytes) /\ IsJoin(j, d, x)
  BY <1>1, <1>3, JoinIs, Zenon
<1> HIDE DEF j
<1>5. /\ Len(j) = n + m /\ (\A i \in 1 .. n : j[i] = d[i]) /\ (\A i \in 1 .. m : j[n + i] = x[i])
  BY <1>1, <1>3, <1>4 DEF IsJoin
<1>6. ASSUME NEW k \in 1 .. n + m  PROVE j[k] = D[k]
  <2>1. CASE k \in 1 .. n
    BY <1>2, <1>5, <2>1
  <2>2. CASE k \notin 1 .. n
    <3>1. k - n \in 1 .. m /\ n + (k - n) = k
      BY <2>2
    <3>2. j[n + (k - n)] = x[k - n] /\ x[k - n] = Byte(n + (k - n))
      BY <1>2, <1>5, <3>1
    <3>. QED  BY <1>2, <3>1, <3>2
  <2>. QED  BY <2>1, <2>2
<1>7. j = D
  BY <1>1, <1>4, <1>5, <1>6
<1>. QED  BY <1>3, <1>7 DEF j, d, x, D
-----------------------------------------------------------------------------
(* BLAKE3. The stack holds whole subtrees of falling sizes, so that every    *)
(* merge and the last fold join just the halves the paper's tree has.        *)

\* What holds at first and is passed on holds to the end.
LEMMA Climb ==
  ASSUME NEW n \in Nat, NEW T, 0 \in T, \A i \in 1 .. n : i - 1 \in T => i \in T
  PROVE  \A i \in 0 .. n : i \in T
<1> DEFINE R == {i \in 0 .. n : i \notin T}
<1>1. SUFFICES ASSUME R # {}  PROVE FALSE
  OBVIOUS
<1>2. PICK m \in R : \A k \in R : m <= k
  <2>1. R \subseteq Nat
    OBVIOUS
  <2> HIDE DEF R
  <2>. QED  BY <1>1, <2>1, LeastNatural
<1>3. m \in 1 .. n /\ m - 1 \in 0 .. n /\ ~ (m <= m - 1)
  BY <1>2
<1>4. m - 1 \in T
  BY <1>2, <1>3
<1>. QED  BY <1>2, <1>3, <1>4

Multiple(a, w) == \E q \in Nat : a = q * w

LEMMA MultipleIs ==
  ASSUME NEW a \in Nat, NEW w \in Nat \ {0}
  PROVE  Multiple(a, w) <=> a % w = 0
<1>1. ASSUME NEW q \in Nat, a = q * w  PROVE a % w = 0
  <2>1. 0 \in 0 .. w - 1
    OBVIOUS
  <2>2. (q * w + 0) % w = 0
    BY <2>1, QuotientIs
  <2>3. q * w + 0 = a
    BY <1>1
  <2>. QED  BY <2>2, <2>3
<1>2. ASSUME a % w = 0  PROVE Multiple(a, w)
  <2> DEFINE q == a \div w
             b == q * w
  <2>1. q \in Nat /\ a = b + (a % w)
    BY Quotient
  <2> HIDE DEF q
  <2>2. b \in Nat
    BY <2>1, Multiples
  <2> HIDE DEF b
  <2>3. a = b
    BY <1>2, <2>1, <2>2
  <2>. QED  BY <2>1, <2>3 DEF Multiple, b
<1>. QED  BY <1>1, <1>2 DEF Multiple

LEMMA MultipleSums ==
  ASSUME NEW a \in Nat, NEW b \in Nat, NEW w \in Nat, Multiple(a, w), Multiple(b, w)
  PROVE  Multiple(a + b, w) /\ (b <= a => Multiple(a - b, w))
<1>1. PICK i \in Nat : a = i * w
  BY DEF Multiple
<1>2. PICK j \in Nat : b = j * w
  BY DEF Multiple
<1>3. (i + j) * w = i * w + j * w
  BY Multiples
<1>4. i + j \in Nat
  OBVIOUS
<1>5. Multiple(a + b, w)
  BY <1>1, <1>2, <1>3, <1>4 DEF Multiple
<1>6. ASSUME b <= a  PROVE Multiple(a - b, w)
  <2>1. CASE i < j
    <3>1. i <= j
      BY <2>1
    <3>2. i * w <= j * w
      BY <3>1, Multiples
    <3>3. a - b = 0
      BY <1>1, <1>2, <1>6, <3>2
    <3>4. 0 * w = 0
      BY Multiples
    <3>. QED  BY <3>3, <3>4 DEF Multiple
  <2>2. CASE ~ (i < j)
    <3> DEFINE k == i - j
    <3>1. k \in Nat /\ i = k + j
      BY <2>2
    <3> HIDE DEF k
    <3>2. (k + j) * w = k * w + j * w /\ k * w \in Nat
      BY <3>1, Multiples
    <3> DEFINE c == k * w
    <3>3. a = c + b /\ c \in Nat
      BY <1>1, <1>2, <3>1, <3>2
    <3> HIDE DEF c
    <3>4. a - b = c
      BY <3>3
    <3>. QED  BY <3>1, <3>4 DEF Multiple, c
  <2>. QED  BY <2>1, <2>2
<1>. QED  BY <1>5, <1>6

LEMMA MultipleLeft ==
  ASSUME NEW m \in Nat, NEW e \in Nat, NEW w \in Nat \ {0}, e <= m + 1,
         Multiple(m + 1, 2 * w), Multiple(e, 2 * w)
  PROVE  Multiple((m + 1) - e, 2 * w)
<1>1. m + 1 \in Nat /\ 2 * w \in Nat
  OBVIOUS
<1>. QED  BY <1>1, MultipleSums

LEMMA MultipleOfMultiple ==
  ASSUME NEW a \in Nat, NEW b \in Nat, NEW c \in Nat, Multiple(a, b), Multiple(b, c)
  PROVE  Multiple(a, c)
<1>1. PICK i \in Nat : a = i * b
  BY DEF Multiple
<1>2. PICK j \in Nat : b = j * c
  BY DEF Multiple
<1>3. i * (j * c) = (i * j) * c /\ i * j \in Nat
  OBVIOUS
<1>. QED  BY <1>1, <1>2, <1>3 DEF Multiple

LEMMA MultipleOfSelf ==
  ASSUME NEW w \in Nat \ {0}
  PROVE  /\ Multiple(0, w) /\ Multiple(w, w) /\ Multiple(2 * w, w) /\ Multiple(w + w, 2 * w)
         /\ ~ Multiple(w, 2 * w)
<1>1. 0 * w = 0 /\ 1 * w = w /\ 1 * (2 * w) = w + w
  OBVIOUS
<1>2. ASSUME Multiple(w, 2 * w)  PROVE FALSE
  <2>1. PICK q \in Nat : w = q * (2 * w)
    BY <1>2 DEF Multiple
  <2>2. CASE q = 0
    <3>1. 0 * (2 * w) = 0
      OBVIOUS
    <3>. QED  BY <2>1, <2>2, <3>1
  <2>3. CASE q # 0
    <3>1. 1 <= q /\ 2 * w \in Nat
      BY <2>3
    <3>2. 1 * (2 * w) <= q * (2 * w)
      BY <3>1, Multiples
    <3> DEFINE c == q * (2 * w)
    <3>3. 2 * w <= c
      BY <3>2
    <3> HIDE DEF c
    <3>. QED  BY <2>1, <3>3 DEF c
  <2>. QED  BY <2>2, <2>3
<1>. QED  BY <1>1, <1>2 DEF Multiple

Power(k) == k \in Nat \ {0} /\ IsPower(k)

LEMMA PowerOfOne == Power(1)
BY DEF Power, IsPower

LEMMA PowerHalves ==
  ASSUME NEW k, Power(k), k # 1
  PROVE  \E h \in Nat \ {0} : k = 2 * h /\ Power(h)
<1>1. k \in Nat \ {0} /\ k \in 2 .. k /\ \A d \in 2 .. k : k % d = 0 => d % 2 = 0
  BY DEF Power, IsPower
<1>2. k % k = 0
  <2>1. Multiple(k, k)
    BY <1>1, MultipleOfSelf
  <2>. QED  BY <1>1, <2>1, MultipleIs
<1>3. k % 2 = 0
  BY <1>1, <1>2
<1> DEFINE h == k \div 2
<1>4. h \in Nat \ {0} /\ k = 2 * h
  BY <1>1, <1>3
<1> HIDE DEF h
<1>5. ASSUME NEW d \in 2 .. h, h % d = 0  PROVE d % 2 = 0
  <2>1. d \in Nat \ {0} /\ d \in 2 .. k
    BY <1>4
  <2>2. Multiple(h, d)
    BY <1>4, <1>5, <2>1, MultipleIs
  <2>3. Multiple(h + h, d)
    BY <1>4, <2>1, <2>2, MultipleSums
  <2>4. h + h = k
    BY <1>4
  <2>5. k % d = 0
    BY <1>1, <2>1, <2>3, <2>4, MultipleIs
  <2>. QED  BY <1>1, <2>1, <2>5
<1>. QED  BY <1>4, <1>5 DEF Power, IsPower

LEMMA PowerDoubles ==
  ASSUME NEW k, Power(k)
  PROVE  Power(2 * k)
<1>1. k \in Nat \ {0} /\ 2 * k \in Nat \ {0} /\ \A d \in 2 .. k : k % d = 0 => d % 2 = 0
  BY DEF Power, IsPower
<1>2. ASSUME NEW d \in 2 .. 2 * k, (2 * k) % d = 0, d % 2 # 0  PROVE FALSE
  <2>1. d \in Nat \ {0}
    OBVIOUS
  <2>2. PICK q \in Nat : 2 * k = q * d
    BY <1>1, <1>2, <2>1, MultipleIs DEF Multiple
  <2>3. PICK e \in Nat : d = 2 * e + 1
    <3>1. d = 2 * (d \div 2) + 1 /\ d \div 2 \in Nat
      BY <1>2, <2>1
    <3>. QED  BY <3>1
  <2> DEFINE a == q * e
  <2>4. a \in Nat /\ q * d = 2 * a + q
    <3>1. q * (2 * e + 1) = 2 * (q * e) + q /\ q * e \in Nat
      OBVIOUS
    <3>. QED  BY <2>3, <3>1
  <2> HIDE DEF a
  <2>5. PICK r \in Nat : q = 2 * r
    <3>1. q % 2 = 0
      <4> DEFINE z == q * d
      <4> HIDE DEF z
      <4>1. 2 * k = z /\ z = 2 * a + q
        BY <2>2, <2>4 DEF z
      <4>. QED  BY <1>1, <2>4, <4>1
    <3>2. q = 2 * (q \div 2) /\ q \div 2 \in Nat
      BY <3>1
    <3>. QED  BY <3>2
  <2>6. k = r * d
    <3>1. (2 * r) * d = 2 * (r * d) /\ r * d \in Nat
      BY <2>1
    <3> DEFINE z == r * d
    <3>2. 2 * k = 2 * z /\ z \in Nat
      BY <2>2, <2>5, <3>1
    <3> HIDE DEF z
    <3>3. k = z
      BY <1>1, <3>2
    <3>. QED  BY <3>3 DEF z
  <2>7. k % d = 0
    <3>1. Multiple(k, d)
      BY <2>6 DEF Multiple
    <3>. QED  BY <1>1, <2>1, <3>1, MultipleIs
  <2>8. d <= k
    <3>1. r # 0
      <4>1. 0 * d = 0
        BY <2>1
      <4>. QED  BY <1>1, <2>6, <4>1
    <3>2. 1 * d <= r * d /\ 1 * d = d
      BY <2>1, <3>1, Multiples
    <3>. QED  BY <2>6, <3>2
  <2>. QED  BY <1>1, <1>2, <2>1, <2>7, <2>8
<1>. QED  BY <1>1, <1>2 DEF Power, IsPower

\* Of two powers, the larger is a multiple of twice the smaller.
LEMMA PowersNest ==
  ASSUME NEW w, NEW z, Power(w), Power(z), w < z
  PROVE  Multiple(z, 2 * w)
<1> DEFINE T == {i \in Nat : \A x, y : Power(x) /\ Power(y) /\ x < y /\ y <= i => Multiple(y, 2 * x)}
<1>1. w \in Nat \ {0} /\ z \in Nat \ {0}
  BY DEF Power
<1>2. 0 \in T
  <2>1. ASSUME NEW x, NEW y, Power(x), Power(y), x < y, y <= 0  PROVE FALSE
    BY <2>1 DEF Power
  <2>. QED  BY <2>1
<1>3. ASSUME NEW i \in 1 .. z, i - 1 \in T  PROVE i \in T
  <2>1. SUFFICES ASSUME NEW x, NEW y, Power(x), Power(y), x < y, y <= i  PROVE Multiple(y, 2 * x)
    OBVIOUS
  <2>2. x \in Nat \ {0} /\ y \in Nat \ {0}
    BY <2>1 DEF Power
  <2>3. PICK h \in Nat \ {0} : y = 2 * h /\ Power(h)
    <3>1. y # 1
      BY <2>1, <2>2
    <3>. QED  BY <2>1, <3>1, PowerHalves
  <2>4. CASE x = 1
    <3>1. Multiple(2 * h, h) /\ 2 * h = h * 2
      BY MultipleOfSelf
    <3>2. 2 * x = 2
      BY <2>4
    <3>. QED  BY <2>3, <3>1, <3>2 DEF Multiple
  <2>5. CASE x # 1
    <3>1. PICK g \in Nat \ {0} : x = 2 * g /\ Power(g)
      BY <2>1, <2>5, PowerHalves
    <3>2. g < h /\ h <= i - 1
      BY <2>1, <2>3, <3>1
    <3>3. Multiple(h, 2 * g)
      BY <1>3, <2>3, <3>1, <3>2
    <3>4. PICK q \in Nat : h = q * (2 * g)
      BY <3>3 DEF Multiple
    <3>5. 2 * (q * (2 * g)) = q * (2 * (2 * g))
      OBVIOUS
    <3>6. y = q * (2 * x)
      BY <2>3, <3>1, <3>4, <3>5
    <3>. QED  BY <3>6 DEF Multiple
  <2>. QED  BY <2>4, <2>5
<1> HIDE DEF T
<1>4. z \in T
  <2>1. \A i \in 0 .. z : i \in T
    BY <1>1, <1>2, <1>3, Climb
  <2>. QED  BY <1>1, <2>1
<1>. QED  BY <1>1, <1>4 DEF T

\* LeftSize(n) is the one power that is less than n and no less than half of it.
LEMMA LeftSizeIs ==
  ASSUME NEW n \in Nat, n > 1
  PROVE  /\ LeftSize(n) \in 1 .. n - 1
         /\ \A k : Power(k) /\ k < n /\ n <= 2 * k => k = LeftSize(n)
<1> DEFINE IsLeft(m, k) == Power(k) /\ k < m /\ m <= 2 * k
           T == {i \in Nat : i > 1 => \E k : IsLeft(i, k)}
<1>1. 0 \in T
  OBVIOUS
<1>2. ASSUME NEW i \in 1 .. n, i - 1 \in T  PROVE i \in T
  <2>1. CASE i = 1
    BY <2>1
  <2>2. CASE i = 2
    <3>1. IsLeft(2, 1)
      BY PowerOfOne
    <3>. QED  BY <2>2, <3>1
  <2>3. CASE i > 2
    <3>1. i - 1 > 1
      BY <2>3
    <3>2. PICK k : IsLeft(i - 1, k)
      BY <1>2, <3>1
    <3>3. k \in Nat \ {0}
      BY <3>2 DEF Power
    <3>4. CASE i <= 2 * k
      <4>1. k < i
        BY <3>2, <3>3
      <4>2. IsLeft(i, k)
        BY <3>2, <3>4, <4>1
      <4>. QED  BY <4>2
    <3>5. CASE ~ (i <= 2 * k)
      <4>1. 2 * k < i /\ i <= 2 * (2 * k)
        BY <3>2, <3>3, <3>5
      <4>2. Power(2 * k)
        BY <3>2, PowerDoubles
      <4>3. IsLeft(i, 2 * k)
        BY <4>1, <4>2
      <4>. QED  BY <4>3
    <3>. QED  BY <3>4, <3>5
  <2>. QED  BY <2>1, <2>2, <2>3
<1> HIDE DEF T
<1>3. n \in T
  <2>1. \A i \in 0 .. n : i \in T
    BY <1>1, <1>2, Climb
  <2>. QED  BY <2>1
<1>4. PICK h : IsLeft(n, h)
  BY <1>3 DEF T
<1> DEFINE k == LeftSize(n)
<1>5. k \in 1 .. n /\ k < n /\ n <= 2 * k /\ IsPower(k)
  <2>1. h \in 1 .. n /\ h < n /\ n <= 2 * h /\ IsPower(h)
    BY <1>4 DEF Power
  <2>. QED  BY <2>1, Zenon DEF LeftSize
<1> HIDE DEF k
<1>6. ASSUME NEW j, Power(j), j < n, n <= 2 * j  PROVE j = k
  <2>1. j \in Nat \ {0} /\ k \in Nat \ {0} /\ Power(k)
    BY <1>5, <1>6 DEF Power
  <2>2. ASSUME NEW x \in Nat \ {0}, NEW y \in Nat \ {0}, Power(x), Power(y), x < y, y < n, n <= 2 * x  PROVE FALSE
    <3>1. Multiple(y, 2 * x)
      BY <2>2, PowersNest
    <3>2. PICK q \in Nat : y = q * (2 * x)
      BY <3>1 DEF Multiple
    <3>3. q # 0
      <4>1. 0 * (2 * x) = 0
        OBVIOUS
      <4>. QED  BY <3>2, <4>1
    <3>4. 1 <= q /\ 2 * x \in Nat
      BY <3>3
    <3>5. 1 * (2 * x) <= q * (2 * x)
      BY <3>4, Multiples
    <3>6. 1 * (2 * x) = 2 * x
      OBVIOUS
    <3>7. 2 * x <= y
      BY <3>2, <3>5, <3>6
    <3>. QED  BY <2>2, <3>7
  <2>. QED  BY <1>5, <1>6, <2>1, <2>2
<1>. QED  BY <1>5, <1>6 DEF k

-----------------------------------------------------------------------------
(* The tree over a sequence of leaves. *)

TreeNode(T, l, n, i) ==
  IF n = 1 THEN l[i]
  ELSE ParentOutput(Chained(T[LeftSize(n)][i]), Chained(T[n - LeftSize(n)][i + LeftSize(n)]))

IsTree(T, l, m) == T = [n \in 1 .. m |-> [i \in 1 .. Len(l) - n + 1 |-> TreeNode(T, l, n, i)]]

\* A node is made of smaller ones.
LEMMA NodesBelow ==
  ASSUME NEW l, NEW n \in Nat \ {0}, NEW i, NEW T, NEW U, \A k \in 1 .. n - 1 : T[k] = U[k]
  PROVE  TreeNode(T, l, n, i) = TreeNode(U, l, n, i)
<1>1. CASE n = 1
  BY <1>1, Zenon DEF TreeNode
<1>2. CASE n # 1
  <2>1. LeftSize(n) \in 1 .. n - 1
    BY <1>2, LeftSizeIs
  <2> DEFINE k == LeftSize(n)
  <2> HIDE DEF k
  <2>2. n - k \in 1 .. n - 1 /\ k \in 1 .. n - 1
    BY <2>1 DEF k
  <2>3. T[k] = U[k] /\ T[n - k] = U[n - k]
    BY <2>2
  <2>4. /\ TreeNode(T, l, n, i) = ParentOutput(Chained(T[k][i]), Chained(T[n - k][i + k]))
        /\ TreeNode(U, l, n, i) = ParentOutput(Chained(U[k][i]), Chained(U[n - k][i + k]))
    BY <1>2, Zenon DEF TreeNode, k
  <2>. QED  BY <2>3, <2>4, Zenon
<1>. QED  BY <1>1, <1>2

LEMMA TreesExist ==
  ASSUME NEW l, Len(l) \in Nat
  PROVE  IsTree(StandardTree(l), l, Len(l))
<1> DEFINE N == Len(l)
           W == {m \in 0 .. N : \E T : IsTree(T, l, m)}
<1>1. 0 \in W
  <2>1. IsTree(<<>>, l, 0)
    BY DEF IsTree
  <2>. QED  BY <2>1
<1>2. ASSUME NEW m \in 1 .. N, m - 1 \in W  PROVE m \in W
  <2>1. PICK T : IsTree(T, l, m - 1)
    BY <1>2
  <2> DEFINE Row(n) == [i \in 1 .. N - n + 1 |-> TreeNode(T, l, n, i)]
             g == [n \in 1 .. m |-> IF n < m THEN T[n] ELSE Row(m)]
  <2>2. ASSUME NEW n \in 1 .. m - 1  PROVE T[n] = Row(n)
    <3> HIDE DEF Row
    <3>1. T = [k \in 1 .. m - 1 |-> Row(k)]
      BY <2>1, Zenon DEF IsTree, Row
    <3>. QED  BY <3>1
  <2> HIDE DEF Row
  <2>3. ASSUME NEW n \in 1 .. m  PROVE g[n] = Row(n)
    BY <2>2
  <2>4. ASSUME NEW n \in 1 .. m, NEW i  PROVE TreeNode(T, l, n, i) = TreeNode(g, l, n, i)
    <3>1. \A k \in 1 .. n - 1 : T[k] = g[k]
      OBVIOUS
    <3>2. n \in Nat \ {0}
      OBVIOUS
    <3> HIDE DEF g
    <3>. QED  BY <3>1, <3>2, NodesBelow
  <2>5. ASSUME NEW n \in 1 .. m  PROVE g[n] = [i \in 1 .. N - n + 1 |-> TreeNode(g, l, n, i)]
    <3> HIDE DEF g
    <3>1. g[n] = [i \in 1 .. N - n + 1 |-> TreeNode(T, l, n, i)]
      BY <2>3, Zenon DEF Row
    <3>2. \A i \in 1 .. N - n + 1 : TreeNode(T, l, n, i) = TreeNode(g, l, n, i)
      BY <2>4
    <3> HIDE DEF N
    <3>. QED  BY <3>1, <3>2
  <2>6. g = [n \in 1 .. m |-> g[n]]
    OBVIOUS
  <2> HIDE DEF g
  <2>7. g = [n \in 1 .. m |-> [i \in 1 .. N - n + 1 |-> TreeNode(g, l, n, i)]]
    BY <2>5, <2>6
  <2>8. IsTree(g, l, m)
    BY <2>7, Zenon DEF IsTree
  <2>. QED  BY <2>8
<1> HIDE DEF W
<1>3. N \in W
  <2>1. \A m \in 0 .. N : m \in W
    BY <1>1, <1>2, Climb
  <2>. QED  BY <2>1
<1>4. PICK T : IsTree(T, l, N)
  BY <1>3 DEF W
<1> DEFINE S(U) == [n \in 1 .. N |-> [i \in 1 .. N - n + 1 |->
                      IF n = 1 THEN l[i]
                      ELSE ParentOutput(Chained(U[LeftSize(n)][i]), Chained(U[n - LeftSize(n)][i + LeftSize(n)]))]]
<1>5. T = S(T)
  BY <1>4, Zenon DEF IsTree, TreeNode
<1>6. StandardTree(l) = CHOOSE U : U = S(U)
  BY Zenon DEF StandardTree
<1>7. StandardTree(l) = S(StandardTree(l))
  <2> HIDE DEF S
  <2>. QED  BY <1>5, <1>6
<1>. QED  BY <1>7, Zenon DEF IsTree, TreeNode

LEMMA TreeAt ==
  ASSUME NEW l, Len(l) \in Nat, NEW n \in 1 .. Len(l), NEW i \in 1 .. Len(l) - n + 1
  PROVE  StandardTree(l)[n][i] = TreeNode(StandardTree(l), l, n, i)
<1> DEFINE T == StandardTree(l)
           Row(k) == [j \in 1 .. Len(l) - k + 1 |-> TreeNode(T, l, k, j)]
<1>1. IsTree(T, l, Len(l))
  BY TreesExist
<1> HIDE DEF T
<1>2. T = [k \in 1 .. Len(l) |-> Row(k)]
  BY <1>1, Zenon DEF IsTree
<1>3. T[n] = Row(n)
  <2> HIDE DEF Row
  <2>. QED  BY <1>2
<1>. QED  BY <1>3 DEF T

\* Trees over what stays are those there were.
LEMMA TreesStay ==
  ASSUME NEW l, NEW h, Len(l) \in Nat, Len(h) \in Nat, Len(l) <= Len(h), \A i \in 1 .. Len(l) : h[i] = l[i]
  PROVE  \A n \in 1 .. Len(l) : \A i \in 1 .. Len(l) - n + 1 : StandardTree(h)[n][i] = StandardTree(l)[n][i]
<1> DEFINE N == Len(l)
           T == StandardTree(l)
           U == StandardTree(h)
           W == {m \in 0 .. N : \A n \in 1 .. m : \A i \in 1 .. N - n + 1 : U[n][i] = T[n][i]}
<1> HIDE DEF T, U
<1>1. 0 \in W
  OBVIOUS
<1>2. ASSUME NEW m \in 1 .. N, m - 1 \in W  PROVE m \in W
  <2>1. ASSUME NEW i \in 1 .. N - m + 1  PROVE U[m][i] = T[m][i]
    <3>1. T[m][i] = TreeNode(T, l, m, i)
      BY TreeAt DEF T
    <3>2. U[m][i] = TreeNode(U, h, m, i)
      <4>1. m \in 1 .. Len(h) /\ i \in 1 .. Len(h) - m + 1
        OBVIOUS
      <4>. QED  BY <4>1, TreeAt DEF U
    <3>3. CASE m = 1
      <4>1. T[m][i] = l[i] /\ U[m][i] = h[i]
        BY <3>1, <3>2, <3>3, Zenon DEF TreeNode
      <4>2. i \in 1 .. Len(l)
        BY <3>3
      <4>. QED  BY <4>1, <4>2
    <3>4. CASE m # 1
      <4> DEFINE k == LeftSize(m)
      <4>1. k \in 1 .. m - 1
        BY <3>4, LeftSizeIs
      <4>2. /\ T[m][i] = ParentOutput(Chained(T[k][i]), Chained(T[m - k][i + k]))
            /\ U[m][i] = ParentOutput(Chained(U[k][i]), Chained(U[m - k][i + k]))
        BY <3>1, <3>2, <3>4, Zenon DEF TreeNode
      <4> HIDE DEF k
      <4>3. U[k][i] = T[k][i]
        <5>1. i \in 1 .. N - k + 1
          BY <4>1
        <5>. QED  BY <1>2, <4>1, <5>1
      <4>4. U[m - k][i + k] = T[m - k][i + k]
        <5>1. m - k \in 1 .. m - 1 /\ i + k \in 1 .. N - (m - k) + 1
          BY <4>1
        <5>. QED  BY <1>2, <5>1
      <4>. QED  BY <4>2, <4>3, <4>4, Zenon
    <3>. QED  BY <3>3, <3>4
  <2>2. ASSUME NEW n \in 1 .. m, NEW i \in 1 .. N - n + 1  PROVE U[n][i] = T[n][i]
    <3>1. CASE n = m
      BY <2>1, <3>1
    <3>2. CASE n # m
      <4>1. n \in 1 .. m - 1
        BY <3>2
      <4>. QED  BY <1>2, <4>1
    <3>. QED  BY <3>1, <3>2
  <2>. QED  BY <2>2
<1> HIDE DEF W
<1>3. N \in W
  <2>1. \A m \in 0 .. N : m \in W
    BY <1>1, <1>2, Climb
  <2>. QED  BY <2>1
<1>. QED  BY <1>3 DEF W, T, U

-----------------------------------------------------------------------------
\* A turn of a loop that takes data, or of push_chunk_cv's.
Turn(kind, v) ==
  IF kind = "merge" THEN Merge(v)
  ELSE IF v.rest = <<>> THEN v
  ELSE IF kind = "chunk" THEN ChunkTake(v.state, v.rest)
  ELSE B3Take(v.state, v.rest)

IsTurns(f, kind, b, n) == f = [i \in 0 .. n |-> IF i = 0 THEN b ELSE Turn(kind, f[i - 1])]

LEMMA TurnsExist ==
  ASSUME NEW kind, NEW b, NEW n \in Nat
  PROVE  \E f : IsTurns(f, kind, b, n)
<1> DEFINE W == {m \in 0 .. n : \E f : IsTurns(f, kind, b, m)}
<1>1. 0 \in W
  <2>1. IsTurns([i \in 0 .. 0 |-> b], kind, b, 0)
    BY DEF IsTurns
  <2>. QED  BY <2>1
<1>2. ASSUME NEW m \in 1 .. n, m - 1 \in W  PROVE m \in W
  <2>1. PICK f : IsTurns(f, kind, b, m - 1)
    BY <1>2
  <2>2. \A j \in 0 .. m - 1 : f[j] = IF j = 0 THEN b ELSE Turn(kind, f[j - 1])
    BY <2>1 DEF IsTurns
  <2> DEFINE g == [i \in 0 .. m |-> IF i \in 0 .. m - 1 THEN f[i] ELSE Turn(kind, f[m - 1])]
  <2>3. ASSUME NEW i \in 0 .. m  PROVE g[i] = IF i = 0 THEN b ELSE Turn(kind, g[i - 1])
    <3>1. CASE i \in 0 .. m - 1
      <4>1. i # 0 => i - 1 \in 0 .. m - 1
        BY <3>1
      <4>. QED  BY <2>2, <3>1, <4>1
    <3>2. CASE i = m
      <4>1. i \notin 0 .. m - 1 /\ i # 0 /\ i - 1 = m - 1 /\ i - 1 \in 0 .. m - 1
        BY <3>2
      <4>. QED  BY <4>1
    <3>. QED  BY <3>1, <3>2
  <2>4. IsTurns(g, kind, b, m)
    BY <2>3 DEF IsTurns
  <2>. QED  BY <2>4
<1> HIDE DEF W
<1>3. n \in W
  <2>1. \A m \in 0 .. n : m \in W
    BY <1>1, <1>2, Climb
  <2>. QED  BY <2>1
<1>. QED  BY <1>3 DEF W

-----------------------------------------------------------------------------
\* The stack over the first m of the leaves l: its i-th value stands for those
\* from p[i - 1] to p[i]. It is a whole tree, and larger than what is to its right.
Width(p, i) == p[i] - p[i - 1]

Subtree(l, p, i) == Chained(StandardTree(l)[Width(p, i)][p[i - 1] + 1])

IsSpine(p, k, stack, l, m) ==
  /\ k \in Nat /\ p \in [0 .. k -> Nat] /\ p[0] = 0 /\ p[k] = m
  /\ \A i \in 0 .. k : \A j \in i .. k : p[i] <= p[j]
  /\ \A i \in 1 .. k : Power(Width(p, i)) /\ Multiple(p[i - 1], 2 * Width(p, i)) /\ m - p[i] < Width(p, i)
  /\ stack = [i \in 1 .. k |-> Subtree(l, p, i)]

\* What push_chunk_cv has left, with a tree of w leaves in its hand.
Merging(p, stack, l, m, v, i) ==
  LET w == (m + 1) - p[i] IN
  /\ v.kept = [j \in 1 .. i |-> stack[j]] /\ Power(w)
  /\ v.cv = Chained(StandardTree(l)[w][p[i] + 1])
  /\ v.total \in Nat /\ v.total * w = m + 1

Meets(p, k, i, m) == i \in 1 .. k /\ Width(p, i) = (m + 1) - p[i]

\* An even total: the last value is as wide as what push_chunk_cv holds.
LEMMA WidthsMeet ==
  ASSUME NEW l, NEW m \in Nat, NEW p, NEW k, NEW stack, IsSpine(p, k, stack, l, m),
         NEW i \in 0 .. k, Power((m + 1) - p[i]), Multiple(m + 1, 2 * ((m + 1) - p[i]))
  PROVE  Meets(p, k, i, m)
<1> DEFINE w == (m + 1) - p[i]
<1>0. Power(w) /\ Multiple(m + 1, 2 * w)
  OBVIOUS
<1>1. /\ k \in Nat /\ p \in [0 .. k -> Nat] /\ p[0] = 0 /\ p[k] = m /\ i \in Nat /\ p[i] \in Nat
      /\ w \in Nat \ {0} /\ 2 * w \in Nat \ {0} /\ w = (m + 1) - p[i]
  BY DEF IsSpine, Power
<1> HIDE DEF w
<1>2. i # 0
  <2>1. ASSUME i = 0  PROVE FALSE
    <3>1. w = m + 1
      BY <1>1, <2>1
    <3>. QED  BY <1>0, <1>1, <3>1, MultipleOfSelf
  <2>. QED  BY <2>1
<1>3. i \in 1 .. k /\ i - 1 \in 0 .. k
  BY <1>1, <1>2
<1> DEFINE z == Width(p, i)
           a == p[i - 1]
           e == p[i]
<1>4. /\ a \in Nat /\ z = e - a /\ Power(z) /\ Multiple(a, 2 * z) /\ m - e < z
      /\ z \in Nat \ {0} /\ e \in Nat /\ w = (m + 1) - e
  BY <1>1, <1>3 DEF IsSpine, Width, Power
<1> HIDE DEF z, a, e
<1>5. ASSUME w < z  PROVE FALSE
  <2>1. Multiple(z, 2 * w)
    BY <1>0, <1>4, <1>5, PowersNest
  <2>2. Multiple(2 * z, z) /\ 2 * z \in Nat
    BY <1>4, MultipleOfSelf
  <2>3. Multiple(a, z)
    BY <1>4, <2>2, MultipleOfMultiple
  <2>4. Multiple(a, 2 * w)
    BY <1>1, <1>4, <2>1, <2>3, MultipleOfMultiple
  <2>5. Multiple(a + z, 2 * w)
    BY <1>1, <1>4, <2>1, <2>4, MultipleSums
  <2>6. a + z = e /\ e <= m + 1 /\ m + 1 \in Nat
    BY <1>1, <1>4
  <2>7. Multiple(e, 2 * w)
    BY <2>5, <2>6
  <2>8. Multiple((m + 1) - e, 2 * w)
    BY <1>0, <1>1, <1>4, <2>6, <2>7, MultipleLeft, Zenon
  <2>9. Multiple(w, 2 * w)
    BY <1>4, <2>8
  <2>. QED  BY <1>1, <2>9, MultipleOfSelf
<1>6. z = w
  <2>1. ~ (w < z)
    BY <1>5
  <2>2. w \in Nat /\ z \in Nat /\ m \in Nat /\ e \in Nat /\ w = (m + 1) - e /\ m - e < z
    BY <1>1, <1>4
  <2>. QED  BY <2>1, <2>2
<1>. QED  BY <1>3, <1>6 DEF z, w, Meets

\* Two trees of w leaves make one of twice as many.
Halved(l, w, a) ==
  StandardTree(l)[2 * w][a + 1]
    = ParentOutput(Chained(StandardTree(l)[w][a + 1]), Chained(StandardTree(l)[w][a + w + 1]))

LEMMA HalvesMake ==
  ASSUME NEW l, Len(l) \in Nat, NEW w, Power(w), NEW a \in Nat, a + 2 * w <= Len(l)
  PROVE  Halved(l, w, a)
<1>1. w \in Nat \ {0}
  BY DEF Power
<1> DEFINE T == StandardTree(l)
<1>2. T[2 * w][a + 1] = TreeNode(T, l, 2 * w, a + 1)
  <2>1. 2 * w \in 1 .. Len(l) /\ a + 1 \in 1 .. Len(l) - 2 * w + 1
    BY <1>1
  <2>. QED  BY <2>1, TreeAt
<1> HIDE DEF T
<1>3. LeftSize(2 * w) = w
  <2>1. 2 * w \in Nat /\ 2 * w > 1 /\ w < 2 * w /\ 2 * w <= 2 * w
    BY <1>1
  <2>. QED  BY <2>1, LeftSizeIs
<1>4. 2 * w # 1 /\ 2 * w - w = w /\ a + 1 + w = a + w + 1
  BY <1>1
<1>. QED  BY <1>2, <1>3, <1>4, Zenon DEF TreeNode, T, Halved

\* push_chunk_cv takes the last value off the stack for an even total.
LEMMA MergesOne ==
  ASSUME NEW l, NEW m \in Nat, Len(l) = m + 1, NEW p, NEW k, NEW stack, IsSpine(p, k, stack, l, m),
         NEW i \in 0 .. k, NEW v, Merging(p, stack, l, m, v, i), v.total % 2 # 1
  PROVE  i \in 1 .. k /\ Merging(p, stack, l, m, Merge(v), i - 1)
<1> DEFINE w == (m + 1) - p[i]
           t == v.total \div 2
           a == p[i - 1]
<1>1. /\ v.kept = [j \in 1 .. i |-> stack[j]] /\ Power(w)
      /\ v.cv = Chained(StandardTree(l)[w][p[i] + 1])
      /\ v.total \in Nat /\ v.total * w = m + 1
  BY Zenon DEF Merging
<1> HIDE DEF w
<1>2. w \in Nat \ {0} /\ t \in Nat /\ v.total = 2 * t
  BY <1>1 DEF Power
<1> HIDE DEF t
<1>3. t * (2 * w) = m + 1
  <2>1. (2 * t) * w = t * (2 * w)
    BY <1>2
  <2>. QED  BY <1>1, <1>2, <2>1
<1>4. Multiple(m + 1, 2 * w)
  BY <1>2, <1>3 DEF Multiple
<1>5. i \in 1 .. k /\ Width(p, i) = w
  <2>1. Power((m + 1) - p[i]) /\ Multiple(m + 1, 2 * ((m + 1) - p[i]))
    BY <1>1, <1>4 DEF w
  <2>2. Meets(p, k, i, m)
    BY <2>1, WidthsMeet, Zenon
  <2>. QED  BY <2>2 DEF w, Meets
<1>6. /\ k \in Nat /\ p \in [0 .. k -> Nat] /\ p[i] \in Nat /\ a \in Nat /\ w = p[i] - a
      /\ w = (m + 1) - p[i] /\ stack = [j \in 1 .. k |-> Subtree(l, p, j)]
  <2>1. k \in Nat /\ p \in [0 .. k -> Nat] /\ stack = [j \in 1 .. k |-> Subtree(l, p, j)]
    BY Zenon DEF IsSpine
  <2>2. i - 1 \in 0 .. k
    BY <1>5, <2>1
  <2>. QED  BY <1>5, <2>1, <2>2 DEF Width, w
<1> HIDE DEF a
<1>7. (m + 1) - a = 2 * w /\ a + 2 * w <= Len(l) /\ a + w = p[i]
  <2> DEFINE e == p[i]
  <2> HIDE DEF e
  <2>1. e \in Nat /\ w = e - a /\ w = (m + 1) - e /\ w \in Nat /\ a \in Nat
    BY <1>2, <1>6 DEF e
  <2>2. (m + 1) - a = 2 * w /\ a + 2 * w <= m + 1 /\ a + w = e
    <3>1. w \in Nat /\ a \in Nat /\ e = a + w /\ m + 1 = e + w
      BY <2>1
    <3>2. 2 * w = w + w
      BY <3>1
    <3>. QED  BY <3>1, <3>2
  <2>. QED  BY <2>2 DEF e
<1>8. Power(2 * w)
  BY <1>1, PowerDoubles
<1> DEFINE kept == [j \in 1 .. i |-> stack[j]]
<1>9. Front(kept) = [j \in 1 .. i - 1 |-> stack[j]] /\ Last(kept) = stack[i]
  <2> DEFINE R == {stack[j] : j \in 1 .. i}
             b == i - 1
  <2>1. kept \in Seq(R) /\ Len(kept) = i /\ b \in Nat /\ 0 + b <= Len(kept) /\ i \in 1 .. i
    BY <1>5
  <2>2. SubSeq(kept, 0 + 1, 0 + b) = [j \in 1 .. b |-> kept[0 + j]]
    <3> HIDE DEF kept, R, b
    <3>. QED  BY <2>1, PartOf
  <2>3. Front(kept) = SubSeq(kept, 0 + 1, 0 + b)
    <3>1. 0 + 1 = 1 /\ 0 + b = Len(kept) - 1
      BY <1>5, <2>1
    <3> HIDE DEF kept, b
    <3>. QED  BY <3>1, Zenon DEF Front
  <2>4. \A j \in 1 .. b : kept[0 + j] = stack[j]
    BY <1>5
  <2>5. Last(kept) = kept[i]
    BY <2>1, Zenon DEF Last
  <2>6. kept[i] = stack[i]
    BY <1>5
  <2> HIDE DEF kept
  <2>. QED  BY <2>2, <2>3, <2>4, <2>5, <2>6
<1> HIDE DEF kept
<1> DEFINE u == Merge(v)
<1>10. u = [kept |-> Front(kept), cv |-> Chained(ParentOutput(Last(kept), v.cv)), total |-> t]
  <2>1. v.kept = kept
    BY <1>1 DEF kept
  <2>. QED  BY <2>1, Zenon DEF Merge, t
<1>11. u.kept = [j \in 1 .. i - 1 |-> stack[j]] /\ u.cv = Chained(ParentOutput(stack[i], v.cv)) /\ u.total = t
  BY <1>9, <1>10
<1>12. u.cv = Chained(StandardTree(l)[2 * w][a + 1])
  <2>1. stack[i] = Chained(StandardTree(l)[w][a + 1])
    <3>1. stack[i] = Subtree(l, p, i)
      BY <1>5, <1>6
    <3>. QED  BY <1>5, <3>1, Zenon DEF Subtree, a
  <2>2. v.cv = Chained(StandardTree(l)[w][a + w + 1])
    BY <1>1, <1>7
  <2>3. Len(l) \in Nat
    OBVIOUS
  <2>4. Halved(l, w, a)
    BY <1>1, <1>6, <1>7, <2>3, HalvesMake, Zenon
  <2>5. StandardTree(l)[2 * w][a + 1]
           = ParentOutput(Chained(StandardTree(l)[w][a + 1]), Chained(StandardTree(l)[w][a + w + 1]))
    BY <2>4, Zenon DEF Halved
  <2>. QED  BY <1>11, <2>1, <2>2, <2>5, Zenon
<1> HIDE DEF u
<1>13. Merging(p, stack, l, m, u, i - 1)
  <2>1. (m + 1) - p[i - 1] = 2 * w
    BY <1>7 DEF a
  <2>2. u.cv = Chained(StandardTree(l)[2 * w][p[i - 1] + 1])
    BY <1>12 DEF a
  <2>3. u.total \in Nat /\ u.total * (2 * w) = m + 1
    BY <1>2, <1>3, <1>11
  <2>. QED  BY <1>8, <1>11, <2>1, <2>2, <2>3, Zenon DEF Merging
<1>. QED  BY <1>5, <1>13 DEF u

\* An odd total: what it holds goes on top.
LEMMA MergesEnd ==
  ASSUME NEW l, NEW m \in Nat, Len(l) = m + 1, NEW p, NEW k, NEW stack, IsSpine(p, k, stack, l, m),
         NEW i \in 0 .. k, NEW v, Merging(p, stack, l, m, v, i), v.total % 2 = 1
  PROVE  \E r : IsSpine(r, i + 1, Append(v.kept, v.cv), l, m + 1)
<1> DEFINE w == (m + 1) - p[i]
           t == v.total \div 2
           r == [j \in 0 .. i + 1 |-> IF j = i + 1 THEN m + 1 ELSE p[j]]
<1>1. /\ v.kept = [j \in 1 .. i |-> stack[j]] /\ Power(w)
      /\ v.cv = Chained(StandardTree(l)[w][p[i] + 1])
      /\ v.total \in Nat /\ v.total * w = m + 1
  BY Zenon DEF Merging
<1>2. /\ k \in Nat /\ p \in [0 .. k -> Nat] /\ p[0] = 0 /\ p[k] = m
      /\ (\A a \in 0 .. k : \A b \in a .. k : p[a] <= p[b])
      /\ (\A a \in 1 .. k : Power(Width(p, a)) /\ Multiple(p[a - 1], 2 * Width(p, a)) /\ m - p[a] < Width(p, a))
      /\ stack = [a \in 1 .. k |-> Subtree(l, p, a)]
  BY Zenon DEF IsSpine
<1> HIDE DEF w
<1>3. w \in Nat \ {0} /\ t \in Nat /\ v.total = 2 * t + 1 /\ p[i] \in Nat /\ i \in Nat /\ w = (m + 1) - p[i]
  <2>1. w \in Nat \ {0} /\ w = (m + 1) - p[i]
    BY <1>1 DEF Power, w
  <2>2. t \in Nat /\ v.total = 2 * t + 1
    BY <1>1
  <2>. QED  BY <1>2, <2>1, <2>2
<1> HIDE DEF t
<1>4. Multiple(p[i], 2 * w) /\ ~ Multiple(m + 1, 2 * w)
  <2> DEFINE c == t * (2 * w)
             e == p[i]
  <2>1. c \in Nat /\ (2 * t + 1) * w = c + w
    <3>1. w \in Nat /\ t \in Nat
      BY <1>3
    <3>2. (2 * t + 1) * w = t * (2 * w) + w /\ t * (2 * w) \in Nat
      BY <3>1
    <3>. QED  BY <3>2
  <2> HIDE DEF c, e
  <2>2. e \in Nat /\ w = (m + 1) - e /\ c + w = m + 1 /\ w \in Nat
    BY <1>1, <1>3, <2>1 DEF e
  <2>3. e = c
    BY <2>1, <2>2
  <2>4. Multiple(e, 2 * w)
    BY <1>3, <2>3 DEF Multiple, c
  <2>5. ASSUME Multiple(m + 1, 2 * w)  PROVE FALSE
    <3>1. e \in Nat /\ e <= m + 1 /\ w \in Nat \ {0}
      BY <1>3, <2>2
    <3>2. Multiple((m + 1) - e, 2 * w)
      BY <2>4, <2>5, <3>1, MultipleLeft, Zenon
    <3>3. (m + 1) - e = w
      BY <2>2
    <3>. QED  BY <3>1, <3>2, <3>3, MultipleOfSelf, Zenon
  <2>. QED  BY <2>4, <2>5 DEF e
<1>5. /\ r \in [0 .. i + 1 -> Nat] /\ r[0] = 0 /\ r[i + 1] = m + 1 /\ \A j \in 0 .. i : r[j] = p[j]
  BY <1>2, <1>3
<1> HIDE DEF r
<1>6. ASSUME NEW a \in 0 .. i + 1, NEW b \in a .. i + 1  PROVE r[a] <= r[b]
  <2>1. CASE b = i + 1
    <3>1. CASE a = i + 1
      BY <1>5, <2>1, <3>1
    <3>2. CASE a # i + 1
      <4>1. a \in 0 .. k /\ k \in a .. k /\ a \in 0 .. i
        BY <1>2, <1>3, <3>2
      <4>2. r[a] = p[a] /\ p[a] <= m /\ p[a] \in Nat
        BY <1>2, <1>5, <4>1
      <4>. QED  BY <1>5, <2>1, <4>2
    <3>. QED  BY <3>1, <3>2
  <2>2. CASE b # i + 1
    <3>1. a \in 0 .. i /\ b \in 0 .. i /\ a \in 0 .. k /\ b \in a .. k
      BY <1>2, <1>3, <2>2
    <3>. QED  BY <1>2, <1>5, <3>1
  <2>. QED  BY <2>1, <2>2
<1>7. Width(r, i + 1) = w /\ \A j \in 1 .. i : Width(r, j) = Width(p, j) /\ r[j - 1] = p[j - 1]
  <2>1. i + 1 - 1 = i /\ r[i] = p[i]
    BY <1>3, <1>5
  <2>2. Width(r, i + 1) = w
    BY <1>3, <1>5, <2>1 DEF Width
  <2>3. ASSUME NEW j \in 1 .. i  PROVE Width(r, j) = Width(p, j) /\ r[j - 1] = p[j - 1]
    <3>1. j \in 0 .. i /\ j - 1 \in 0 .. i
      BY <1>3
    <3>. QED  BY <1>5, <3>1 DEF Width
  <2>. QED  BY <2>2, <2>3
<1>8. ASSUME NEW j \in 1 .. i
      PROVE  Power(Width(r, j)) /\ Multiple(r[j - 1], 2 * Width(r, j)) /\ (m + 1) - r[j] < Width(r, j)
  <2> DEFINE z == Width(p, j)
             b == p[j - 1]
             e == p[j]
             q == p[i]
  <2>1. j \in 1 .. k /\ j - 1 \in 0 .. k /\ j \in 0 .. k /\ i \in j .. k /\ j \in 0 .. i
    BY <1>2, <1>3
  <2>2. Power(z) /\ Multiple(b, 2 * z) /\ m - e < z /\ z = e - b /\ b \in Nat /\ e \in Nat /\ z \in Nat \ {0} /\ e <= q /\ q \in Nat
    BY <1>2, <2>1 DEF Width, Power
  <2>3. Width(r, j) = z /\ r[j - 1] = b /\ r[j] = e
    BY <1>5, <1>7, <2>1
  <2>4. w = (m + 1) - q
    BY <1>3
  <2> HIDE DEF z, b, e, q
  <2>5. ASSUME ~ ((m + 1) - e < z)  PROVE FALSE
    <3>1. m + 1 = b + 2 * z /\ w <= z
      BY <1>3, <2>2, <2>4, <2>5
    <3>2. Multiple(z, w)
      <4>1. CASE w = z
        BY <1>3, <4>1, MultipleOfSelf
      <4>2. CASE w # z
        <5>1. Multiple(z, 2 * w)
          <6>1. w < z
            BY <1>3, <2>2, <3>1, <4>2
          <6>. QED  BY <1>1, <2>2, <6>1, PowersNest
        <5>2. Multiple(2 * w, w) /\ 2 * w \in Nat
          <6>1. w \in Nat \ {0}
            BY <1>3
          <6>2. 2 * w \in Nat
            BY <6>1
          <6>3. Multiple(2 * w, w)
            BY <6>1, MultipleOfSelf, Zenon
          <6>. QED  BY <6>2, <6>3
        <5>. QED  BY <1>3, <2>2, <5>1, <5>2, MultipleOfMultiple
      <4>. QED  BY <4>1, <4>2
    <3>3. Multiple(2 * z, 2 * w)
      <4>1. PICK c \in Nat : z = c * w
        BY <3>2 DEF Multiple
      <4>2. 2 * (c * w) = c * (2 * w)
        BY <1>3
      <4>. QED  BY <4>1, <4>2 DEF Multiple
    <3>4. 2 * z \in Nat /\ 2 * w \in Nat
      BY <1>3, <2>2
    <3>5. Multiple(b, 2 * w)
      BY <2>2, <3>3, <3>4, MultipleOfMultiple, Zenon
    <3>6. Multiple(b + 2 * z, 2 * w)
      BY <2>2, <3>3, <3>4, <3>5, MultipleSums, Zenon
    <3>. QED  BY <1>4, <3>1, <3>6
  <2>. QED  BY <2>2, <2>3, <2>5
<1>9. Multiple(r[i + 1 - 1], 2 * Width(r, i + 1)) /\ (m + 1) - r[i + 1] < Width(r, i + 1) /\ Power(Width(r, i + 1))
  <2>1. i + 1 - 1 = i /\ r[i] = p[i]
    BY <1>3, <1>5
  <2>2. (m + 1) - r[i + 1] < w
    BY <1>3, <1>5
  <2>. QED  BY <1>1, <1>4, <1>7, <2>1, <2>2
<1> DEFINE h == Append(v.kept, v.cv)
<1>10. h = [j \in 1 .. i + 1 |-> Subtree(l, r, j)]
  <2> DEFINE c == v.kept
             x == v.cv
             R == {stack[j] : j \in 1 .. i} \cup {x}
  <2>1. c \in Seq(R) /\ Len(c) = i /\ x \in R
    <3>1. c = [j \in 1 .. i |-> stack[j]] /\ i \in Nat
      BY <1>1, <1>3
    <3> HIDE DEF c, x
    <3>. QED  BY <3>1
  <2> HIDE DEF c, R, x
  <2>2. /\ Append(c, x) \in Seq(R) /\ Len(Append(c, x)) = Len(c) + 1
        /\ \A j \in 1 .. Len(c) : Append(c, x)[j] = c[j]
        /\ Append(c, x)[Len(c) + 1] = x
    BY <2>1, Appended, Zenon
  <2>3. h \in Seq(R) /\ Len(h) = i + 1 /\ (\A j \in 1 .. i : h[j] = c[j]) /\ h[i + 1] = x
    BY <2>1, <2>2, Zenon DEF c, x
  <2> HIDE DEF h
  <2>4. x = Subtree(l, r, i + 1)
    <3>1. i + 1 - 1 = i /\ r[i] = p[i]
      BY <1>3, <1>5
    <3>2. x = Chained(StandardTree(l)[w][p[i] + 1])
      BY <1>1 DEF x
    <3>3. PICK n : n = i + 1
      OBVIOUS
    <3>4. Width(r, n) = w /\ r[n - 1] = p[i]
      BY <1>7, <3>1, <3>3
    <3>5. Subtree(l, r, n) = x
      BY <3>2, <3>4, Zenon DEF Subtree
    <3>. QED  BY <3>3, <3>5
  <2>5. ASSUME NEW j \in 1 .. i  PROVE c[j] = Subtree(l, r, j)
    <3>1. j \in 1 .. k
      BY <1>2, <1>3
    <3>2. c[j] = stack[j]
      BY <1>1 DEF c
    <3>3. stack[j] = Subtree(l, p, j)
      BY <1>2, <3>1
    <3>4. Width(r, j) = Width(p, j) /\ r[j - 1] = p[j - 1]
      BY <1>7
    <3>. QED  BY <3>2, <3>3, <3>4, Zenon DEF Subtree
  <2>6. ASSUME NEW j \in 1 .. i + 1  PROVE h[j] = Subtree(l, r, j)
    <3>1. CASE j = i + 1
      BY <2>3, <2>4, <3>1
    <3>2. CASE j # i + 1
      <4>1. j \in 1 .. i
        BY <1>3, <3>2
      <4>. QED  BY <2>3, <2>5, <4>1
    <3>. QED  BY <3>1, <3>2
  <2>. QED  BY <2>3, <2>6
<1>11. i + 1 \in Nat
  BY <1>3
<1>12. \A j \in 1 .. i + 1 :
         Power(Width(r, j)) /\ Multiple(r[j - 1], 2 * Width(r, j)) /\ (m + 1) - r[j] < Width(r, j)
  <2>1. ASSUME NEW j \in 1 .. i + 1
        PROVE  Power(Width(r, j)) /\ Multiple(r[j - 1], 2 * Width(r, j)) /\ (m + 1) - r[j] < Width(r, j)
    <3>1. CASE j = i + 1
      BY <1>9, <3>1
    <3>2. CASE j # i + 1
      <4>1. j \in 1 .. i
        BY <1>3, <3>2
      <4>. QED  BY <1>8, <4>1
    <3>. QED  BY <3>1, <3>2
  <2>. QED  BY <2>1
<1> HIDE DEF h
<1>13. IsSpine(r, i + 1, h, l, m + 1)
  <2> DEFINE n == i + 1
             M == m + 1
  <2>1. n \in Nat /\ r \in [0 .. n -> Nat] /\ r[0] = 0 /\ r[n] = M
    BY <1>5, <1>11
  <2>2. \A a \in 0 .. n : \A b \in a .. n : r[a] <= r[b]
    BY <1>6
  <2>3. \A j \in 1 .. n : Power(Width(r, j)) /\ Multiple(r[j - 1], 2 * Width(r, j)) /\ M - r[j] < Width(r, j)
    BY <1>12
  <2>4. h = [j \in 1 .. n |-> Subtree(l, r, j)]
    BY <1>10
  <2> HIDE DEF n, M
  <2>5. IsSpine(r, n, h, l, M)
    BY <2>1, <2>2, <2>3, <2>4, Zenon DEF IsSpine
  <2>. QED  BY <2>5 DEF n, M
<1>. QED  BY <1>13, Zenon DEF h

MergedAt(p, k, stack, l, m, v, j) ==
  \E i \in 0 .. k : Merging(p, stack, l, m, v, i) /\ (i = k - j \/ v.total % 2 = 1)

LEMMA MergesGoOn ==
  ASSUME NEW l, NEW m \in Nat, Len(l) = m + 1, NEW p, NEW k, NEW stack, IsSpine(p, k, stack, l, m),
         NEW j \in 1 .. k, NEW v, MergedAt(p, k, stack, l, m, v, j - 1)
  PROVE  MergedAt(p, k, stack, l, m, Merge(v), j)
<1>1. PICK i \in 0 .. k : Merging(p, stack, l, m, v, i) /\ (i = k - (j - 1) \/ v.total % 2 = 1)
  BY Zenon DEF MergedAt
<1>2. CASE v.total % 2 = 1
  <2>1. Merge(v) = v
    BY <1>2, Zenon DEF Merge
  <2>. QED  BY <1>1, <1>2, <2>1, Zenon DEF MergedAt
<1>3. CASE v.total % 2 # 1
  <2>1. i \in 1 .. k /\ Merging(p, stack, l, m, Merge(v), i - 1)
    BY <1>1, <1>3, MergesOne, Zenon
  <2>2. k \in Nat
    BY DEF IsSpine
  <2>3. i - 1 \in 0 .. k /\ i - 1 = k - j
    BY <1>1, <1>3, <2>1, <2>2
  <2>. QED  BY <2>1, <2>3, Zenon DEF MergedAt
<1>. QED  BY <1>2, <1>3

HasSpine(stack, l, m) == \E p, k : IsSpine(p, k, stack, l, m)

\* push_chunk_cv: the stack is that of one leaf more.
LEMMA PushIs ==
  ASSUME NEW l, NEW m \in Nat, Len(l) = m + 1, NEW stack, HasSpine(stack, l, m)
  PROVE  HasSpine(Push(stack, Chained(l[m + 1]), m + 1), l, m + 1)
<1>1. PICK p, k : IsSpine(p, k, stack, l, m)
  BY DEF HasSpine
<1>2. k \in Nat /\ p[k] = m /\ stack = [i \in 1 .. k |-> Subtree(l, p, i)]
  BY <1>1, Zenon DEF IsSpine
<1>3. Len(stack) = k
  BY <1>2
<1> DEFINE cv == Chained(l[m + 1])
           b == [kept |-> stack, cv |-> cv, total |-> m + 1]
           g == CHOOSE f : f = [i \in 0 .. Len(stack) |-> IF i = 0 THEN b ELSE Merge(f[i - 1])]
           v == g[k]
<1> HIDE DEF b
<1>4. IsTurns(g, "merge", b, k)
  <2>1. PICK f : IsTurns(f, "merge", b, k)
    BY <1>2, TurnsExist
  <2>2. f = [i \in 0 .. k |-> IF i = 0 THEN b ELSE Merge(f[i - 1])]
    BY <2>1, Zenon DEF IsTurns, Turn
  <2>3. g = [i \in 0 .. k |-> IF i = 0 THEN b ELSE Merge(g[i - 1])]
    BY <1>3, <2>2, Zenon
  <2>. QED  BY <2>3, Zenon DEF IsTurns, Turn
<1>5. Push(stack, cv, m + 1) = Append(v.kept, v.cv)
  <2>1. Push(stack, cv, m + 1) = Append(g[Len(stack)].kept, g[Len(stack)].cv)
    BY Zenon DEF Push, b
  <2>. QED  BY <1>3, <2>1, Zenon
<1> HIDE DEF g
<1> DEFINE W == {i \in 0 .. k : MergedAt(p, k, stack, l, m, g[i], i)}
<1>6. \A i \in 0 .. k : g[i] = IF i = 0 THEN b ELSE Merge(g[i - 1])
  BY <1>4, Zenon DEF IsTurns, Turn
<1>7. 0 \in W
  <2>1. stack = [j \in 1 .. k |-> stack[j]]
    BY <1>2
  <2>2. (m + 1) - p[k] = 1 /\ p[k] + 1 = m + 1
    BY <1>2
  <2>3. StandardTree(l)[1][m + 1] = l[m + 1]
    <3>1. Len(l) \in Nat /\ 1 \in 1 .. Len(l) /\ m + 1 \in 1 .. Len(l) - 1 + 1
      OBVIOUS
    <3>2. StandardTree(l)[1][m + 1] = TreeNode(StandardTree(l), l, 1, m + 1)
      BY <3>1, TreeAt
    <3>. QED  BY <3>2, Zenon DEF TreeNode
  <2>4. b.kept = stack /\ b.cv = Chained(StandardTree(l)[1][m + 1]) /\ b.total = m + 1
    BY <2>3 DEF b, cv
  <2>5. b.total \in Nat /\ b.total * 1 = m + 1
    BY <2>4
  <2>6. Merging(p, stack, l, m, b, k)
    BY <2>1, <2>2, <2>4, <2>5, PowerOfOne DEF Merging
  <2>7. k \in 0 .. k /\ k = k - 0
    BY <1>2
  <2>8. MergedAt(p, k, stack, l, m, b, 0)
    BY <2>6, <2>7, Zenon DEF MergedAt
  <2>9. 0 \in 0 .. k /\ g[0] = b
    BY <1>2, <1>6
  <2>. QED  BY <2>8, <2>9
<1>8. ASSUME NEW i \in 1 .. k, i - 1 \in W  PROVE i \in W
  <2>1. g[i] = Merge(g[i - 1]) /\ i \in 0 .. k
    BY <1>2, <1>6
  <2>2. MergedAt(p, k, stack, l, m, g[i - 1], i - 1)
    BY <1>8
  <2>3. MergedAt(p, k, stack, l, m, Merge(g[i - 1]), i)
    BY <1>1, <2>2, MergesGoOn, Zenon
  <2>. QED  BY <2>1, <2>3
<1> HIDE DEF W
<1>9. k \in W
  <2>1. \A i \in 0 .. k : i \in W
    BY <1>2, <1>7, <1>8, Climb
  <2>. QED  BY <1>2, <2>1
<1>10. PICK i \in 0 .. k : Merging(p, stack, l, m, v, i) /\ (i = k - k \/ v.total % 2 = 1)
  BY <1>9, Zenon DEF W, MergedAt
<1> HIDE DEF v
<1>11. v.total % 2 = 1
  <2>1. SUFFICES ASSUME v.total % 2 # 1  PROVE FALSE
    OBVIOUS
  <2>2. i \in 1 .. k
    BY <1>1, <1>10, <2>1, MergesOne, Zenon
  <2>. QED  BY <1>2, <1>10, <2>1, <2>2
<1>12. \E r : IsSpine(r, i + 1, Append(v.kept, v.cv), l, m + 1)
  BY <1>1, <1>10, <1>11, MergesEnd, Zenon
<1>. QED  BY <1>5, <1>12, Zenon DEF HasSpine, cv

\* The same stack over more leaves.
LEMMA SpinesStay ==
  ASSUME NEW l, NEW h, Len(l) \in Nat, Len(h) \in Nat, Len(l) <= Len(h), \A i \in 1 .. Len(l) : h[i] = l[i],
         NEW stack, HasSpine(stack, l, Len(l))
  PROVE  HasSpine(stack, h, Len(l))
<1> DEFINE m == Len(l)
<1>1. PICK p, k : IsSpine(p, k, stack, l, m)
  BY DEF HasSpine
<1>2. /\ k \in Nat /\ p \in [0 .. k -> Nat] /\ p[0] = 0 /\ p[k] = m
      /\ (\A a \in 0 .. k : \A b \in a .. k : p[a] <= p[b])
      /\ (\A a \in 1 .. k : Power(Width(p, a)) /\ Multiple(p[a - 1], 2 * Width(p, a)) /\ m - p[a] < Width(p, a))
      /\ stack = [a \in 1 .. k |-> Subtree(l, p, a)]
  BY <1>1, Zenon DEF IsSpine
<1>3. ASSUME NEW a \in 1 .. k  PROVE Subtree(l, p, a) = Subtree(h, p, a)
  <2> DEFINE w == Width(p, a)
             e == p[a]
             c == p[a - 1]
  <2>1. a \in 0 .. k /\ a - 1 \in 0 .. k /\ k \in a .. k
    BY <1>2
  <2>2. Power(w) /\ w = e - c /\ e \in Nat /\ c \in Nat /\ e <= m
    BY <1>2, <2>1 DEF Width
  <2>3. w \in 1 .. m /\ c + 1 \in 1 .. m - w + 1
    <3>1. w \in Nat \ {0}
      BY <2>2 DEF Power
    <3> HIDE DEF w, e, c, m
    <3>2. m \in Nat
      BY DEF m
    <3>. QED  BY <2>2, <3>1, <3>2
  <2> HIDE DEF w, c
  <2>4. StandardTree(h)[w][c + 1] = StandardTree(l)[w][c + 1]
    <3>1. \A n \in 1 .. m : \A i \in 1 .. m - n + 1 : StandardTree(h)[n][i] = StandardTree(l)[n][i]
      BY TreesStay
    <3> HIDE DEF m
    <3>. QED  BY <2>3, <3>1
  <2>. QED  BY <2>4, Zenon DEF Subtree, w, c
<1>4. stack = [a \in 1 .. k |-> Subtree(h, p, a)]
  BY <1>2, <1>3
<1>5. IsSpine(p, k, stack, h, m)
  BY <1>2, <1>4, Zenon DEF IsSpine
<1>. QED  BY <1>5, Zenon DEF HasSpine, m

-----------------------------------------------------------------------------
(* A chunk: it holds back its last block, even when that is full. *)

LEMMA B3Size ==
  /\ B3Block \in Nat \ {0} /\ B3Chunk \in Nat \ {0}
  /\ \E m \in Nat : B3Chunk = m * B3Block
<1>1. B3Block \in Nat \ {0} /\ B3Chunk \in Nat \ {0} /\ B3Chunk % B3Block = 0
  BY DigestsAssumption
<1>. QED  BY <1>1, MultipleIs DEF Multiple

BlockNode(cv, x, counter, i) ==
  [cv |-> cv, words |-> [bytes |-> x], counter |-> counter, len |-> Len(x),
   flags |-> IF i = 1 THEN {"start"} ELSE {}]

\* The chaining values of the blocks of D before the last.
IsChain(f, D, counter, q) ==
  f = [i \in 0 .. q |-> IF i = 0 THEN Iv
                        ELSE Chained(BlockNode(f[i - 1], Piece(D, (i - 1) * B3Block, B3Block), counter, i))]

\* c has taken the first n bytes of D, and compressed q blocks.
ChunkHolds(c, D, n, counter, q) ==
  /\ c = [cv |-> c.cv, counter |-> counter, block |-> c.block, compressed |-> q]
  /\ q \in Nat /\ q * B3Block <= n /\ n - q * B3Block <= B3Block /\ (n # 0 => q * B3Block < n)
  /\ c.block = Piece(D, q * B3Block, n - q * B3Block)
  /\ \E f : IsChain(f, D, counter, q) /\ c.cv = f[q]

\* What a turn leaves: at least from place n on, the loop is at some place of D.
ChunkTaken(t, counter, D, n) ==
  \E m \in n .. Len(D), u \in Nat : ChunkHolds(t.state, D, m, counter, u) /\ t.rest = Piece(D, m, Len(D) - m)

\* A block more is compressed.
LEMMA ChainGrows ==
  ASSUME NEW f, NEW D, NEW counter, NEW q \in Nat, IsChain(f, D, counter, q)
  PROVE  \E g : /\ IsChain(g, D, counter, q + 1)
                /\ g[q + 1] = Chained(BlockNode(f[q], Piece(D, q * B3Block, B3Block), counter, q + 1))
<1> DEFINE V(h, i) == Chained(BlockNode(h[i - 1], Piece(D, (i - 1) * B3Block, B3Block), counter, i))
           x == Chained(BlockNode(f[q], Piece(D, q * B3Block, B3Block), counter, q + 1))
           g == [i \in 0 .. q + 1 |-> IF i = q + 1 THEN x ELSE f[i]]
<1>1. \A i \in 0 .. q : f[i] = IF i = 0 THEN Iv ELSE V(f, i)
  <2>1. f = [i \in 0 .. q |-> IF i = 0 THEN Iv ELSE V(f, i)]
    BY Zenon DEF IsChain
  <2> HIDE DEF V
  <2>. QED  BY <2>1
<1>2. g[q + 1] = x /\ \A i \in 0 .. q : g[i] = f[i]
  <2> HIDE DEF x
  <2>. QED  OBVIOUS
<1>3. g = [i \in 0 .. q + 1 |-> g[i]]
  OBVIOUS
<1> HIDE DEF g
<1>4. ASSUME NEW i \in 0 .. q + 1  PROVE g[i] = IF i = 0 THEN Iv ELSE V(g, i)
  <2>1. CASE i = 0
    <3>1. 0 \in 0 .. q
      OBVIOUS
    <3>. QED  BY <1>1, <1>2, <2>1, <3>1
  <2>2. CASE i \in 1 .. q
    <3>1. i - 1 \in 0 .. q /\ i \in 0 .. q /\ i # 0
      BY <2>2
    <3>2. g[i - 1] = f[i - 1] /\ g[i] = V(f, i)
      BY <1>1, <1>2, <3>1
    <3>3. V(f, i) = V(g, i)
      BY <3>2, Zenon
    <3>. QED  BY <3>1, <3>2, <3>3, Zenon
  <2>3. CASE i = q + 1
    <3>1. i - 1 = q /\ i # 0 /\ q \in 0 .. q
      BY <2>3
    <3>2. g[i - 1] = f[q]
      BY <1>2, <3>1
    <3>3. V(g, i) = Chained(BlockNode(f[q], Piece(D, q * B3Block, B3Block), counter, i))
      BY <3>1, <3>2
    <3>4. V(g, i) = x
      BY <2>3, <3>3
    <3> HIDE DEF x, V
    <3>. QED  BY <1>2, <2>3, <3>1, <3>4
  <2>. QED  BY <2>1, <2>2, <2>3
<1>5. g = [i \in 0 .. q + 1 |-> IF i = 0 THEN Iv ELSE V(g, i)]
  <2> HIDE DEF V
  <2>. QED  BY <1>3, <1>4
<1>6. IsChain(g, D, counter, q + 1)
  BY <1>5, Zenon DEF IsChain
<1>. QED  BY <1>2, <1>6

LEMMA ChunkTurns ==
  ASSUME NEW S, NEW D \in Seq(S), NEW n \in Nat, n < Len(D), NEW c, NEW counter, NEW q,
         ChunkHolds(c, D, n, counter, q)
  PROVE  ChunkTaken(ChunkTake(c, Piece(D, n, Len(D) - n)), counter, D, n + 1)
<1> DEFINE B == B3Block
           l == Len(D)
           rest == Piece(D, n, l - n)
           d == IF Len(c.block) < B THEN c
                ELSE [c EXCEPT !.cv = Chained(BlockOutput(c, {})), !.block = <<>>, !.compressed = @ + 1]
           take == Min({Len(rest), B - Len(d.block)})
           m == n + take
           filled == [d EXCEPT !.block = @ \o SubSeq(rest, 1, take)]
           t == ChunkTake(c, rest)
<1>1. B \in Nat \ {0} /\ l \in Nat /\ n < l /\ q \in Nat
  BY B3Size DEF ChunkHolds
\* d holds n bytes too, and has room for one more.
<1>2. PICK u \in Nat :
        /\ d = [cv |-> d.cv, counter |-> counter, block |-> d.block, compressed |-> u]
        /\ u * B <= n /\ n - u * B < B /\ d.block = Piece(D, u * B, n - u * B) /\ Len(d.block) = n - u * B
        /\ \E f : IsChain(f, D, counter, u) /\ d.cv = f[u]
  <2> DEFINE a == q * B
             r == n - a
  <2>1. /\ c = [cv |-> c.cv, counter |-> counter, block |-> c.block, compressed |-> q]
        /\ a <= n /\ r <= B /\ a \in Nat /\ r \in Nat /\ a + r = n /\ c.block = Piece(D, a, r)
    <3>1. /\ c = [cv |-> c.cv, counter |-> counter, block |-> c.block, compressed |-> q]
          /\ a <= n /\ n - a <= B /\ c.block = Piece(D, a, r)
      BY Zenon DEF ChunkHolds
    <3>2. a \in Nat
      BY <1>1, Multiples
    <3> HIDE DEF a
    <3>3. r \in Nat /\ a + r = n
      BY <3>1, <3>2
    <3>. QED  BY <3>1, <3>2, <3>3
  <2>2. PICK f : IsChain(f, D, counter, q) /\ c.cv = f[q]
    BY Zenon DEF ChunkHolds
  <2> HIDE DEF a, r
  <2>3. Len(c.block) = r
    <3>1. a + r <= Len(D)
      BY <1>1, <2>1
    <3>. QED  BY <2>1, <3>1, PieceIs
  <2>4. CASE r < B
    <3>1. d = c
      BY <2>3, <2>4, Zenon
    <3> HIDE DEF d
    <3>. QED  BY <1>1, <2>1, <2>2, <2>3, <2>4, <3>1 DEF a, r
  <2>5. CASE ~ (r < B)
    <3>1. r = B /\ n = a + B
      BY <1>1, <2>1, <2>5
    <3>2. d = [c EXCEPT !.cv = Chained(BlockOutput(c, {})), !.block = <<>>, !.compressed = @ + 1]
      BY <2>3, <2>5, Zenon
    <3> DEFINE y == Chained(BlockOutput(c, {}))
               g == [cv |-> c.cv, counter |-> counter, block |-> c.block, compressed |-> q]
    <3>3. d = [cv |-> y, counter |-> counter, block |-> <<>>, compressed |-> q + 1]
      <4> HIDE DEF y, d
      <4>1. c = g
        BY <2>1, Zenon
      <4> HIDE DEF g
      <4>2. d = [g EXCEPT !.cv = y, !.block = <<>>, !.compressed = @ + 1]
        BY <3>2, <4>1, Zenon DEF y
      <4>. QED  BY <4>2 DEF g
    <3>4. PICK h : /\ IsChain(h, D, counter, q + 1)
                   /\ h[q + 1] = Chained(BlockNode(f[q], Piece(D, q * B, B), counter, q + 1))
      BY <1>1, <2>2, ChainGrows
    <3>5. y = h[q + 1]
      <4>1. c.counter = counter /\ c.compressed = q
        BY <2>1
      <4>2. q = 0 <=> q + 1 = 1
        BY <1>1
      <4>3. {} \cup (IF c.compressed = 0 THEN {"start"} ELSE {}) = IF q + 1 = 1 THEN {"start"} ELSE {}
        BY <4>1, <4>2
      <4>4. BlockOutput(c, {})
              = [cv |-> f[q], words |-> [bytes |-> c.block], counter |-> counter, len |-> Len(c.block),
                 flags |-> IF q + 1 = 1 THEN {"start"} ELSE {}]
        BY <2>2, <4>1, <4>3, Zenon DEF BlockOutput
      <4>5. c.block = Piece(D, q * B, B)
        BY <2>1, <3>1 DEF a
      <4>6. BlockOutput(c, {}) = BlockNode(f[q], Piece(D, q * B, B), counter, q + 1)
        BY <4>4, <4>5, Zenon DEF BlockNode
      <4>. QED  BY <3>4, <4>6
    <3>6. (q + 1) * B = n /\ q + 1 \in Nat
      <4>1. (q + 1) * B = a + B
        BY <1>1, Multiples DEF a
      <4>. QED  BY <1>1, <3>1, <4>1
    <3>7. Piece(D, n, 0) = <<>> /\ n - n = 0 /\ Len(<<>>) = 0 /\ n <= n /\ 0 < B
      BY <1>1 DEF Piece
    <3> HIDE DEF y, d
    <3>8. d.cv = y /\ d.block = <<>> /\ d = [cv |-> d.cv, counter |-> counter, block |-> d.block, compressed |-> q + 1]
      BY <3>3
    <3>9. /\ (q + 1) * B <= n /\ n - (q + 1) * B < B /\ d.block = Piece(D, (q + 1) * B, n - (q + 1) * B)
          /\ Len(d.block) = n - (q + 1) * B
      BY <3>6, <3>7, <3>8
    <3>10. \E e : IsChain(e, D, counter, q + 1) /\ d.cv = e[q + 1]
      BY <3>4, <3>5, <3>8
    <3>. QED  BY <3>6, <3>8, <3>9, <3>10, Zenon
  <2>. QED  BY <2>4, <2>5
<1>3. t.state = filled /\ t.rest = After(rest, take)
  <2>1. t = [state |-> filled, rest |-> After(rest, take)]
    BY Zenon DEF ChunkTake
  <2> HIDE DEF t, filled, take, rest
  <2>. QED  BY <2>1
<1> DEFINE a == u * B
           r == n - a
<1>4. a \in Nat /\ r \in Nat /\ a + r = n /\ r < B /\ Len(d.block) = r /\ d.block = Piece(D, a, r)
  <2>1. a \in Nat /\ a <= n
    BY <1>1, <1>2, Multiples
  <2>2. r < B /\ Len(d.block) = r /\ d.block = Piece(D, a, r)
    BY <1>2, Zenon
  <2> HIDE DEF a
  <2>. QED  BY <2>1, <2>2
<1> HIDE DEF d, a, r, l
<1>5. rest \in Seq(S) /\ Len(rest) = l - n
  <2> DEFINE k == l - n
  <2>1. k \in Nat /\ n + k = l
    BY <1>1
  <2> HIDE DEF k
  <2>2. n + k <= Len(D)
    BY <1>1, <2>1 DEF l
  <2>3. Piece(D, n, k) \in Seq(S) /\ Len(Piece(D, n, k)) = k
    BY <2>1, <2>2, PieceIs
  <2>. QED  BY <2>3 DEF k
<1>6. take \in 1 .. l - n /\ r + take <= B
  <2>1. l - n \in Nat /\ B - r \in Nat
    BY <1>1, <1>4
  <2>2. take = IF l - n <= B - r THEN l - n ELSE B - r
    BY <1>4, <1>5, <2>1, MinOfTwo
  <2> HIDE DEF take
  <2>. QED  BY <1>1, <1>4, <2>2
<1> HIDE DEF take
<1>7. SubSeq(rest, 1, take) = Piece(D, n, take)
  <2> DEFINE k == l - n
  <2>1. k \in Nat /\ n + k <= Len(D) /\ take \in 0 .. k
    BY <1>1, <1>6 DEF l
  <2> HIDE DEF k
  <2>2. SubSeq(Piece(D, n, k), 1, take) = Piece(D, n, take)
    BY <2>1, PieceStarts
  <2>. QED  BY <2>2 DEF k
<1>8. m \in n + 1 .. l /\ m \in Nat
  BY <1>1, <1>6
<1>9. After(rest, take) = Piece(D, m, l - m)
  <2> DEFINE k == l - n
  <2>1. k \in Nat /\ n + k <= Len(D) /\ take \in 0 .. k /\ k - take = l - m
    BY <1>1, <1>6 DEF l
  <2> HIDE DEF k, m
  <2>2. After(Piece(D, n, k), take) = Piece(D, n + take, k - take)
    BY <2>1, PieceEnds
  <2>. QED  BY <2>1, <2>2 DEF k, m
<1> DEFINE block == d.block \o SubSeq(rest, 1, take)
<1>10. block = Piece(D, a, m - a) /\ a < m /\ m - a <= B
  <2>1. take \in Nat /\ a + r + take <= Len(D) /\ m - a = r + take /\ a < m /\ m - a <= B
    BY <1>1, <1>4, <1>6 DEF l
  <2>2. Piece(D, a, r) \o Piece(D, a + r, take) = Piece(D, a, r + take)
    BY <1>4, <2>1, PiecesJoin
  <2>3. block = Piece(D, a, r) \o Piece(D, n, take)
    BY <1>4, <1>7
  <2>. QED  BY <1>4, <2>1, <2>2, <2>3
<1>11. t.state = [cv |-> d.cv, counter |-> counter, block |-> block, compressed |-> u]
  <2> DEFINE more == SubSeq(rest, 1, take)
             g == [cv |-> d.cv, counter |-> counter, block |-> d.block, compressed |-> u]
  <2>1. filled = [d EXCEPT !.block = @ \o more]
    BY Zenon
  <2>2. d = g
    BY <1>2
  <2> HIDE DEF more, block, g, filled
  <2>3. filled = [g EXCEPT !.block = g.block \o more]
    BY <2>1, <2>2, Zenon
  <2>4. g.block \o more = block
    BY <2>2, Zenon DEF block, more
  <2>5. [g EXCEPT !.block = block] = [cv |-> d.cv, counter |-> counter, block |-> block, compressed |-> u]
    BY DEF g
  <2>. QED  BY <1>3, <2>3, <2>4, <2>5, Zenon
<1>12. t.rest = Piece(D, m, l - m)
  BY <1>3, <1>9
<1> HIDE DEF t, block, m, rest, filled
<1>13. /\ t.state.cv = d.cv /\ t.state.block = block
       /\ t.state = [cv |-> t.state.cv, counter |-> counter, block |-> t.state.block, compressed |-> u]
  BY <1>11
<1>14. ChunkHolds(t.state, D, m, counter, u)
  <2>1. a <= m /\ a < m
    BY <1>4, <1>8, <1>10
  <2>2. \E f : IsChain(f, D, counter, u) /\ t.state.cv = f[u]
    BY <1>2, <1>13
  <2>. QED  BY <1>10, <1>13, <2>1, <2>2, Zenon DEF ChunkHolds, a
<1>15. ChunkTaken(t, counter, D, n + 1)
  BY <1>8, <1>12, <1>14, Zenon DEF ChunkTaken, l
<1>. QED  BY <1>15, Zenon DEF t, rest, l

\* Whatever pieces a chunk comes in, it is the chunk.
LEMMA ChunkTakes ==
  ASSUME NEW S, NEW D \in Seq(S), NEW n \in 0 .. Len(D), NEW c, NEW counter, NEW q,
         ChunkHolds(c, D, n, counter, q), NEW x, x = Piece(D, n, Len(D) - n)
  PROVE  \E u \in Nat : ChunkHolds(ChunkUpdate(c, x), D, Len(D), counter, u)
<1> DEFINE l == Len(D)
           k == l - n
           b == [state |-> c, rest |-> x]
           At(p, i) == \E m \in n .. l, u \in Nat :
                         /\ m >= n + i \/ m = l
                         /\ ChunkHolds(p.state, D, m, counter, u) /\ p.rest = Piece(D, m, l - m)
           g == CHOOSE f : f = [i \in 0 .. Len(x) |-> IF i = 0 THEN b ELSE
                  IF f[i - 1].rest = <<>> THEN f[i - 1] ELSE ChunkTake(f[i - 1].state, f[i - 1].rest)]
<1>1. l \in Nat /\ n \in Nat /\ k \in Nat /\ n + k = l /\ Len(D) = l
  OBVIOUS
<1>2. Len(x) = k
  <2> HIDE DEF k
  <2>1. n + k <= Len(D)
    BY <1>1
  <2>. QED  BY <1>1, <2>1, PieceIs DEF k
<1> HIDE DEF b
<1>3. ChunkUpdate(c, x) = g[Len(x)].state
  BY Zenon DEF ChunkUpdate, Loop, b
<1>4. IsTurns(g, "chunk", b, Len(x))
  <2>1. PICK f : IsTurns(f, "chunk", b, Len(x))
    BY <1>1, <1>2, TurnsExist
  <2>2. "chunk" # "merge" /\ "chunk" = "chunk"
    OBVIOUS
  <2>3. f = [i \in 0 .. Len(x) |-> IF i = 0 THEN b ELSE
              IF f[i - 1].rest = <<>> THEN f[i - 1] ELSE ChunkTake(f[i - 1].state, f[i - 1].rest)]
    BY <2>1, <2>2, Zenon DEF IsTurns, Turn
  <2>4. g = [i \in 0 .. Len(x) |-> IF i = 0 THEN b ELSE
              IF g[i - 1].rest = <<>> THEN g[i - 1] ELSE ChunkTake(g[i - 1].state, g[i - 1].rest)]
    BY <2>3, Zenon
  <2>. QED  BY <2>2, <2>4, Zenon DEF IsTurns, Turn
<1> HIDE DEF g
<1>5. \A i \in 0 .. k : g[i] = IF i = 0 THEN b ELSE Turn("chunk", g[i - 1])
  BY <1>2, <1>4, Zenon DEF IsTurns
<1>6. At(b, 0)
  <2>1. b.state = c /\ b.rest = x
    BY DEF b
  <2>2. n \in n .. l /\ n >= n + 0 /\ q \in Nat
    BY <1>1 DEF ChunkHolds
  <2>3. ChunkHolds(b.state, D, n, counter, q) /\ b.rest = Piece(D, n, l - n)
    BY <2>1
  <2>. QED  BY <2>2, <2>3, Zenon
<1> HIDE DEF l, k
<1>7. ASSUME NEW i \in 1 .. k, NEW p, At(p, i - 1)  PROVE At(Turn("chunk", p), i)
  <2>1. PICK m \in n .. l, u \in Nat :
          /\ m >= n + (i - 1) \/ m = l
          /\ ChunkHolds(p.state, D, m, counter, u) /\ p.rest = Piece(D, m, l - m)
    BY <1>7
  <2>2. Turn("chunk", p) = IF p.rest = <<>> THEN p ELSE ChunkTake(p.state, p.rest)
    BY DEF Turn
  <2>3. CASE m = l
    <3>1. p.rest = <<>>
      <4>1. l - l = 0
        BY <1>1
      <4>2. p.rest = Piece(D, l, 0)
        BY <2>1, <2>3, <4>1
      <4>. QED  BY <4>2 DEF Piece
    <3>2. Turn("chunk", p) = p
      BY <2>2, <3>1, Zenon
    <3>3. \E mm \in n .. l, v \in Nat :
             /\ mm >= n + i \/ mm = l
             /\ ChunkHolds(p.state, D, mm, counter, v) /\ p.rest = Piece(D, mm, l - mm)
      BY <2>1, <2>3, Zenon
    <3>. QED  BY <3>2, <3>3, Zenon
  <2>4. CASE m # l
    <3>1. m \in Nat /\ m < l
      BY <1>1, <2>4
    <3>2. p.rest # <<>>
      <4> DEFINE j == l - m
      <4>1. j \in Nat /\ j # 0 /\ m + j = l
        BY <1>1, <3>1
      <4> HIDE DEF j
      <4>2. m + j <= Len(D)
        BY <1>1, <4>1
      <4>3. Len(Piece(D, m, j)) = j
        BY <3>1, <4>1, <4>2, PieceIs
      <4>4. Len(p.rest) # 0
        BY <2>1, <4>1, <4>3 DEF j
      <4>. QED  BY <4>4
    <3>3. Turn("chunk", p) = ChunkTake(p.state, Piece(D, m, l - m))
      BY <2>1, <2>2, <3>2, Zenon
    <3>4. ChunkTaken(Turn("chunk", p), counter, D, m + 1)
      <4>1. m \in Nat /\ m < Len(D) /\ ChunkHolds(p.state, D, m, counter, u)
        BY <1>1, <2>1, <3>1
      <4>2. ChunkTaken(ChunkTake(p.state, Piece(D, m, Len(D) - m)), counter, D, m + 1)
        BY <4>1, ChunkTurns, Zenon
      <4>. QED  BY <1>1, <3>3, <4>2
    <3>5. PICK mm \in m + 1 .. Len(D), v \in Nat :
             ChunkHolds(Turn("chunk", p).state, D, mm, counter, v) /\ Turn("chunk", p).rest = Piece(D, mm, Len(D) - mm)
      BY <3>4, Zenon DEF ChunkTaken
    <3>6. mm \in n .. l /\ mm >= n + i
      BY <1>1, <2>1, <2>4, <3>1, <3>5
    <3>7. ChunkHolds(Turn("chunk", p).state, D, mm, counter, v) /\ Turn("chunk", p).rest = Piece(D, mm, l - mm)
      BY <1>1, <3>5
    <3>. QED  BY <3>6, <3>7, Zenon
  <2>. QED  BY <2>3, <2>4
<1> DEFINE W == {i \in 0 .. k : At(g[i], i)}
<1> HIDE DEF At
<1>8. 0 \in W
  <2>1. 0 \in 0 .. k /\ g[0] = b
    BY <1>1, <1>5
  <2>. QED  BY <1>6, <2>1
<1>9. ASSUME NEW i \in 1 .. k, i - 1 \in W  PROVE i \in W
  <2>1. i \in 0 .. k /\ g[i] = Turn("chunk", g[i - 1])
    BY <1>1, <1>5
  <2>2. At(g[i - 1], i - 1)
    BY <1>9
  <2>3. At(Turn("chunk", g[i - 1]), i)
    BY <1>7, <2>2, Zenon
  <2>. QED  BY <2>1, <2>3
<1> HIDE DEF W
<1>10. k \in W
  <2>1. \A i \in 0 .. k : i \in W
    BY <1>1, <1>8, <1>9, Climb
  <2>. QED  BY <1>1, <2>1
<1>11. PICK m \in n .. l, u \in Nat : (m >= n + k \/ m = l) /\ ChunkHolds(g[k].state, D, m, counter, u)
  BY <1>10, Zenon DEF W, At
<1>12. m = l
  BY <1>1, <1>11
<1>. QED  BY <1>1, <1>2, <1>3, <1>11, <1>12

ChunkState(c, d, counter) == \E q \in Nat : ChunkHolds(c, d, Len(d), counter, q)

LEMMA ChunkStarts ==
  ASSUME NEW counter
  PROVE  ChunkState(ChunkReset(counter), <<>>, counter)
<1> DEFINE c == ChunkReset(counter)
           f == [i \in 0 .. 0 |-> Iv]
<1>1. c = [cv |-> Iv, counter |-> counter, block |-> <<>>, compressed |-> 0]
  BY DEF ChunkReset
<1>2. Len(<<>>) = 0 /\ 0 * B3Block = 0 /\ 0 - 0 * B3Block = 0
  BY B3Size, Multiples
<1>3. Piece(<<>>, 0, 0) = <<>>
  BY DEF Piece
<1>4. IsChain(f, <<>>, counter, 0) /\ f[0] = Iv
  BY DEF IsChain
<1> HIDE DEF c, f
<1>5. c.cv = Iv /\ c.block = <<>> /\ c = [cv |-> c.cv, counter |-> counter, block |-> c.block, compressed |-> 0]
  BY <1>1
<1>6. 0 \in Nat /\ 0 <= 0 /\ 0 <= B3Block /\ \E g : IsChain(g, <<>>, counter, 0) /\ c.cv = g[0]
  BY <1>4, <1>5, B3Size
<1>7. ChunkHolds(c, <<>>, 0, counter, 0)
  BY <1>2, <1>3, <1>5, <1>6 DEF ChunkHolds
<1>. QED  BY <1>2, <1>7 DEF ChunkState, c

\* What was read of d is read of any D that starts with d.
LEMMA ChunkStays ==
  ASSUME NEW S, NEW d \in Seq(S), NEW D, \A k \in 1 .. Len(d) : D[k] = d[k],
         NEW c, NEW counter, NEW q, ChunkHolds(c, d, Len(d), counter, q)
  PROVE  ChunkHolds(c, D, Len(d), counter, q)
<1> DEFINE l == Len(d)
           B == B3Block
           a == q * B
<1>1. /\ l \in Nat /\ q \in Nat /\ a <= l /\ B \in Nat \ {0} /\ a \in Nat
      /\ \A k \in 1 .. l : D[k] = d[k]
  BY B3Size, Multiples DEF ChunkHolds
<1>2. c.block = Piece(d, a, l - a)
  BY Zenon DEF ChunkHolds
<1>3. PICK f : IsChain(f, d, counter, q) /\ c.cv = f[q]
  BY Zenon DEF ChunkHolds
<1>4. ASSUME NEW b \in Nat, NEW n \in Nat, b + n <= l  PROVE Piece(d, b, n) = Piece(D, b, n)
  <2>1. ASSUME NEW k \in 1 .. n  PROVE d[b + k] = D[b + k]
    <3>1. b + k \in 1 .. l
      BY <1>1, <1>4
    <3>. QED  BY <1>1, <3>1
  <2>. QED  BY <2>1 DEF Piece
<1>5. Piece(d, a, l - a) = Piece(D, a, l - a)
  <2> HIDE DEF a, l
  <2>1. l - a \in Nat /\ a + (l - a) <= l
    BY <1>1
  <2>. QED  BY <1>1, <1>4, <2>1
<1> DEFINE V(e, i) == Chained(BlockNode(f[i - 1], Piece(e, (i - 1) * B, B), counter, i))
<1>6. ASSUME NEW i \in 0 .. q, i # 0  PROVE V(d, i) = V(D, i)
  <2> DEFINE b == (i - 1) * B
  <2>1. b \in Nat /\ i * B = b + B
    BY <1>1, <1>6, Before
  <2>2. i * B <= a
    BY <1>1, Multiples
  <2> HIDE DEF a, b, l
  <2>3. b + B <= l
    BY <1>1, <2>1, <2>2
  <2>4. Piece(d, b, B) = Piece(D, b, B)
    BY <1>1, <1>4, <2>1, <2>3
  <2>. QED  BY <2>4, Zenon DEF b
<1>7. f = [i \in 0 .. q |-> IF i = 0 THEN Iv ELSE V(d, i)]
  BY <1>3, Zenon DEF IsChain
<1>8. f = [i \in 0 .. q |-> IF i = 0 THEN Iv ELSE V(D, i)]
  <2> HIDE DEF V
  <2>. QED  BY <1>6, <1>7
<1>9. IsChain(f, D, counter, q)
  BY <1>8, Zenon DEF IsChain
<1>10. \E g : IsChain(g, D, counter, q) /\ c.cv = g[q]
  BY <1>3, <1>9
<1>11. c.block = Piece(D, a, l - a)
  BY <1>2, <1>5
<1>. QED  BY <1>10, <1>11, Zenon DEF ChunkHolds

LEMMA ChunkAbsorbs ==
  ASSUME NEW S, NEW d \in Seq(S), NEW x \in Seq(S), NEW c, NEW counter, ChunkState(c, d, counter)
  PROVE  ChunkState(ChunkUpdate(c, x), d \o x, counter)
<1> DEFINE D == d \o x
           n == Len(d)
<1>1. D \in Seq(S) /\ IsJoin(D, d, x)
  BY JoinIs, Zenon
<1> HIDE DEF D
<1>2. /\ Len(D) = n + Len(x) /\ (\A k \in 1 .. n : D[k] = d[k])
      /\ (\A k \in 1 .. Len(x) : D[n + k] = x[k])
  BY <1>1 DEF IsJoin
<1>3. n \in Nat /\ Len(x) \in Nat /\ n \in 0 .. Len(D) /\ Len(D) - n = Len(x)
  BY <1>2
<1>4. x = Piece(D, n, Len(D) - n)
  BY <1>2, <1>3 DEF Piece
<1>5. PICK q \in Nat : ChunkHolds(c, d, n, counter, q)
  BY DEF ChunkState
<1>6. ChunkHolds(c, D, n, counter, q)
  BY <1>2, <1>5, ChunkStays, Zenon
<1> HIDE DEF n
<1>7. \E u \in Nat : ChunkHolds(ChunkUpdate(c, x), D, Len(D), counter, u)
  BY <1>1, <1>3, <1>4, <1>6, ChunkTakes, Zenon
<1>. QED  BY <1>7 DEF ChunkState, D

\* Data in blocks, the last of which may be full.
IsCut(cut, d, B, q, r) ==
  /\ Len(cut) = q + 1 /\ cut[q + 1] = Piece(d, q * B, r)
  /\ \A i \in 1 .. q : cut[i] = Piece(d, (i - 1) * B, B)

LEMMA LastIsHeld ==
  ASSUME NEW S, NEW d \in Seq(S), NEW B \in Nat \ {0}, NEW q \in Nat, NEW r \in 1 .. B, Len(d) = q * B + r
  PROVE  IsCut(Cut(d, B), d, B, q, r)
<1> DEFINE l == Len(d)
           a == q * B
           n == (l + B - 1) \div B
           F(i) == SubSeq(d, (i - 1) * B + 1, Min({i * B, l}))
           cut == Cut(d, B)
<1>1. l \in Nat /\ a \in Nat /\ l = a + r
  BY Multiples
<1>2. cut = [i \in 1 .. n |-> F(i)]
  BY Zenon DEF Cut
<1>3. n = q + 1
  <2>1. (q + 1) * B = a + B
    <3>1. (q + 1) * B = q * B + 1 * B /\ 1 * B = B
      BY Multiples
    <3>. QED  BY <3>1
  <2>2. r - 1 \in 0 .. B - 1 /\ q + 1 \in Nat
    OBVIOUS
  <2>3. ((q + 1) * B + (r - 1)) \div B = q + 1
    BY <2>2, QuotientIs
  <2> DEFINE b == (q + 1) * B
  <2> HIDE DEF a, l, b
  <2>4. l + B - 1 = b + (r - 1)
    BY <1>1, <2>1 DEF b
  <2>. QED  BY <2>3, <2>4 DEF b
<1> HIDE DEF a, n, cut, l
<1>4. n \in Nat
  BY <1>3
<1>5. Len(cut) = n /\ \A i \in 1 .. n : cut[i] = F(i)
  <2> HIDE DEF F
  <2>. QED  BY <1>2, <1>4
<1>6. ASSUME NEW i \in 1 .. q  PROVE cut[i] = Piece(d, (i - 1) * B, B)
  <2> DEFINE b == (i - 1) * B
             c == i * B
  <2>1. i \in Nat \ {0} /\ i <= q
    OBVIOUS
  <2>2. c = b + B /\ b \in Nat /\ c \in Nat
    BY <2>1, Before, Multiples
  <2>3. c <= a
    BY <2>1, Multiples DEF a
  <2> HIDE DEF b, c
  <2>4. c <= l
    BY <1>1, <2>2, <2>3
  <2>5. Min({c, l}) = b + B
    <3>1. Min({c, l}) = IF c <= l THEN c ELSE l
      BY <1>1, <2>2, MinOfTwo
    <3>. QED  BY <2>2, <2>4, <3>1
  <2>6. b + B <= Len(d)
    BY <2>2, <2>4 DEF l
  <2>7. SubSeq(d, b + 1, b + B) = [k \in 1 .. B |-> d[b + k]]
    BY <2>2, <2>6, PartOf
  <2>8. cut[i] = F(i)
    <3> HIDE DEF F
    <3>1. i \in 1 .. n
      BY <1>3
    <3>. QED  BY <1>5, <3>1
  <2>. QED  BY <2>5, <2>7, <2>8, Zenon DEF b, c, Piece
<1>7. cut[q + 1] = Piece(d, a, r)
  <2>1. PICK i : i = q + 1
    OBVIOUS
  <2>2. i - 1 = q /\ i \in 1 .. n /\ i \in Nat
    BY <1>3, <2>1
  <2>3. cut[i] = SubSeq(d, a + 1, Min({i * B, l}))
    BY <1>5, <2>2 DEF a
  <2>4. Min({i * B, l}) = a + r
    <3> DEFINE c == i * B
    <3>1. c = a + B /\ c \in Nat
      <4>1. (q + 1) * B = q * B + 1 * B /\ 1 * B = B
        BY Multiples
      <4>2. c = a + B
        BY <2>1, <4>1 DEF a
      <4> HIDE DEF c
      <4>. QED  BY <1>1, <4>2
    <3> HIDE DEF c
    <3>2. Min({c, l}) = IF c <= l THEN c ELSE l
      BY <1>1, <3>1, MinOfTwo
    <3>3. Min({c, l}) = a + r
      BY <1>1, <3>1, <3>2
    <3>. QED  BY <3>3 DEF c
  <2>5. r \in Nat /\ a + r <= Len(d)
    BY <1>1 DEF l
  <2>6. SubSeq(d, a + 1, a + r) = [k \in 1 .. r |-> d[a + k]]
    BY <1>1, <2>5, PartOf
  <2>. QED  BY <2>1, <2>3, <2>4, <2>6 DEF Piece
<1>. QED  BY <1>3, <1>5, <1>6, <1>7, Zenon DEF IsCut, cut, a

LEMMA ChainsAgree ==
  ASSUME NEW q \in Nat, NEW D, NEW counter, NEW f, NEW g, IsChain(f, D, counter, q), IsChain(g, D, counter, q)
  PROVE  f[q] = g[q]
<1> DEFINE V(h, i) == Chained(BlockNode(h[i - 1], Piece(D, (i - 1) * B3Block, B3Block), counter, i))
           T == {i \in 0 .. q : f[i] = g[i]}
<1>1. \A i \in 0 .. q : f[i] = IF i = 0 THEN Iv ELSE V(f, i)
  <2>1. f = [i \in 0 .. q |-> IF i = 0 THEN Iv ELSE V(f, i)]
    BY Zenon DEF IsChain
  <2> HIDE DEF V
  <2>. QED  BY <2>1
<1>2. \A i \in 0 .. q : g[i] = IF i = 0 THEN Iv ELSE V(g, i)
  <2>1. g = [i \in 0 .. q |-> IF i = 0 THEN Iv ELSE V(g, i)]
    BY Zenon DEF IsChain
  <2> HIDE DEF V
  <2>. QED  BY <2>1
<1>3. 0 \in T
  BY <1>1, <1>2
<1>4. ASSUME NEW i \in 1 .. q, i - 1 \in T  PROVE i \in T
  <2>1. i \in 0 .. q /\ i # 0
    OBVIOUS
  <2>2. f[i] = V(f, i) /\ g[i] = V(g, i)
    BY <1>1, <1>2, <2>1
  <2>3. f[i - 1] = g[i - 1]
    BY <1>4
  <2>4. V(f, i) = V(g, i)
    BY <2>3, Zenon
  <2>. QED  BY <2>1, <2>2, <2>4
<1> HIDE DEF T
<1>5. \A i \in 0 .. q : i \in T
  BY <1>3, <1>4, Climb
<1>6. q \in 0 .. q
  OBVIOUS
<1>. QED  BY <1>5, <1>6 DEF T

\* The blocks of a chunk, or the chunks of a message: an empty one has one of none.
Held(x, B) == IF x = <<>> THEN <<x>> ELSE Cut(x, B)

LEMMA HeldIs ==
  ASSUME NEW S, NEW x \in Seq(S), NEW B \in Nat \ {0}, NEW q \in Nat,
         q * B <= Len(x), Len(x) - q * B <= B, Len(x) # 0 => q * B < Len(x)
  PROVE  IsCut(Held(x, B), x, B, q, Len(x) - q * B)
<1> DEFINE l == Len(x)
           a == q * B
           r == l - a
           cut == Held(x, B)
<1>1. l \in Nat /\ a \in Nat /\ a <= l /\ r <= B /\ (l # 0 => a < l)
  BY Multiples
<1> HIDE DEF a, l, cut
<1>2. CASE l = 0
  <2>1. x = <<>>
    BY <1>2, EmptySeq DEF l
  <2>2. cut = <<x>>
    BY <2>1, Zenon DEF Held, cut
  <2>3. q = 0
    <3>1. q # 0 => 1 <= q
      OBVIOUS
    <3>2. q # 0 => 1 * B <= q * B /\ 1 * B = B
      BY <3>1, Multiples
    <3> DEFINE w == 1 * B
    <3> HIDE DEF w
    <3>3. q # 0 => w <= a /\ w = B
      BY <3>2 DEF w, a
    <3>. QED  BY <1>1, <1>2, <3>3
  <2>4. a = 0 /\ r = 0
    BY <1>1, <1>2
  <2>5. Piece(x, a, r) = <<>>
    <3>1. Piece(x, 0, 0) = <<>>
      BY DEF Piece
    <3>. QED  BY <2>4, <3>1
  <2> HIDE DEF r
  <2>6. Len(cut) = q + 1 /\ cut[q + 1] = Piece(x, a, r)
    BY <2>1, <2>2, <2>3, <2>5
  <2>7. \A i \in 1 .. q : cut[i] = Piece(x, (i - 1) * B, B)
    <3>1. \A i \in 1 .. q : FALSE
      BY <2>3
    <3>. QED  BY <3>1, Zenon
  <2>. QED  BY <2>6, <2>7, Zenon DEF IsCut, a, r, l, cut
<1>3. CASE l # 0
  <2>1. r \in 1 .. B /\ l = a + r
    BY <1>1, <1>3
  <2>2. x # <<>>
    BY <1>3 DEF l
  <2>3. cut = Cut(x, B)
    BY <2>2, Zenon DEF Held, cut
  <2>4. IsCut(Cut(x, B), x, B, q, r)
    <3> HIDE DEF r
    <3>1. Len(x) = q * B + r
      BY <2>1 DEF l, a
    <3>. QED  BY <2>1, <3>1, LastIsHeld, Zenon
  <2>. QED  BY <2>3, <2>4, Zenon DEF a, r, l, cut
<1>. QED  BY <1>2, <1>3

LEMMA ChunkBlocks ==
  ASSUME NEW S, NEW x \in Seq(S), NEW c, NEW counter, NEW q, ChunkHolds(c, x, Len(x), counter, q)
  PROVE  /\ Len(Held(x, B3Block)) = q + 1 /\ Held(x, B3Block)[q + 1] = c.block
         /\ \A i \in 1 .. q : Held(x, B3Block)[i] = Piece(x, (i - 1) * B3Block, B3Block)
<1>1. /\ q \in Nat /\ q * B3Block <= Len(x) /\ Len(x) - q * B3Block <= B3Block
      /\ (Len(x) # 0 => q * B3Block < Len(x)) /\ c.block = Piece(x, q * B3Block, Len(x) - q * B3Block)
  BY Zenon DEF ChunkHolds
<1>2. B3Block \in Nat \ {0}
  BY B3Size
<1>3. IsCut(Held(x, B3Block), x, B3Block, q, Len(x) - q * B3Block)
  BY <1>1, <1>2, HeldIs, Zenon
<1>. QED  BY <1>1, <1>3, Zenon DEF IsCut

\* chunk_output is what the paper says of the chunk.
LEMMA LeafIs ==
  ASSUME NEW S, NEW x \in Seq(S), NEW c, NEW counter, ChunkState(c, x, counter)
  PROVE  ChunkOutput(c) = StandardLeaf(x, counter)
<1>1. PICK q \in Nat : ChunkHolds(c, x, Len(x), counter, q)
  BY DEF ChunkState
<1> DEFINE bs == Held(x, B3Block)
           Node(cv, i) == [cv |-> cv, words |-> [bytes |-> bs[i]], counter |-> counter, len |-> Len(bs[i]),
                           flags |-> (IF i = 1 THEN {"start"} ELSE {}) \cup (IF i = Len(bs) THEN {"end"} ELSE {})]
           V(h, i) == Chained(Node(h[i - 1], i))
           W(h, i) == Chained(BlockNode(h[i - 1], Piece(x, (i - 1) * B3Block, B3Block), counter, i))
           g == CHOOSE h : h = [i \in 0 .. Len(bs) - 1 |-> IF i = 0 THEN Iv ELSE V(h, i)]
<1>2. StandardLeaf(x, counter) = Node(g[Len(bs) - 1], Len(bs))
  BY Zenon DEF StandardLeaf, Held
<1>3. Len(bs) = q + 1 /\ bs[q + 1] = c.block /\ \A i \in 1 .. q : bs[i] = Piece(x, (i - 1) * B3Block, B3Block)
  BY <1>1, ChunkBlocks
<1>4. PICK f : IsChain(f, x, counter, q) /\ c.cv = f[q]
  BY <1>1, Zenon DEF ChunkHolds
<1> HIDE DEF bs
<1>5. Len(bs) - 1 = q
  BY <1>3
<1>6. ASSUME NEW cv, NEW i \in 1 .. q
      PROVE  Node(cv, i) = BlockNode(cv, Piece(x, (i - 1) * B3Block, B3Block), counter, i)
  <2> DEFINE p == Piece(x, (i - 1) * B3Block, B3Block)
             s == IF i = 1 THEN {"start"} ELSE {}
  <2>1. i # Len(bs)
    BY <1>3
  <2>2. bs[i] = p
    BY <1>3
  <2> HIDE DEF p, s
  <2>3. s \cup (IF i = Len(bs) THEN {"end"} ELSE {}) = s
    BY <2>1
  <2>4. Node(cv, i) = [cv |-> cv, words |-> [bytes |-> p], counter |-> counter, len |-> Len(p), flags |-> s]
    BY <2>2, <2>3, Zenon DEF s
  <2>. QED  BY <2>4, Zenon DEF BlockNode, p, s
<1>7. ASSUME NEW h, NEW i \in 1 .. q  PROVE V(h, i) = W(h, i)
  BY <1>6, Zenon
<1> HIDE DEF Node
<1>8. ASSUME NEW h  PROVE [i \in 0 .. q |-> IF i = 0 THEN Iv ELSE V(h, i)] = [i \in 0 .. q |-> IF i = 0 THEN Iv ELSE W(h, i)]
  <2>1. \A i \in 0 .. q : i # 0 => i \in 1 .. q
    OBVIOUS
  <2>2. \A i \in 1 .. q : V(h, i) = W(h, i)
    BY <1>7
  <2> HIDE DEF V, W
  <2>. QED  BY <2>1, <2>2
<1>9. g = CHOOSE h : h = [i \in 0 .. q |-> IF i = 0 THEN Iv ELSE V(h, i)]
  BY <1>5
<1> HIDE DEF g
<1>10. f = [i \in 0 .. q |-> IF i = 0 THEN Iv ELSE V(f, i)]
  <2>1. f = [i \in 0 .. q |-> IF i = 0 THEN Iv ELSE W(f, i)]
    BY <1>4, Zenon DEF IsChain
  <2> HIDE DEF V, W
  <2>. QED  BY <1>8, <2>1, Zenon
<1>11. g = [i \in 0 .. q |-> IF i = 0 THEN Iv ELSE V(g, i)]
  <2> HIDE DEF V
  <2>. QED  BY <1>9, <1>10, Zenon
<1>12. IsChain(g, x, counter, q)
  <2>1. g = [i \in 0 .. q |-> IF i = 0 THEN Iv ELSE W(g, i)]
    <3> HIDE DEF V, W
    <3>. QED  BY <1>8, <1>11, Zenon
  <2>. QED  BY <2>1, Zenon DEF IsChain
<1>13. g[q] = c.cv
  BY <1>4, <1>12, ChainsAgree
<1>14. StandardLeaf(x, counter) = Node(c.cv, q + 1)
  BY <1>2, <1>3, <1>5, <1>13
<1>15. c.counter = counter /\ c.compressed = q
  <2>1. c = [cv |-> c.cv, counter |-> counter, block |-> c.block, compressed |-> q]
    BY <1>1, Zenon DEF ChunkHolds
  <2>. QED  BY <2>1
<1>16. {"end"} \cup (IF c.compressed = 0 THEN {"start"} ELSE {})
         = (IF q + 1 = 1 THEN {"start"} ELSE {}) \cup (IF q + 1 = Len(bs) THEN {"end"} ELSE {})
  <2>1. q = 0 <=> q + 1 = 1
    OBVIOUS
  <2>. QED  BY <1>3, <1>15, <2>1
<1>17. ChunkOutput(c) = Node(c.cv, q + 1)
  BY <1>3, <1>15, <1>16, Zenon DEF ChunkOutput, BlockOutput, Node
<1>. QED  BY <1>14, <1>17

\* What is in a chunk.
LEMMA ChunkLenIs ==
  ASSUME NEW S, NEW x \in Seq(S), NEW c, NEW counter, ChunkState(c, x, counter)
  PROVE  ChunkLen(c) = Len(x) /\ c.counter = counter
<1>1. PICK q \in Nat : ChunkHolds(c, x, Len(x), counter, q)
  BY DEF ChunkState
<1> DEFINE l == Len(x)
           a == q * B3Block
           r == l - a
<1>2. l \in Nat /\ a \in Nat /\ a <= l
  BY <1>1, B3Size, Multiples DEF ChunkHolds
<1>3. c.block = Piece(x, a, r)
  BY <1>1, Zenon DEF ChunkHolds
<1>4. c.counter = counter /\ c.compressed = q
  <2>1. c = [cv |-> c.cv, counter |-> counter, block |-> c.block, compressed |-> q]
    BY <1>1, Zenon DEF ChunkHolds
  <2>. QED  BY <2>1
<1>5. B3Block * c.compressed = a
  BY <1>4, B3Size
<1> HIDE DEF a, l
<1>6. r \in Nat /\ a + r = l
  BY <1>2
<1>7. Len(c.block) = r
  <2> HIDE DEF r
  <2>. QED  BY <1>2, <1>3, <1>6, PieceIs DEF l
<1>. QED  BY <1>4, <1>5, <1>6, <1>7 DEF ChunkLen, l

-----------------------------------------------------------------------------
(* BLAKE3 holds back its last chunk in the same way. *)

Leaves(D, m) == [i \in 1 .. m |-> StandardLeaf(Piece(D, (i - 1) * B3Chunk, B3Chunk), i - 1)]

\* s has taken the first n bytes of D, and pushed m chunks.
B3Holds(s, D, n, m) ==
  /\ s = [chunk |-> s.chunk, stack |-> s.stack]
  /\ m \in Nat /\ m * B3Chunk <= n /\ n - m * B3Chunk <= B3Chunk /\ (n # 0 => m * B3Chunk < n)
  /\ ChunkState(s.chunk, Piece(D, m * B3Chunk, n - m * B3Chunk), m)
  /\ HasSpine(s.stack, Leaves(D, m), m)

B3Taken(t, D, n) ==
  \E k \in n .. Len(D), u \in Nat : B3Holds(t.state, D, k, u) /\ t.rest = Piece(D, k, Len(D) - k)

\* A full chunk is the next leaf.
LEMMA LeafIsPushed ==
  ASSUME NEW S, NEW D, NEW m \in Nat, NEW x \in Seq(S), x = Piece(D, m * B3Chunk, B3Chunk),
         NEW c, ChunkState(c, x, m), NEW stack, HasSpine(stack, Leaves(D, m), m)
  PROVE  HasSpine(Push(stack, Chained(ChunkOutput(c)), m + 1), Leaves(D, m + 1), m + 1)
<1> DEFINE l == Leaves(D, m)
           h == Leaves(D, m + 1)
           F(i) == StandardLeaf(Piece(D, (i - 1) * B3Chunk, B3Chunk), i - 1)
<1>1. l = [i \in 1 .. m |-> F(i)] /\ h = [i \in 1 .. m + 1 |-> F(i)]
  BY Zenon DEF Leaves
<1>2. F(m + 1) = ChunkOutput(c)
  <2>1. (m + 1) - 1 = m
    OBVIOUS
  <2>2. ChunkOutput(c) = StandardLeaf(x, m)
    BY LeafIs
  <2>. QED  BY <2>1, <2>2
<1> HIDE DEF l, h, F
<1>3. /\ Len(l) = m /\ Len(h) = m + 1 /\ h[m + 1] = F(m + 1)
      /\ \A i \in 1 .. m : h[i] = l[i]
  BY <1>1
<1>4. HasSpine(stack, h, m)
  <2>1. Len(l) \in Nat /\ Len(h) \in Nat /\ Len(l) <= Len(h) /\ \A i \in 1 .. Len(l) : h[i] = l[i]
    BY <1>3
  <2>2. HasSpine(stack, l, Len(l))
    BY <1>3 DEF l
  <2>3. HasSpine(stack, h, Len(l))
    BY <2>1, <2>2, SpinesStay, Zenon
  <2>. QED  BY <1>3, <2>3
<1>5. HasSpine(Push(stack, Chained(h[m + 1]), m + 1), h, m + 1)
  BY <1>3, <1>4, PushIs, Zenon
<1>6. h[m + 1] = ChunkOutput(c)
  BY <1>2, <1>3
<1>. QED  BY <1>5, <1>6, Zenon DEF h

LEMMA B3Turns ==
  ASSUME NEW S, NEW D \in Seq(S), NEW n \in Nat, n < Len(D), NEW s, NEW m, B3Holds(s, D, n, m)
  PROVE  B3Taken(B3Take(s, Piece(D, n, Len(D) - n)), D, n + 1)
<1> DEFINE C == B3Chunk
           l == Len(D)
           rest == Piece(D, n, l - n)
           total == s.chunk.counter + 1
           d == IF ChunkLen(s.chunk) < C THEN s
                ELSE [chunk |-> ChunkReset(total),
                      stack |-> Push(s.stack, Chained(ChunkOutput(s.chunk)), total)]
           take == Min({Len(rest), C - ChunkLen(d.chunk)})
           k == n + take
           more == SubSeq(rest, 1, take)
           filled == [d EXCEPT !.chunk = ChunkUpdate(@, more)]
           t == B3Take(s, rest)
<1>1. C \in Nat \ {0} /\ l \in Nat /\ n < l /\ m \in Nat
  BY B3Size DEF B3Holds
\* d holds n bytes too, and has room for one more.
<1>2. PICK u \in Nat :
        /\ d = [chunk |-> d.chunk, stack |-> d.stack]
        /\ u * C <= n /\ n - u * C < C
        /\ ChunkState(d.chunk, Piece(D, u * C, n - u * C), u)
        /\ HasSpine(d.stack, Leaves(D, u), u)
  <2> DEFINE a == m * C
             r == n - a
             x == Piece(D, a, r)
  <2>1. /\ s = [chunk |-> s.chunk, stack |-> s.stack] /\ a <= n /\ r <= C
        /\ ChunkState(s.chunk, x, m) /\ HasSpine(s.stack, Leaves(D, m), m)
    BY Zenon DEF B3Holds
  <2>2. a \in Nat
    BY <1>1, Multiples
  <2> HIDE DEF a
  <2>3. r \in Nat /\ a + r = n /\ a + r <= Len(D)
    BY <1>1, <2>1, <2>2
  <2> HIDE DEF r
  <2>4. x \in Seq(S) /\ Len(x) = r
    BY <2>2, <2>3, PieceIs
  <2> HIDE DEF x
  <2>5. ChunkLen(s.chunk) = r /\ s.chunk.counter = m
    BY <2>1, <2>4, ChunkLenIs
  <2>6. CASE r < C
    <3>1. d = s
      BY <2>5, <2>6, Zenon
    <3> HIDE DEF d
    <3>2. a <= n /\ n - a < C /\ ChunkState(d.chunk, Piece(D, a, n - a), m)
      BY <2>1, <2>6, <3>1 DEF r, x
    <3>. QED  BY <1>1, <2>1, <3>1, <3>2, Zenon DEF a
  <2>7. CASE ~ (r < C)
    <3> DEFINE N == m + 1
               stack == Push(s.stack, Chained(ChunkOutput(s.chunk)), N)
    <3>1. r = C /\ n = a + C /\ total = N
      BY <1>1, <2>1, <2>3, <2>5, <2>7
    <3>2. d = [chunk |-> ChunkReset(N), stack |-> stack]
      <4>1. ~ (ChunkLen(s.chunk) < C)
        BY <2>5, <2>7
      <4>2. d = [chunk |-> ChunkReset(total), stack |-> Push(s.stack, Chained(ChunkOutput(s.chunk)), total)]
        BY <4>1, Zenon
      <4> HIDE DEF N, d
      <4>. QED  BY <3>1, <4>2
    <3>3. HasSpine(stack, Leaves(D, N), N)
      <4>1. x = Piece(D, m * C, C)
        BY <3>1 DEF x, a
      <4> HIDE DEF C
      <4>. QED  BY <1>1, <2>1, <2>4, <4>1, LeafIsPushed DEF C
    <3>4. N * C = n /\ N \in Nat
      <4>1. (m + 1) * C = a + C
        BY <1>1, Multiples DEF a
      <4>. QED  BY <1>1, <3>1, <4>1
    <3>5. ChunkState(ChunkReset(N), <<>>, N)
      BY ChunkStarts
    <3>6. Piece(D, n, 0) = <<>> /\ n - n = 0 /\ n <= n /\ 0 < C
      BY <1>1 DEF Piece
    <3> HIDE DEF stack, d, N
    <3>7. d.chunk = ChunkReset(N) /\ d.stack = stack /\ d = [chunk |-> d.chunk, stack |-> d.stack]
      BY <3>2
    <3>8. N * C <= n /\ n - N * C < C /\ ChunkState(d.chunk, Piece(D, N * C, n - N * C), N)
      BY <3>4, <3>5, <3>6, <3>7
    <3>9. HasSpine(d.stack, Leaves(D, N), N)
      BY <3>3, <3>7
    <3>. QED  BY <3>4, <3>7, <3>8, <3>9, Zenon
  <2>. QED  BY <2>6, <2>7
<1>3. t.state = filled /\ t.rest = After(rest, take)
  <2>1. t = [state |-> filled, rest |-> After(rest, take)]
    BY Zenon DEF B3Take
  <2> HIDE DEF t, filled, take, rest
  <2>. QED  BY <2>1
<1> DEFINE a == u * C
           r == n - a
<1>4. a \in Nat /\ r \in Nat /\ a + r = n /\ r < C /\ ChunkState(d.chunk, Piece(D, a, r), u)
  <2>1. a \in Nat /\ a <= n
    BY <1>1, <1>2, Multiples
  <2>2. r < C /\ ChunkState(d.chunk, Piece(D, a, r), u)
    BY <1>2, Zenon
  <2> HIDE DEF a
  <2>. QED  BY <2>1, <2>2
<1> HIDE DEF d, a, r, l
<1>5. Piece(D, a, r) \in Seq(S) /\ ChunkLen(d.chunk) = r
  <2> DEFINE x == Piece(D, a, r)
  <2>1. a + r <= Len(D)
    BY <1>1, <1>4 DEF l
  <2>2. x \in Seq(S) /\ Len(x) = r
    BY <1>4, <2>1, PieceIs
  <2>3. ChunkState(d.chunk, x, u)
    BY <1>4
  <2> HIDE DEF x
  <2>4. ChunkLen(d.chunk) = r
    BY <2>2, <2>3, ChunkLenIs
  <2>. QED  BY <2>2, <2>4 DEF x
<1>6. rest \in Seq(S) /\ Len(rest) = l - n
  <2> DEFINE j == l - n
  <2>1. j \in Nat /\ n + j = l
    BY <1>1
  <2> HIDE DEF j
  <2>2. n + j <= Len(D)
    BY <1>1, <2>1 DEF l
  <2>3. Piece(D, n, j) \in Seq(S) /\ Len(Piece(D, n, j)) = j
    BY <2>1, <2>2, PieceIs
  <2>. QED  BY <2>3 DEF j
<1>7. take \in 1 .. l - n /\ r + take <= C
  <2>1. l - n \in Nat /\ C - r \in Nat
    BY <1>1, <1>4
  <2>2. take = IF l - n <= C - r THEN l - n ELSE C - r
    BY <1>5, <1>6, <2>1, MinOfTwo
  <2> HIDE DEF take
  <2>. QED  BY <1>1, <1>4, <2>2
<1> HIDE DEF take
<1>8. more = Piece(D, n, take) /\ more \in Seq(S)
  <2> DEFINE j == l - n
  <2>1. j \in Nat /\ n + j <= Len(D) /\ take \in 0 .. j /\ take \in Nat /\ n + take <= Len(D)
    BY <1>1, <1>7 DEF l
  <2> HIDE DEF j
  <2>2. SubSeq(Piece(D, n, j), 1, take) = Piece(D, n, take)
    BY <2>1, PieceStarts
  <2>3. Piece(D, n, take) \in Seq(S)
    BY <2>1, PieceIs
  <2>. QED  BY <2>2, <2>3 DEF j
<1>9. k \in n + 1 .. l /\ k \in Nat
  BY <1>1, <1>7
<1>10. After(rest, take) = Piece(D, k, l - k)
  <2> DEFINE j == l - n
  <2>1. j \in Nat /\ n + j <= Len(D) /\ take \in 0 .. j /\ j - take = l - k
    BY <1>1, <1>7 DEF l
  <2> HIDE DEF j, k
  <2>2. After(Piece(D, n, j), take) = Piece(D, n + take, j - take)
    BY <2>1, PieceEnds
  <2>. QED  BY <2>1, <2>2 DEF j, k
<1> DEFINE chunk == ChunkUpdate(d.chunk, more)
<1>11. ChunkState(chunk, Piece(D, a, k - a), u) /\ a < k /\ k - a <= C
  <2>1. take \in Nat /\ a + r + take <= Len(D) /\ k - a = r + take /\ a < k /\ k - a <= C
    BY <1>1, <1>4, <1>7 DEF l
  <2>2. Piece(D, a, r) \o Piece(D, a + r, take) = Piece(D, a, r + take)
    BY <1>4, <2>1, PiecesJoin
  <2> DEFINE x == Piece(D, a, r)
  <2>3. x \o more = Piece(D, a, k - a)
    BY <1>4, <1>8, <2>1, <2>2
  <2>4. x \in Seq(S) /\ ChunkState(d.chunk, x, u)
    BY <1>4, <1>5
  <2> HIDE DEF x, more
  <2>5. ChunkState(ChunkUpdate(d.chunk, more), x \o more, u)
    BY <1>8, <2>4, ChunkAbsorbs, Zenon
  <2>. QED  BY <2>1, <2>3, <2>5
<1> HIDE DEF chunk
<1>12. t.state = [chunk |-> chunk, stack |-> d.stack]
  <2> DEFINE g == [chunk |-> d.chunk, stack |-> d.stack]
  <2>1. filled = [d EXCEPT !.chunk = ChunkUpdate(@, more)]
    BY Zenon
  <2>2. d = g
    BY <1>2
  <2> HIDE DEF more, g, filled
  <2>3. filled = [g EXCEPT !.chunk = ChunkUpdate(g.chunk, more)]
    BY <2>1, <2>2, Zenon
  <2>4. ChunkUpdate(g.chunk, more) = chunk
    BY <2>2, Zenon DEF chunk
  <2>5. [g EXCEPT !.chunk = chunk] = [chunk |-> chunk, stack |-> d.stack]
    BY DEF g
  <2>. QED  BY <1>3, <2>3, <2>4, <2>5, Zenon
<1>13. t.rest = Piece(D, k, l - k)
  BY <1>3, <1>10
<1> HIDE DEF t, k, rest, filled, more
<1>14. /\ t.state.chunk = chunk /\ t.state.stack = d.stack
       /\ t.state = [chunk |-> t.state.chunk, stack |-> t.state.stack]
  BY <1>12
<1>15. B3Holds(t.state, D, k, u)
  <2>1. a <= k /\ a < k
    BY <1>4, <1>9, <1>11
  <2>2. ChunkState(t.state.chunk, Piece(D, a, k - a), u) /\ HasSpine(t.state.stack, Leaves(D, u), u)
    BY <1>2, <1>11, <1>14
  <2>. QED  BY <1>11, <1>14, <2>1, <2>2, Zenon DEF B3Holds, a
<1>16. B3Taken(t, D, n + 1)
  BY <1>9, <1>13, <1>15, Zenon DEF B3Taken, l
<1>. QED  BY <1>16, Zenon DEF t, rest, l

\* Whatever pieces a message comes in, it is the message.
LEMMA B3Takes ==
  ASSUME NEW S, NEW D \in Seq(S), NEW n \in 0 .. Len(D), NEW s, NEW q,
         B3Holds(s, D, n, q), NEW x, x = Piece(D, n, Len(D) - n)
  PROVE  \E u \in Nat : B3Holds(B3Update(s, x), D, Len(D), u)
<1> DEFINE l == Len(D)
           k == l - n
           b == [state |-> s, rest |-> x]
           At(p, i) == \E m \in n .. l, u \in Nat :
                         /\ m >= n + i \/ m = l
                         /\ B3Holds(p.state, D, m, u) /\ p.rest = Piece(D, m, l - m)
           g == CHOOSE f : f = [i \in 0 .. Len(x) |-> IF i = 0 THEN b ELSE
                  IF f[i - 1].rest = <<>> THEN f[i - 1] ELSE B3Take(f[i - 1].state, f[i - 1].rest)]
<1>1. l \in Nat /\ n \in Nat /\ k \in Nat /\ n + k = l /\ Len(D) = l
  OBVIOUS
<1>2. Len(x) = k
  <2> HIDE DEF k
  <2>1. n + k <= Len(D)
    BY <1>1
  <2>. QED  BY <1>1, <2>1, PieceIs DEF k
<1> HIDE DEF b
<1>3. B3Update(s, x) = g[Len(x)].state
  BY Zenon DEF B3Update, Loop, b
<1>4. IsTurns(g, "blake3", b, Len(x))
  <2>1. PICK f : IsTurns(f, "blake3", b, Len(x))
    BY <1>1, <1>2, TurnsExist
  <2>2. "blake3" # "merge" /\ "blake3" # "chunk"
    OBVIOUS
  <2>3. f = [i \in 0 .. Len(x) |-> IF i = 0 THEN b ELSE
              IF f[i - 1].rest = <<>> THEN f[i - 1] ELSE B3Take(f[i - 1].state, f[i - 1].rest)]
    BY <2>1, <2>2, Zenon DEF IsTurns, Turn
  <2>4. g = [i \in 0 .. Len(x) |-> IF i = 0 THEN b ELSE
              IF g[i - 1].rest = <<>> THEN g[i - 1] ELSE B3Take(g[i - 1].state, g[i - 1].rest)]
    BY <2>3, Zenon
  <2>. QED  BY <2>2, <2>4, Zenon DEF IsTurns, Turn
<1> HIDE DEF g
<1>5. \A i \in 0 .. k : g[i] = IF i = 0 THEN b ELSE Turn("blake3", g[i - 1])
  BY <1>2, <1>4, Zenon DEF IsTurns
<1>6. At(b, 0)
  <2>1. b.state = s /\ b.rest = x
    BY DEF b
  <2>2. n \in n .. l /\ n >= n + 0 /\ q \in Nat
    BY <1>1 DEF B3Holds
  <2>3. B3Holds(b.state, D, n, q) /\ b.rest = Piece(D, n, l - n)
    BY <2>1
  <2>. QED  BY <2>2, <2>3, Zenon
<1> HIDE DEF l, k
<1>7. ASSUME NEW i \in 1 .. k, NEW p, At(p, i - 1)  PROVE At(Turn("blake3", p), i)
  <2>1. PICK m \in n .. l, u \in Nat :
          /\ m >= n + (i - 1) \/ m = l
          /\ B3Holds(p.state, D, m, u) /\ p.rest = Piece(D, m, l - m)
    BY <1>7
  <2>2. Turn("blake3", p) = IF p.rest = <<>> THEN p ELSE B3Take(p.state, p.rest)
    BY DEF Turn
  <2>3. CASE m = l
    <3>1. p.rest = <<>>
      <4>1. l - l = 0
        BY <1>1
      <4>2. p.rest = Piece(D, l, 0)
        BY <2>1, <2>3, <4>1
      <4>. QED  BY <4>2 DEF Piece
    <3>2. Turn("blake3", p) = p
      BY <2>2, <3>1, Zenon
    <3>3. \E mm \in n .. l, v \in Nat :
             /\ mm >= n + i \/ mm = l
             /\ B3Holds(p.state, D, mm, v) /\ p.rest = Piece(D, mm, l - mm)
      BY <2>1, <2>3, Zenon
    <3>. QED  BY <3>2, <3>3, Zenon
  <2>4. CASE m # l
    <3>1. m \in Nat /\ m < l
      BY <1>1, <2>4
    <3>2. p.rest # <<>>
      <4> DEFINE j == l - m
      <4>1. j \in Nat /\ j # 0 /\ m + j = l
        BY <1>1, <3>1
      <4> HIDE DEF j
      <4>2. m + j <= Len(D)
        BY <1>1, <4>1
      <4>3. Len(Piece(D, m, j)) = j
        BY <3>1, <4>1, <4>2, PieceIs
      <4>4. Len(p.rest) # 0
        BY <2>1, <4>1, <4>3 DEF j
      <4>. QED  BY <4>4
    <3>3. Turn("blake3", p) = B3Take(p.state, Piece(D, m, l - m))
      BY <2>1, <2>2, <3>2, Zenon
    <3>4. B3Taken(Turn("blake3", p), D, m + 1)
      <4>1. m \in Nat /\ m < Len(D) /\ B3Holds(p.state, D, m, u)
        BY <1>1, <2>1, <3>1
      <4>2. B3Taken(B3Take(p.state, Piece(D, m, Len(D) - m)), D, m + 1)
        BY <4>1, B3Turns, Zenon
      <4>. QED  BY <1>1, <3>3, <4>2
    <3>5. PICK mm \in m + 1 .. Len(D), v \in Nat :
             B3Holds(Turn("blake3", p).state, D, mm, v) /\ Turn("blake3", p).rest = Piece(D, mm, Len(D) - mm)
      BY <3>4, Zenon DEF B3Taken
    <3>6. mm \in n .. l /\ mm >= n + i
      BY <1>1, <2>1, <2>4, <3>1, <3>5
    <3>7. B3Holds(Turn("blake3", p).state, D, mm, v) /\ Turn("blake3", p).rest = Piece(D, mm, l - mm)
      BY <1>1, <3>5
    <3>. QED  BY <3>6, <3>7, Zenon
  <2>. QED  BY <2>3, <2>4
<1> DEFINE W == {i \in 0 .. k : At(g[i], i)}
<1> HIDE DEF At
<1>8. 0 \in W
  <2>1. 0 \in 0 .. k /\ g[0] = b
    BY <1>1, <1>5
  <2>. QED  BY <1>6, <2>1
<1>9. ASSUME NEW i \in 1 .. k, i - 1 \in W  PROVE i \in W
  <2>1. i \in 0 .. k /\ g[i] = Turn("blake3", g[i - 1])
    BY <1>1, <1>5
  <2>2. At(g[i - 1], i - 1)
    BY <1>9
  <2>3. At(Turn("blake3", g[i - 1]), i)
    BY <1>7, <2>2, Zenon
  <2>. QED  BY <2>1, <2>3
<1> HIDE DEF W
<1>10. k \in W
  <2>1. \A i \in 0 .. k : i \in W
    BY <1>1, <1>8, <1>9, Climb
  <2>. QED  BY <1>1, <2>1
<1>11. PICK m \in n .. l, u \in Nat : (m >= n + k \/ m = l) /\ B3Holds(g[k].state, D, m, u)
  BY <1>10, Zenon DEF W, At
<1>12. m = l
  BY <1>1, <1>11
<1>. QED  BY <1>1, <1>2, <1>3, <1>11, <1>12

B3State(s, d) == \E m \in Nat : B3Holds(s, d, Len(d), m)

LEMMA B3Starts == B3State(B3Init, <<>>)
<1> DEFINE p == [i \in 0 .. 0 |-> 0]
<1>1. Len(<<>>) = 0 /\ 0 * B3Chunk = 0 /\ 0 - 0 = 0 /\ B3Chunk \in Nat
  BY B3Size, Multiples
<1>2. Piece(<<>>, 0, 0) = <<>>
  BY DEF Piece
<1>3. B3Init.chunk = ChunkReset(0) /\ B3Init.stack = <<>> /\ B3Init = [chunk |-> B3Init.chunk, stack |-> B3Init.stack]
  BY DEF B3Init
<1>4. ChunkState(ChunkReset(0), <<>>, 0)
  BY ChunkStarts
<1>5. HasSpine(<<>>, Leaves(<<>>, 0), 0)
  <2>1. p \in [0 .. 0 -> Nat] /\ p[0] = 0
    OBVIOUS
  <2>2. /\ \A i \in 0 .. 0 : \A j \in i .. 0 : p[i] <= p[j]
        /\ \A i \in 1 .. 0 : Power(Width(p, i)) /\ Multiple(p[i - 1], 2 * Width(p, i)) /\ 0 - p[i] < Width(p, i)
    OBVIOUS
  <2>3. <<>> = [i \in 1 .. 0 |-> Subtree(Leaves(<<>>, 0), p, i)]
    OBVIOUS
  <2>4. IsSpine(p, 0, <<>>, Leaves(<<>>, 0), 0)
    BY <2>1, <2>2, <2>3 DEF IsSpine
  <2>. QED  BY <2>4 DEF HasSpine
<1> HIDE DEF p
<1>6. 0 <= 0 /\ 0 <= B3Chunk /\ 0 \in Nat
  BY B3Size
<1>7. ChunkState(B3Init.chunk, Piece(<<>>, 0 * B3Chunk, 0 - 0 * B3Chunk), 0)
  BY <1>1, <1>2, <1>3, <1>4
<1>8. B3Holds(B3Init, <<>>, 0, 0)
  BY <1>1, <1>3, <1>5, <1>6, <1>7 DEF B3Holds
<1>. QED  BY <1>1, <1>6, <1>8 DEF B3State

LEMMA B3Stays ==
  ASSUME NEW S, NEW d \in Seq(S), NEW D, \A k \in 1 .. Len(d) : D[k] = d[k],
         NEW s, NEW m, B3Holds(s, d, Len(d), m)
  PROVE  B3Holds(s, D, Len(d), m)
<1> DEFINE l == Len(d)
           C == B3Chunk
           a == m * C
<1>1. /\ l \in Nat /\ m \in Nat /\ a <= l /\ C \in Nat \ {0} /\ a \in Nat
      /\ \A k \in 1 .. l : D[k] = d[k]
  <2>1. m \in Nat /\ a <= l
    BY Zenon DEF B3Holds
  <2>2. C \in Nat \ {0}
    BY B3Size
  <2>3. a \in Nat
    BY <2>1, <2>2, Multiples
  <2> HIDE DEF a
  <2>. QED  BY <2>1, <2>2, <2>3
<1>2. ChunkState(s.chunk, Piece(d, a, l - a), m) /\ HasSpine(s.stack, Leaves(d, m), m)
  BY Zenon DEF B3Holds
<1>3. ASSUME NEW b \in Nat, NEW n \in Nat, b + n <= l  PROVE Piece(d, b, n) = Piece(D, b, n)
  <2>1. ASSUME NEW k \in 1 .. n  PROVE d[b + k] = D[b + k]
    <3>1. b + k \in 1 .. l
      BY <1>1, <1>3
    <3>. QED  BY <1>1, <3>1
  <2>. QED  BY <2>1 DEF Piece
<1>4. Piece(d, a, l - a) = Piece(D, a, l - a)
  <2> HIDE DEF a, l
  <2>1. l - a \in Nat /\ a + (l - a) <= l
    BY <1>1
  <2>. QED  BY <1>1, <1>3, <2>1
<1> DEFINE F(e, i) == StandardLeaf(Piece(e, (i - 1) * C, C), i - 1)
<1>5. ASSUME NEW i \in 1 .. m  PROVE F(d, i) = F(D, i)
  <2> DEFINE b == (i - 1) * C
  <2>1. b \in Nat /\ i * C = b + C
    BY <1>1, Before
  <2>2. i * C <= a
    BY <1>1, Multiples
  <2> HIDE DEF a, b, l
  <2>3. b + C <= l
    BY <1>1, <2>1, <2>2
  <2>4. Piece(d, b, C) = Piece(D, b, C)
    BY <1>1, <1>3, <2>1, <2>3
  <2>. QED  BY <2>4, Zenon DEF b
<1>6. Leaves(d, m) = Leaves(D, m)
  <2>1. Leaves(d, m) = [i \in 1 .. m |-> F(d, i)] /\ Leaves(D, m) = [i \in 1 .. m |-> F(D, i)]
    BY Zenon DEF Leaves
  <2> HIDE DEF F
  <2>. QED  BY <1>5, <2>1
<1>7. ChunkState(s.chunk, Piece(D, a, l - a), m) /\ HasSpine(s.stack, Leaves(D, m), m)
  BY <1>2, <1>4, <1>6
<1>. QED  BY <1>7, Zenon DEF B3Holds

LEMMA B3Absorbs ==
  ASSUME NEW S, NEW d \in Seq(S), NEW x \in Seq(S), NEW s, B3State(s, d)
  PROVE  B3State(B3Update(s, x), d \o x)
<1> DEFINE D == d \o x
           n == Len(d)
<1>1. D \in Seq(S) /\ IsJoin(D, d, x)
  BY JoinIs, Zenon
<1> HIDE DEF D
<1>2. /\ Len(D) = n + Len(x) /\ (\A k \in 1 .. n : D[k] = d[k])
      /\ (\A k \in 1 .. Len(x) : D[n + k] = x[k])
  BY <1>1 DEF IsJoin
<1>3. n \in Nat /\ Len(x) \in Nat /\ n \in 0 .. Len(D) /\ Len(D) - n = Len(x)
  BY <1>2
<1>4. x = Piece(D, n, Len(D) - n)
  BY <1>2, <1>3 DEF Piece
<1>5. PICK m \in Nat : B3Holds(s, d, n, m)
  BY DEF B3State
<1>6. B3Holds(s, D, n, m)
  BY <1>2, <1>5, B3Stays, Zenon
<1> HIDE DEF n
<1>7. \E u \in Nat : B3Holds(B3Update(s, x), D, Len(D), u)
  BY <1>1, <1>3, <1>4, <1>6, B3Takes, Zenon
<1>. QED  BY <1>7 DEF B3State, D

-----------------------------------------------------------------------------
(* blake3_finalize folds the stack into the tree of the paper. *)

\* The tree of what is to the right of p[i].
RightOf(h, p, m, i) == StandardTree(h)[(m + 1) - p[i]][p[i] + 1]

FoldsAt(h, p, stack, m, i) == RightOf(h, p, m, i - 1) = ParentOutput(stack[i], Chained(RightOf(h, p, m, i)))

\* A whole tree and what is to its right, which is no larger, are one tree.
LEMMA FoldsOne ==
  ASSUME NEW h, NEW m \in Nat, Len(h) = m + 1, NEW p, NEW k, NEW stack, IsSpine(p, k, stack, h, m), NEW i \in 1 .. k
  PROVE  FoldsAt(h, p, stack, m, i)
<1> DEFINE a == p[i - 1]
           b == p[i]
           w == Width(p, i)
           n == (m + 1) - a
           T == StandardTree(h)
<1>1. k \in Nat /\ p \in [0 .. k -> Nat] /\ p[k] = m /\ \A e \in 0 .. k : \A j \in e .. k : p[e] <= p[j]
  BY Zenon DEF IsSpine
<1>2. Power(w) /\ m - b < w /\ stack[i] = Chained(T[w][a + 1])
  <2>1. \A j \in 1 .. k : Power(Width(p, j)) /\ m - p[j] < Width(p, j)
    BY Zenon DEF IsSpine
  <2>2. stack = [j \in 1 .. k |-> Subtree(h, p, j)]
    BY Zenon DEF IsSpine
  <2>3. stack[i] = Subtree(h, p, i)
    BY <2>2
  <2>. QED  BY <2>1, <2>3, Zenon DEF Subtree
<1>3. i - 1 \in 0 .. k /\ i \in 0 .. k /\ k \in i .. k
  BY <1>1
<1>4. a \in Nat /\ b \in Nat /\ b <= m
  BY <1>1, <1>3
<1>5. w = b - a
  BY Zenon DEF Width
<1>6. w \in Nat \ {0}
  BY <1>2 DEF Power
<1> HIDE DEF a, b, w
<1>7. n \in Nat /\ n > 1 /\ w < n /\ n <= 2 * w /\ n - w = (m + 1) - b /\ (a + 1) + w = b + 1
  BY <1>2, <1>4, <1>5, <1>6
<1>8. LeftSize(n) = w
  <2> HIDE DEF n
  <2>. QED  BY <1>2, <1>7, LeftSizeIs
<1>9. n \in 1 .. Len(h) /\ a + 1 \in 1 .. Len(h) - n + 1
  BY <1>4, <1>7
<1>10. T[n][a + 1] = TreeNode(T, h, n, a + 1)
  <2>1. Len(h) \in Nat
    OBVIOUS
  <2> DEFINE y == a + 1
  <2> HIDE DEF n, y
  <2>2. n \in 1 .. Len(h) /\ y \in 1 .. Len(h) - n + 1
    BY <1>9 DEF y
  <2>. QED  BY <2>1, <2>2, TreeAt, Zenon DEF y
<1>11. n # 1
  BY <1>7
<1> HIDE DEF n, T
<1>12. TreeNode(T, h, n, a + 1) = ParentOutput(Chained(T[w][a + 1]), Chained(T[(m + 1) - b][b + 1]))
  <2>1. TreeNode(T, h, n, a + 1)
          = ParentOutput(Chained(T[LeftSize(n)][a + 1]), Chained(T[n - LeftSize(n)][(a + 1) + LeftSize(n)]))
    BY <1>11, Zenon DEF TreeNode
  <2>. QED  BY <1>7, <1>8, <2>1
<1>13. T[n][a + 1] = ParentOutput(stack[i], Chained(T[(m + 1) - b][b + 1]))
  BY <1>2, <1>10, <1>12
<1>. QED  BY <1>13, Zenon DEF FoldsAt, RightOf, a, b, n, T

\* So the last turn holds the tree of all.
LEMMA FoldIs ==
  ASSUME NEW h, NEW m \in Nat, Len(h) = m + 1, NEW s, HasSpine(s.stack, h, m), h[m + 1] = ChunkOutput(s.chunk)
  PROVE  B3Finalize(s) = Root(StandardTree(h)[m + 1][1])
<1>1. PICK p, k : IsSpine(p, k, s.stack, h, m)
  BY DEF HasSpine
<1>2. k \in Nat /\ p \in [0 .. k -> Nat] /\ p[0] = 0 /\ p[k] = m /\ s.stack = [i \in 1 .. k |-> Subtree(h, p, i)]
  BY <1>1, Zenon DEF IsSpine
<1>3. Len(s.stack) = k
  BY <1>2
<1> DEFINE V(f, i) == IF i = 0 THEN ChunkOutput(s.chunk) ELSE ParentOutput(s.stack[k - i + 1], Chained(f[i - 1]))
           R(i) == RightOf(h, p, m, k - i)
           F == [i \in 0 .. k |-> R(i)]
           g == CHOOSE f : f = [i \in 0 .. k |-> V(f, i)]
<1>4. B3Finalize(s) = Root(g[k])
  <2> DEFINE G(l) == CHOOSE f : f = [i \in 0 .. l |-> IF i = 0 THEN ChunkOutput(s.chunk)
                                     ELSE ParentOutput(s.stack[l - i + 1], Chained(f[i - 1]))]
  <2>1. B3Finalize(s) = Root(G(Len(s.stack))[Len(s.stack)])
    BY Zenon DEF B3Finalize
  <2>2. G(k) = g
    BY Zenon
  <2> HIDE DEF G, g
  <2>. QED  BY <1>3, <2>1, <2>2
<1>5. \A i \in 0 .. k : F[i] = R(i)
  <2> HIDE DEF R
  <2>. QED  OBVIOUS
<1>6. R(0) = ChunkOutput(s.chunk)
  <2> DEFINE T == StandardTree(h)
             n == 1
             y == m + 1
  <2>1. k - 0 = k /\ (m + 1) - m = n
    BY <1>2
  <2>2. R(0) = T[(m + 1) - m][m + 1]
    <3>1. R(0) = RightOf(h, p, m, k)
      BY <2>1
    <3>. QED  BY <1>2, <3>1 DEF RightOf
  <2>3. Len(h) \in Nat /\ n \in 1 .. Len(h) /\ y \in 1 .. Len(h) - n + 1
    OBVIOUS
  <2> HIDE DEF y, T, R
  <2>4. T[n][y] = TreeNode(T, h, n, y)
    BY <2>3, TreeAt DEF T
  <2>5. TreeNode(T, h, n, y) = h[y]
    BY DEF TreeNode
  <2>. QED  BY <2>1, <2>2, <2>4, <2>5 DEF y
<1>7. ASSUME NEW i \in 1 .. k  PROVE R(i) = ParentOutput(s.stack[k - i + 1], Chained(R(i - 1)))
  <2> DEFINE j == k - i + 1
  <2>1. j \in 1 .. k /\ j - 1 = k - i /\ j = k - (i - 1)
    BY <1>2
  <2> HIDE DEF j
  <2>2. FoldsAt(h, p, s.stack, m, j)
    BY <1>1, <2>1, FoldsOne, Zenon
  <2>3. RightOf(h, p, m, j - 1) = ParentOutput(s.stack[j], Chained(RightOf(h, p, m, j)))
    BY <2>2, Zenon DEF FoldsAt
  <2>. QED  BY <2>1, <2>3 DEF j
<1> HIDE DEF R, F
<1>8. ASSUME NEW i \in 0 .. k  PROVE F[i] = V(F, i)
  <2>1. CASE i = 0
    BY <1>5, <1>6, <2>1
  <2>2. CASE i # 0
    <3>1. i \in 1 .. k /\ i - 1 \in 0 .. k
      BY <1>2, <2>2
    <3>. QED  BY <1>5, <1>7, <2>2, <3>1
  <2>. QED  BY <2>1, <2>2
<1> HIDE DEF V
<1>9. F = [i \in 0 .. k |-> V(F, i)]
  BY <1>8 DEF F
<1>10. g = [i \in 0 .. k |-> V(g, i)]
  BY <1>9, Zenon
<1> HIDE DEF g
<1>11. \A i \in 0 .. k : g[i] = V(g, i)
  BY <1>10
<1> DEFINE W == {i \in 0 .. k : g[i] = R(i)}
<1>12. 0 \in W
  <2>1. 0 \in 0 .. k
    BY <1>2
  <2>. QED  BY <1>6, <1>11, <2>1 DEF V
<1>13. ASSUME NEW i \in 1 .. k, i - 1 \in W  PROVE i \in W
  <2>1. i \in 0 .. k /\ i # 0 /\ g[i - 1] = R(i - 1)
    BY <1>2, <1>13
  <2>2. g[i] = ParentOutput(s.stack[k - i + 1], Chained(g[i - 1]))
    BY <1>11, <2>1 DEF V
  <2>3. g[i] = R(i)
    BY <1>7, <2>1, <2>2
  <2>. QED  BY <2>1, <2>3
<1> HIDE DEF W
<1>14. g[k] = R(k)
  <2>1. \A i \in 0 .. k : i \in W
    BY <1>2, <1>12, <1>13, Climb
  <2>2. k \in 0 .. k
    BY <1>2
  <2>. QED  BY <2>1, <2>2 DEF W
<1>15. R(k) = StandardTree(h)[m + 1][1]
  <2>1. k - k = 0 /\ (m + 1) - 0 = m + 1 /\ 0 + 1 = 1
    BY <1>2
  <2>2. R(k) = RightOf(h, p, m, 0)
    BY <2>1 DEF R
  <2>. QED  BY <1>2, <2>1, <2>2 DEF RightOf
<1>. QED  BY <1>4, <1>14, <1>15

\* blake3_finalize returns what the BLAKE3 paper says of the message.
LEMMA B3IsStandard ==
  ASSUME NEW S, NEW d \in Seq(S), NEW s, B3State(s, d)
  PROVE  B3Finalize(s) = StandardB3(d)
<1> DEFINE C == B3Chunk
           n == Len(d)
           cut == Held(d, C)
           h == [i \in 1 .. Len(cut) |-> StandardLeaf(cut[i], i - 1)]
<1>1. PICK m \in Nat : B3Holds(s, d, n, m)
  BY DEF B3State
<1> DEFINE a == m * C
           r == n - a
           x == Piece(d, a, r)
           l == Leaves(d, m)
           F(i) == StandardLeaf(Piece(d, (i - 1) * C, C), i - 1)
<1>2. a <= n /\ r <= C /\ (n # 0 => a < n) /\ ChunkState(s.chunk, x, m) /\ HasSpine(s.stack, l, m)
  BY <1>1, Zenon DEF B3Holds
<1>3. C \in Nat \ {0} /\ n \in Nat /\ a \in Nat
  BY B3Size, Multiples
<1>4. IsCut(cut, d, C, m, r)
  <2> HIDE DEF C
  <2>1. m * C <= Len(d) /\ Len(d) - m * C <= C /\ (Len(d) # 0 => m * C < Len(d))
    BY <1>2
  <2>. QED  BY <1>3, <2>1, HeldIs, Zenon
<1>5. StandardB3(d) = Root(StandardTree(h)[Len(cut)][1])
  BY Zenon DEF StandardB3, Held, Root
<1>6. Len(cut) = m + 1 /\ cut[m + 1] = x /\ \A i \in 1 .. m : cut[i] = Piece(d, (i - 1) * C, C)
  BY <1>4, Zenon DEF IsCut
<1>7. x \in Seq(S)
  <2> HIDE DEF a, n
  <2>1. r \in Nat /\ a + r <= Len(d)
    BY <1>2, <1>3 DEF n
  <2> HIDE DEF r
  <2>. QED  BY <1>3, <2>1, PieceIs
<1>8. ChunkOutput(s.chunk) = StandardLeaf(x, m)
  <2> HIDE DEF x
  <2>. QED  BY <1>2, <1>7, LeafIs
<1>9. l = [i \in 1 .. m |-> F(i)]
  BY Zenon DEF Leaves
<1> HIDE DEF cut, x, l
<1>10. ASSUME NEW i \in 1 .. m  PROVE StandardLeaf(cut[i], i - 1) = F(i)
  BY <1>6, Zenon
<1> HIDE DEF F
<1>11. Len(h) = m + 1 /\ h[m + 1] = ChunkOutput(s.chunk)
  <2>1. (m + 1) - 1 = m /\ m + 1 \in 1 .. m + 1
    OBVIOUS
  <2>. QED  BY <1>6, <1>8, <2>1
<1>12. Len(l) = m /\ \A i \in 1 .. m : h[i] = l[i]
  <2>1. Len(l) = m /\ \A i \in 1 .. m : l[i] = F(i)
    BY <1>9
  <2>2. ASSUME NEW i \in 1 .. m  PROVE h[i] = F(i)
    <3>1. i \in 1 .. Len(cut)
      BY <1>6
    <3>2. h[i] = StandardLeaf(cut[i], i - 1)
      BY <3>1
    <3>. QED  BY <1>10, <3>2
  <2>. QED  BY <2>1, <2>2
<1> HIDE DEF h
<1>13. HasSpine(s.stack, h, m)
  <2>1. Len(l) \in Nat /\ Len(h) \in Nat /\ Len(l) <= Len(h) /\ \A i \in 1 .. Len(l) : h[i] = l[i]
    BY <1>11, <1>12
  <2>2. HasSpine(s.stack, l, Len(l))
    BY <1>2, <1>12
  <2>3. HasSpine(s.stack, h, Len(l))
    BY <2>1, <2>2, SpinesStay, Zenon
  <2>. QED  BY <1>12, <2>3
<1>14. B3Finalize(s) = Root(StandardTree(h)[m + 1][1])
  BY <1>11, <1>13, FoldIs, Zenon
<1>. QED  BY <1>5, <1>6, <1>14

-----------------------------------------------------------------------------
(* How full they are: the lengths follow from the states above, and the stack
   of BLAKE3 has a subtree for each one in the number of chunks. *)

\* What holds of a number if it holds of all below it, holds of all.
LEMMA ClimbAll ==
  ASSUME NEW n \in Nat, NEW T, \A i \in 0 .. n : (\A j \in 0 .. i - 1 : j \in T) => i \in T
  PROVE  \A i \in 0 .. n : i \in T
<1> DEFINE W == {i \in 0 .. n : \A j \in 0 .. i : j \in T}
<1>1. 0 \in W
  <2>1. 0 \in 0 .. n /\ \A j \in 0 .. 0 - 1 : FALSE
    OBVIOUS
  <2>2. 0 \in T
    BY <2>1
  <2>3. \A j \in 0 .. 0 : j = 0
    OBVIOUS
  <2>. QED  BY <2>1, <2>2, <2>3
<1>2. ASSUME NEW i \in 1 .. n, i - 1 \in W  PROVE i \in W
  <2>1. \A j \in 0 .. i - 1 : j \in T
    BY <1>2
  <2>2. i \in 0 .. n
    OBVIOUS
  <2>3. i \in T
    BY <2>1, <2>2
  <2>4. \A j \in 0 .. i : j = i \/ j \in 0 .. i - 1
    OBVIOUS
  <2>. QED  BY <2>1, <2>2, <2>3, <2>4
<1> HIDE DEF W
<1>3. \A i \in 0 .. n : i \in W
  BY <1>1, <1>2, Climb
<1>4. ASSUME NEW i \in 0 .. n  PROVE i \in T
  <2>1. i \in W /\ i \in 0 .. i
    BY <1>3
  <2>. QED  BY <2>1 DEF W
<1>. QED  BY <1>4

OnesAt(f, n) == IF n = 0 THEN 0 ELSE (n % 2) + f[n \div 2]

IsOnes(f, m) == f = [n \in 0 .. m |-> OnesAt(f, n)]

LEMMA HalfIsLess ==
  ASSUME NEW n \in Nat, n # 0
  PROVE  n \div 2 \in 0 .. n - 1
OBVIOUS

LEMMA OnesExist ==
  ASSUME NEW m \in Nat
  PROVE  \E f : IsOnes(f, m)
<1> DEFINE W == {i \in 0 .. m : \E f : IsOnes(f, i)}
<1>1. 0 \in W
  <2> DEFINE g == [n \in 0 .. 0 |-> 0]
  <2>1. \A n \in 0 .. 0 : OnesAt(g, n) = 0
    BY DEF OnesAt
  <2>2. g = [n \in 0 .. 0 |-> OnesAt(g, n)]
    BY <2>1
  <2> HIDE DEF g
  <2>3. IsOnes(g, 0)
    BY <2>2 DEF IsOnes
  <2>. QED  BY <2>3
<1>2. ASSUME NEW i \in 1 .. m, i - 1 \in W  PROVE i \in W
  <2>1. PICK f : IsOnes(f, i - 1)
    BY <1>2
  <2> DEFINE x == OnesAt(f, i)
             g == [n \in 0 .. i |-> IF n < i THEN f[n] ELSE x]
  <2>2. \A n \in 0 .. i - 1 : f[n] = OnesAt(f, n)
    <3>1. f = [n \in 0 .. i - 1 |-> OnesAt(f, n)]
      BY <2>1, Zenon DEF IsOnes
    <3>. QED  BY <3>1
  <2> HIDE DEF x
  <2>3. (\A n \in 0 .. i - 1 : g[n] = f[n]) /\ g[i] = x /\ g = [n \in 0 .. i |-> g[n]]
    OBVIOUS
  <2> HIDE DEF g
  <2>4. ASSUME NEW n \in 0 .. i  PROVE OnesAt(f, n) = OnesAt(g, n)
    <3>1. CASE n = 0
      BY <3>1, Zenon DEF OnesAt
    <3>2. CASE n # 0
      <4>1. n \div 2 \in 0 .. i - 1
        <5>1. n \in Nat
          OBVIOUS
        <5>2. n \div 2 \in 0 .. n - 1
          BY <3>2, <5>1, HalfIsLess
        <5>. QED  BY <5>2
      <4>2. f[n \div 2] = g[n \div 2]
        BY <2>3, <4>1
      <4>. QED  BY <4>2, Zenon DEF OnesAt
    <3>. QED  BY <3>1, <3>2
  <2>5. ASSUME NEW n \in 0 .. i  PROVE g[n] = OnesAt(g, n)
    <3>1. CASE n = i
      BY <2>3, <2>4, <3>1 DEF x
    <3>2. CASE n # i
      <4>1. n \in 0 .. i - 1
        BY <3>2
      <4>. QED  BY <2>2, <2>3, <2>4, <4>1
    <3>. QED  BY <3>1, <3>2
  <2>6. IsOnes(g, i)
    BY <2>3, <2>5 DEF IsOnes
  <2>. QED  BY <2>6
<1> HIDE DEF W
<1>3. m \in W
  <2>1. \A i \in 0 .. m : i \in W
    BY <1>1, <1>2, Climb
  <2>. QED  BY <2>1
<1>. QED  BY <1>3 DEF W

LEMMA OnesAgree ==
  ASSUME NEW m \in Nat, NEW u \in Nat, NEW f, NEW g, IsOnes(f, m), IsOnes(g, u), NEW n \in Nat, n <= m, n <= u
  PROVE  f[n] = g[n]
<1>1. (\A i \in 0 .. m : f[i] = OnesAt(f, i)) /\ \A i \in 0 .. u : g[i] = OnesAt(g, i)
  <2>1. f = [i \in 0 .. m |-> OnesAt(f, i)] /\ g = [i \in 0 .. u |-> OnesAt(g, i)]
    BY Zenon DEF IsOnes
  <2>. QED  BY <2>1
<1> DEFINE T == {i \in 0 .. n : f[i] = g[i]}
<1>2. ASSUME NEW i \in 0 .. n, \A j \in 0 .. i - 1 : j \in T  PROVE i \in T
  <2>1. i \in 0 .. m /\ i \in 0 .. u /\ i \in Nat
    OBVIOUS
  <2>2. f[i] = OnesAt(f, i) /\ g[i] = OnesAt(g, i)
    BY <1>1, <2>1
  <2>3. CASE i = 0
    BY <2>2, <2>3 DEF OnesAt
  <2>4. CASE i # 0
    <3>1. i \div 2 \in 0 .. i - 1
      BY <2>1, <2>4, HalfIsLess
    <3>2. f[i \div 2] = g[i \div 2]
      BY <1>2, <3>1
    <3>3. f[i] = g[i]
      BY <2>2, <2>4, <3>2, Zenon DEF OnesAt
    <3>. QED  BY <3>3
  <2>. QED  BY <2>3, <2>4
<1> HIDE DEF T
<1>3. \A i \in 0 .. n : i \in T
  BY <1>2, ClimbAll
<1>. QED  BY <1>3 DEF T

LEMMA OnesIs ==
  ASSUME NEW n \in Nat
  PROVE  Ones[n] = OnesAt(Ones, n)
<1> DEFINE F(m) == CHOOSE f : IsOnes(f, m)
           G == [m \in Nat |-> F(m)[m]]
<1>1. ASSUME NEW m \in Nat  PROVE IsOnes(F(m), m)
  BY OnesExist, Zenon
<1> HIDE DEF F
<1>2. ASSUME NEW m \in Nat  PROVE G[m] = OnesAt(G, m)
  <2>1. G[m] = F(m)[m]
    OBVIOUS
  <2>2. F(m)[m] = OnesAt(F(m), m)
    <3>1. F(m) = [i \in 0 .. m |-> OnesAt(F(m), i)]
      BY <1>1, Zenon DEF IsOnes
    <3> DEFINE f == F(m)
    <3> HIDE DEF f
    <3>2. f = [i \in 0 .. m |-> OnesAt(f, i)]
      BY <3>1 DEF f
    <3>. QED  BY <3>2 DEF f
  <2>3. CASE m = 0
    BY <2>1, <2>2, <2>3, Zenon DEF OnesAt
  <2>4. CASE m # 0
    <3> DEFINE h == m \div 2
    <3>1. h \in Nat /\ h <= m
      <4>1. h \in 0 .. m - 1
        BY <2>4, HalfIsLess
      <4> HIDE DEF h
      <4>. QED  BY <4>1
    <3> HIDE DEF h
    <3>2. F(m)[h] = F(h)[h]
      <4>1. IsOnes(F(m), m) /\ IsOnes(F(h), h) /\ h <= h
        BY <1>1, <3>1
      <4>. QED  BY <3>1, <4>1, OnesAgree
    <3>3. F(m)[h] = G[h]
      BY <3>1, <3>2
    <3>. QED  BY <2>1, <2>2, <2>4, <3>3, Zenon DEF OnesAt, h
  <2>. QED  BY <2>3, <2>4
<1>3. G = [m \in Nat |-> OnesAt(G, m)]
  <2>1. G = [m \in Nat |-> G[m]]
    OBVIOUS
  <2> HIDE DEF G
  <2>. QED  BY <1>2, <2>1
<1> DEFINE H == CHOOSE f : f = [m \in Nat |-> OnesAt(f, m)]
<1> HIDE DEF G
<1>4. Ones = H
  BY Zenon DEF Ones, OnesAt
<1>5. H = [m \in Nat |-> OnesAt(H, m)]
  BY <1>3, Zenon
<1> HIDE DEF H
<1>6. H[n] = OnesAt(H, n)
  BY <1>5
<1>. QED  BY <1>4, <1>6

\* Where the subtrees on BLAKE3's stack end.
Shape(p, k, m) ==
  /\ k \in Nat /\ p[0] = 0 /\ p[k] = m /\ \A i \in 0 .. k : p[i] \in Nat
  /\ \A i \in 0 .. k : \A j \in i .. k : p[i] <= p[j]
  /\ \A i \in 1 .. k : Power(Width(p, i)) /\ Multiple(p[i - 1], 2 * Width(p, i)) /\ m - p[i] < Width(p, i)

IsEven(n) == \E h \in Nat : n = 2 * h

LEMMA MultiplesAreEven ==
  ASSUME NEW a \in Nat, NEW w \in Nat, Multiple(a, 2 * w)
  PROVE  IsEven(a)
<1>1. PICK q \in Nat : a = q * (2 * w)
  BY DEF Multiple
<1>2. q * (2 * w) = 2 * (q * w) /\ q * w \in Nat
  OBVIOUS
<1>. QED  BY <1>1, <1>2 DEF IsEven

\* Halves of multiples.
LEMMA MultipleHalves ==
  ASSUME NEW a \in Nat, NEW w \in Nat, NEW b \in Nat, NEW v \in Nat, a = 2 * b, w = 2 * v, Multiple(a, 2 * w)
  PROVE  Multiple(b, 2 * v)
<1>1. PICK q \in Nat : a = q * (2 * w)
  BY DEF Multiple
<1>2. q * (2 * w) = 2 * (q * w) /\ q * w \in Nat
  OBVIOUS
<1> DEFINE x == q * w
<1>3. a = 2 * x /\ x \in Nat
  BY <1>1, <1>2
<1> HIDE DEF x
<1>4. b = x
  BY <1>3
<1>. QED  BY <1>4 DEF Multiple, x

\* All but the last end of an even count are even, and so half of each is a shape.
LEMMA ShapeHalves ==
  ASSUME NEW p, NEW k, NEW h \in Nat, Shape(p, k, 2 * h)
  PROVE  \E q : Shape(q, k, h)
<1> DEFINE m == 2 * h
           q == [i \in 0 .. k |-> p[i] \div 2]
<1>1. /\ k \in Nat /\ p[0] = 0 /\ p[k] = m /\ (\A i \in 0 .. k : p[i] \in Nat)
      /\ (\A i \in 0 .. k : \A j \in i .. k : p[i] <= p[j])
      /\ (\A i \in 1 .. k : Power(Width(p, i)) /\ Multiple(p[i - 1], 2 * Width(p, i)) /\ m - p[i] < Width(p, i))
  BY Zenon DEF Shape
<1>2. \A i \in 1 .. k : Width(p, i) \in Nat /\ Width(p, i) = p[i] - p[i - 1]
  <2>1. \A i \in 1 .. k : Width(p, i) \in Nat
    BY <1>1 DEF Power
  <2>2. \A i \in 1 .. k : Width(p, i) = p[i] - p[i - 1]
    BY Zenon DEF Width
  <2>. QED  BY <2>1, <2>2, Zenon
<1>3. ASSUME NEW i \in 0 .. k  PROVE IsEven(p[i])
  <2>1. CASE i = k
    BY <1>1, <2>1 DEF IsEven
  <2>2. CASE i # k
    <3>1. PICK j : j = i + 1
      OBVIOUS
    <3>2. j \in 1 .. k /\ j - 1 = i
      BY <1>1, <2>2, <3>1
    <3>3. Multiple(p[i], 2 * Width(p, j)) /\ Width(p, j) \in Nat /\ p[i] \in Nat
      BY <1>1, <1>2, <3>2
    <3>. QED  BY <3>3, MultiplesAreEven
  <2>. QED  BY <2>1, <2>2
<1>4. ASSUME NEW i \in 0 .. k  PROVE q[i] \in Nat /\ p[i] = 2 * q[i]
  <2>1. PICK e \in Nat : p[i] = 2 * e
    BY <1>3 DEF IsEven
  <2>2. (2 * e) \div 2 = e
    OBVIOUS
  <2>. QED  BY <2>1, <2>2
<1> HIDE DEF q
<1>5. q[0] = 0 /\ q[k] = h
  <2>1. 0 \in 0 .. k /\ k \in 0 .. k
    BY <1>1
  <2>2. q[0] \in Nat /\ q[k] \in Nat /\ p[0] = 2 * q[0] /\ p[k] = 2 * q[k]
    BY <1>4, <2>1, Zenon
  <2>3. 0 = 2 * q[0] /\ 2 * h = 2 * q[k]
    BY <1>1, <2>2, Zenon
  <2>. QED  BY <2>2, <2>3
<1>6. ASSUME NEW i \in 0 .. k, NEW j \in i .. k  PROVE q[i] <= q[j]
  <2>1. j \in 0 .. k
    BY <1>1
  <2>2. p[i] <= p[j]
    BY <1>1
  <2>. QED  BY <1>4, <2>1, <2>2
<1>7. ASSUME NEW i \in 1 .. k
      PROVE  Power(Width(q, i)) /\ Multiple(q[i - 1], 2 * Width(q, i)) /\ h - q[i] < Width(q, i)
  <2> DEFINE w == Width(p, i)
             v == Width(q, i)
             a == p[i - 1]
             b == q[i - 1]
  <2>1. i - 1 \in 0 .. k /\ i \in 0 .. k
    BY <1>1
  <2>2. a \in Nat /\ b \in Nat /\ a = 2 * b /\ p[i] = 2 * q[i] /\ q[i] \in Nat
    BY <1>1, <1>4, <2>1
  <2>3. Power(w) /\ Multiple(a, 2 * w) /\ m - p[i] < w /\ w \in Nat /\ w = p[i] - a
    BY <1>1, <1>2
  <2>4. v = q[i] - b
    BY Zenon DEF Width
  <2>5. w = 2 * v /\ v \in Int
    <3> HIDE DEF a, b, v, w
    <3>. QED  BY <2>2, <2>3, <2>4
  <2>6. w # 1
    <3> HIDE DEF v, w
    <3>. QED  BY <2>5
  <2>7. PICK e \in Nat \ {0} : w = 2 * e /\ Power(e)
    <3> HIDE DEF w
    <3>. QED  BY <2>3, <2>6, PowerHalves
  <2>8. v = e /\ v \in Nat
    <3> HIDE DEF w, v
    <3>. QED  BY <2>5, <2>7
  <2>9. Multiple(b, 2 * v)
    <3> HIDE DEF w, v, a, b
    <3>. QED  BY <2>2, <2>3, <2>5, <2>8, MultipleHalves, Zenon
  <2>10. h - q[i] < v
    <3> HIDE DEF w, v, a, b
    <3>. QED  BY <2>2, <2>3, <2>5, <2>8
  <2>. QED  BY <2>7, <2>8, <2>9, <2>10
<1>8. \A i \in 0 .. k : q[i] \in Nat
  BY <1>4
<1>9. Shape(q, k, h)
  BY <1>1, <1>5, <1>6, <1>7, <1>8, Zenon DEF Shape
<1>. QED  BY <1>9

\* Of an odd count the last subtree is one leaf.
LEMMA ShapeDrops ==
  ASSUME NEW p, NEW k, NEW h \in Nat, Shape(p, k, 2 * h + 1)
  PROVE  k # 0 /\ Shape(p, k - 1, 2 * h)
<1> DEFINE m == 2 * h + 1
           w == Width(p, k)
<1>1. /\ k \in Nat /\ p[0] = 0 /\ p[k] = m /\ (\A i \in 0 .. k : p[i] \in Nat)
      /\ (\A i \in 0 .. k : \A j \in i .. k : p[i] <= p[j])
      /\ (\A i \in 1 .. k : Power(Width(p, i)) /\ Multiple(p[i - 1], 2 * Width(p, i)) /\ m - p[i] < Width(p, i))
  BY Zenon DEF Shape
<1>2. k # 0
  BY <1>1
<1>3. k \in 1 .. k /\ k - 1 \in 0 .. k /\ k - 1 \in Nat
  BY <1>1, <1>2
<1> DEFINE a == p[k - 1]
<1>4. Power(w) /\ Multiple(a, 2 * w) /\ a \in Nat
  BY <1>1, <1>3
<1>5. w \in Nat
  BY <1>4 DEF Power
<1>6. w = p[k] - a
  BY Zenon DEF Width
<1> HIDE DEF w, a
<1>7. PICK e \in Nat : a = 2 * e
  BY <1>4, <1>5, MultiplesAreEven DEF IsEven
<1>8. w = 1
  <2>1. ASSUME w # 1  PROVE FALSE
    <3>1. PICK d \in Nat \ {0} : w = 2 * d
      BY <1>4, <2>1, PowerHalves
    <3>. QED  BY <1>1, <1>5, <1>6, <1>7, <3>1
  <2>. QED  BY <2>1
<1>9. p[k - 1] = 2 * h
  <2>1. 1 = (2 * h + 1) - a
    BY <1>1, <1>6, <1>8, Zenon
  <2>2. a = 2 * h
    BY <1>4, <2>1
  <2>. QED  BY <2>2 DEF a
<1>10. ASSUME NEW i \in 1 .. k - 1
       PROVE  Power(Width(p, i)) /\ Multiple(p[i - 1], 2 * Width(p, i)) /\ 2 * h - p[i] < Width(p, i)
  <2>1. i \in 1 .. k /\ i \in 0 .. k
    BY <1>1
  <2>2. Power(Width(p, i)) /\ Multiple(p[i - 1], 2 * Width(p, i)) /\ m - p[i] < Width(p, i) /\ p[i] \in Nat
    BY <1>1, <2>1
  <2>3. Width(p, i) \in Nat
    BY <2>2 DEF Power
  <2> DEFINE v == Width(p, i)
  <2> HIDE DEF v
  <2>4. 2 * h - p[i] < v
    BY <2>2, <2>3 DEF v
  <2>. QED  BY <2>2, <2>4 DEF v
<1>11. \A i \in 0 .. k - 1 : p[i] \in Nat /\ \A j \in i .. k - 1 : p[i] <= p[j]
  <2>1. \A i \in 0 .. k - 1 : i \in 0 .. k /\ \A j \in i .. k - 1 : j \in i .. k
    BY <1>1
  <2>. QED  BY <1>1, <2>1
<1>12. Shape(p, k - 1, 2 * h)
  <2> DEFINE K == k - 1
             M == 2 * h
  <2>1. K \in Nat /\ p[0] = 0 /\ p[K] = M
    BY <1>1, <1>3, <1>9
  <2>2. (\A i \in 0 .. K : p[i] \in Nat) /\ \A i \in 0 .. K : \A j \in i .. K : p[i] <= p[j]
    BY <1>11
  <2>3. \A i \in 1 .. K : Power(Width(p, i)) /\ Multiple(p[i - 1], 2 * Width(p, i)) /\ M - p[i] < Width(p, i)
    BY <1>10
  <2> HIDE DEF K, M
  <2>4. Shape(p, K, M)
    BY <2>1, <2>2, <2>3, Zenon DEF Shape
  <2>. QED  BY <2>4 DEF K, M
<1>. QED  BY <1>2, <1>12

\* As many subtrees as the count has ones.
LEMMA ShapeHasOnes ==
  ASSUME NEW m \in Nat, NEW p, NEW k, Shape(p, k, m)
  PROVE  k = Ones[m]
<1> DEFINE T == {n \in 0 .. m : \A q, j : Shape(q, j, n) => j = Ones[n]}
<1>1. ASSUME NEW n \in 0 .. m, \A i \in 0 .. n - 1 : i \in T  PROVE n \in T
  <2>1. ASSUME NEW q, NEW j, Shape(q, j, n)  PROVE j = Ones[n]
    <3>1. n \in Nat
      OBVIOUS
    <3>2. Ones[n] = OnesAt(Ones, n)
      BY <3>1, OnesIs
    <3>3. CASE n = 0
      <4>1. /\ j \in Nat /\ q[0] = 0 /\ q[j] = 0 /\ (\A i \in 0 .. j : q[i] \in Nat)
            /\ (\A i \in 0 .. j : \A e \in i .. j : q[i] <= q[e])
            /\ (\A i \in 1 .. j : Power(Width(q, i)))
        BY <2>1, <3>3, Zenon DEF Shape
      <4>2. ASSUME j # 0  PROVE FALSE
        <5>1. 1 \in 0 .. j /\ 1 \in 1 .. j /\ j \in 1 .. j /\ 1 - 1 = 0
          BY <4>1, <4>2
        <5>2. q[1] <= 0 /\ q[1] \in Nat
          BY <4>1, <5>1
        <5>3. Width(q, 1) = q[1] - q[0]
          BY <5>1, Zenon DEF Width
        <5>4. Width(q, 1) \in Nat \ {0}
          BY <4>1, <5>1 DEF Power
        <5>. QED  BY <4>1, <5>2, <5>3, <5>4
      <4>3. Ones[n] = 0
        BY <3>2, <3>3 DEF OnesAt
      <4>. QED  BY <4>2, <4>3
    <3>4. CASE n # 0
      <4> DEFINE h == n \div 2
      <4>1. h \in 0 .. n - 1 /\ h \in Nat /\ n = 2 * h + (n % 2) /\ n % 2 \in 0 .. 1
        BY <3>1, <3>4
      <4>2. Ones[n] = (n % 2) + Ones[h]
        BY <3>2, <3>4, Zenon DEF OnesAt
      <4> HIDE DEF h
      <4>3. \A f, i : Shape(f, i, h) => i = Ones[h]
        BY <1>1, <4>1
      <4>4. CASE n % 2 = 0
        <5>1. n = 2 * h
          BY <4>1, <4>4
        <5>2. Shape(q, j, 2 * h)
          BY <2>1, <5>1
        <5>3. PICK f : Shape(f, j, h)
          BY <4>1, <5>2, ShapeHalves, Zenon
        <5>4. j = Ones[h] /\ j \in Nat
          BY <4>3, <5>3 DEF Shape
        <5>. QED  BY <4>2, <4>4, <5>4
      <4>5. CASE n % 2 = 1
        <5>1. n = 2 * h + 1
          BY <4>1, <4>5
        <5>2. Shape(q, j, 2 * h + 1)
          BY <2>1, <5>1
        <5>3. j # 0 /\ Shape(q, j - 1, 2 * h)
          BY <4>1, <5>2, ShapeDrops, Zenon
        <5>4. PICK f : Shape(f, j - 1, h)
          BY <4>1, <5>3, ShapeHalves, Zenon
        <5>5. j - 1 = Ones[h]
          BY <4>3, <5>4, Zenon
        <5>6. j \in Nat
          BY <2>1, Zenon DEF Shape
        <5>. QED  BY <4>2, <4>5, <5>5, <5>6
      <4>. QED  BY <4>1, <4>4, <4>5
    <3>. QED  BY <3>3, <3>4
  <2>. QED  BY <2>1
<1> HIDE DEF T
<1>2. \A n \in 0 .. m : n \in T
  BY <1>1, ClimbAll
<1>3. m \in T
  BY <1>2
<1>. QED  BY <1>3 DEF T

LEMMA RemainderIs ==
  ASSUME NEW n \in Nat, NEW b \in Nat \ {0}, NEW q \in Nat, q * b <= n, n - q * b < b
  PROVE  n % b = n - q * b /\ n - q * b \in Nat
<1> DEFINE a == q * b
           r == n - a
<1>1. a \in Nat
  BY Multiples
<1> HIDE DEF a
<1>2. r \in 0 .. b - 1 /\ a + r = n
  BY <1>1 DEF a
<1> HIDE DEF r
<1>3. (q * b + r) % b = r
  BY <1>2, QuotientIs
<1>4. n % b = r /\ r \in Nat
  BY <1>2, <1>3 DEF a
<1>. QED  BY <1>4 DEF r, a

\* The buffers hold what is left of the message after its blocks.
LEMMA ShaFill ==
  ASSUME NEW S, NEW d \in Seq(S), NEW s, ShaState(s, d)
  PROVE  s.total = Len(d) /\ Len(s.buf) = Len(d) % ShaBlock
<1>1. s.total = Len(d)
  BY Zenon DEF ShaState
<1>2. PICK q \in Nat : ShaHolds(s, d, Len(d), q)
  BY Zenon DEF ShaState
<1> DEFINE n == Len(d)
           a == q * ShaBlock
           r == n - a
<1>3. a <= n /\ r < ShaBlock /\ s.buf = Piece(d, a, r)
  BY <1>2, Zenon DEF ShaHolds
<1>4. n \in Nat /\ ShaBlock \in Nat \ {0} /\ a \in Nat
  BY ShaSize, Multiples
<1>5. n % ShaBlock = r /\ r \in Nat
  BY <1>3, <1>4, RemainderIs
<1> HIDE DEF a, r
<1>6. a + r <= Len(d)
  BY <1>3, <1>4 DEF r
<1>7. Len(s.buf) = r
  BY <1>3, <1>4, <1>5, <1>6, PieceIs
<1>. QED  BY <1>1, <1>5, <1>7

LEMMA PolyFill ==
  ASSUME NEW S, NEW d \in Seq(S), NEW s, NEW q, Absorbed(s, d, q)
  PROVE  Len(s.buf) = Len(d) % PolyBlock
<1>1. q \in Nat /\ q * PolyBlock <= Len(d) /\ Len(d) - q * PolyBlock < PolyBlock
  BY Zenon DEF Absorbed
<1>2. Len(d) \in Nat /\ PolyBlock \in Nat \ {0}
  BY PolySize
<1>3. Len(d) % PolyBlock = Len(d) - q * PolyBlock
  BY <1>1, <1>2, RemainderIs
<1>4. Len(s.buf) = Len(d) - q * PolyBlock
  BY AbsorbedTypes
<1>. QED  BY <1>3, <1>4

\* BLAKE3 holds back a chunk and a block, and has a subtree for each one of the
\* number of chunks.
LEMMA B3Fill ==
  ASSUME NEW S, NEW d \in Seq(S), NEW s, B3State(s, d)
  PROVE  /\ s.chunk.counter * B3Chunk + ChunkLen(s.chunk) = Len(d)
         /\ Len(d) # 0 => ChunkLen(s.chunk) \in 1 .. B3Chunk /\ Len(s.chunk.block) \in 1 .. B3Block
         /\ Len(s.stack) = Ones[s.chunk.counter]
<1> DEFINE C == B3Chunk
           n == Len(d)
<1>1. PICK m \in Nat : B3Holds(s, d, n, m)
  BY DEF B3State
<1> DEFINE a == m * C
           r == n - a
           x == Piece(d, a, r)
<1>2. a <= n /\ r <= C /\ (n # 0 => a < n) /\ ChunkState(s.chunk, x, m) /\ HasSpine(s.stack, Leaves(d, m), m)
  BY <1>1, Zenon DEF B3Holds
<1>3. C \in Nat \ {0} /\ n \in Nat /\ a \in Nat
  BY B3Size, Multiples
<1>4. r \in Nat /\ a + r = n /\ (n # 0 => r \in 1 .. C)
  <2> HIDE DEF a, n
  <2>. QED  BY <1>2, <1>3
<1>5. x \in Seq(S) /\ Len(x) = r
  <2> HIDE DEF a, r
  <2>1. a + r <= Len(d)
    BY <1>4
  <2>. QED  BY <1>3, <1>4, <2>1, PieceIs
<1> HIDE DEF x, r
<1>6. ChunkLen(s.chunk) = r /\ s.chunk.counter = m
  BY <1>2, <1>5, ChunkLenIs
<1>7. s.chunk.counter * C + ChunkLen(s.chunk) = n
  BY <1>4, <1>6
<1>8. n # 0 => Len(s.chunk.block) \in 1 .. B3Block
  <2>1. PICK q \in Nat : ChunkHolds(s.chunk, x, Len(x), m, q)
    BY <1>2, Zenon DEF ChunkState
  <2> DEFINE b == q * B3Block
             y == r - b
  <2>2. b <= r /\ y <= B3Block /\ (r # 0 => b < r) /\ s.chunk.block = Piece(x, b, y)
    BY <1>5, <2>1, Zenon DEF ChunkHolds
  <2>3. B3Block \in Nat \ {0} /\ b \in Nat
    BY B3Size, Multiples
  <2> HIDE DEF b
  <2>4. y \in Nat /\ b + y = r
    BY <1>4, <2>2, <2>3
  <2> HIDE DEF y
  <2>5. Len(s.chunk.block) = y
    <3>1. b + y <= Len(x)
      BY <1>4, <1>5, <2>4
    <3>. QED  BY <1>5, <2>2, <2>3, <2>4, <3>1, PieceIs
  <2>. QED  BY <1>4, <2>2, <2>3, <2>4, <2>5
<1>9. Len(s.stack) = Ones[m]
  <2>1. PICK p, k : IsSpine(p, k, s.stack, Leaves(d, m), m)
    BY <1>2, Zenon DEF HasSpine
  <2>2. /\ k \in Nat /\ p \in [0 .. k -> Nat] /\ p[0] = 0 /\ p[k] = m
        /\ (\A i \in 0 .. k : \A j \in i .. k : p[i] <= p[j])
        /\ (\A i \in 1 .. k : Power(Width(p, i)) /\ Multiple(p[i - 1], 2 * Width(p, i)) /\ m - p[i] < Width(p, i))
        /\ s.stack = [i \in 1 .. k |-> Subtree(Leaves(d, m), p, i)]
    BY <2>1, Zenon DEF IsSpine
  <2>3. \A i \in 0 .. k : p[i] \in Nat
    BY <2>2
  <2>4. Shape(p, k, m)
    BY <2>2, <2>3, Zenon DEF Shape
  <2>5. k = Ones[m]
    BY <2>4, ShapeHasOnes
  <2>6. Len(s.stack) = k
    BY <2>2
  <2>. QED  BY <2>5, <2>6
<1>. QED  BY <1>4, <1>6, <1>7, <1>8, <1>9

-----------------------------------------------------------------------------
(* The invariant: each state is that of the message so far. *)

FedInv ==
  /\ fed \in 0 .. MaxFed
  /\ ShaState(sha, Text(1, fed)) /\ B3State(blake3, Text(1, fed))
  /\ \E q \in Nat : Absorbed(poly, Text(1, fed), q)

LEMMA FedInvInit == Init => FedInv
<1> SUFFICES ASSUME Init  PROVE FedInv
  OBVIOUS
<1>1. Text(1, 0) = <<>>
  BY DEF Text
<1>2. fed = 0 /\ sha = ShaInit /\ blake3 = B3Init /\ poly = PolyInit
  BY DEF Init
<1>3. ShaState(sha, Text(1, 0))
  BY <1>1, <1>2, ShaStarts, Zenon
<1>4. Absorbed(PolyInit, <<>>, 0)
  <2>1. 0 * PolyBlock = 0 /\ Len(<<>>) = 0 /\ 0 - 0 = 0 /\ 0 \in Nat /\ 0 < PolyBlock /\ 0 <= 0
    BY PolySize, Multiples
  <2>2. PolyInit.blocks = <<>> /\ PolyInit.buf = <<>>
    BY DEF PolyInit
  <2>3. /\ [i \in 1 .. 0 |-> BlockAt(<<>>, (i - 1) * PolyBlock)] = <<>>
        /\ [k \in 1 .. 0 |-> <<>>[0 + k]] = <<>>
    OBVIOUS
  <2>. QED  BY <2>1, <2>2, <2>3 DEF Absorbed
<1>5. B3State(blake3, Text(1, 0))
  BY <1>1, <1>2, B3Starts, Zenon
<1>6. fed \in 0 .. MaxFed
  BY <1>2, PrimitivesAssumption
<1>. QED  BY <1>1, <1>2, <1>3, <1>4, <1>5, <1>6 DEF FedInv

LEMMA FedInvNext ==
  ASSUME FedInv, [Next]_vars
  PROVE  FedInv'
<1>1. CASE Update
  <2>1. PICK n \in Pieces :
          /\ fed' = fed + n /\ fed + n <= MaxFed
          /\ sha' = ShaUpdate(sha, Text(fed + 1, fed + n))
          /\ blake3' = B3Update(blake3, Text(fed + 1, fed + n))
          /\ poly' = PolyUpdate(poly, Text(fed + 1, fed + n))
    BY <1>1, Zenon DEF Update
  <2>2. n \in Nat /\ fed \in Nat /\ fed + n \in Nat /\ fed + n \in 0 .. MaxFed
    BY <2>1, PrimitivesAssumption DEF FedInv
  <2> DEFINE d == Text(1, fed)
             x == Text(fed + 1, fed + n)
  <2>3. x \in Seq(Bytes) /\ d \o x = Text(1, fed + n) /\ d \in Seq(Bytes)
    BY <2>2, TextJoins, TextIs
  <2>4. ShaState(sha, d) /\ B3State(blake3, d) /\ \E q \in Nat : Absorbed(poly, d, q)
    BY DEF FedInv
  <2> HIDE DEF d, x
  <2>5. ShaState(ShaUpdate(sha, x), d \o x)
    BY <2>3, <2>4, ShaAbsorbs, Zenon
  <2>6. \E q \in Nat : Absorbed(PolyUpdate(poly, x), d \o x, q)
    BY <2>3, <2>4, PolyTakes, Zenon
  <2>7. B3State(B3Update(blake3, x), d \o x)
    BY <2>3, <2>4, B3Absorbs, Zenon
  <2>. QED  BY <2>1, <2>2, <2>3, <2>5, <2>6, <2>7 DEF FedInv, x
<1>2. CASE UNCHANGED digests
  BY <1>2 DEF digests, FedInv
<1>. QED  BY <1>1, <1>2 DEF Next, Seal, Arrive, Open, Finished, vars

LEMMA InvStandard == FedInv => DigestsAreStandard
<1> SUFFICES ASSUME FedInv  PROVE DigestsAreStandard
  OBVIOUS
<1>0. fed \in Nat
  BY PrimitivesAssumption DEF FedInv
<1>1. Text(1, fed) \in Seq(Bytes) /\ ShaState(sha, Text(1, fed)) /\ B3State(blake3, Text(1, fed))
  BY <1>0, TextIs DEF FedInv
<1>2. PICK q \in Nat : Absorbed(poly, Text(1, fed), q)
  BY DEF FedInv
<1>3. ShaFinal(sha) = StandardSha(Text(1, fed))
  BY <1>1, ShaIsStandard
<1>4. PolyFinish(poly) = StandardPoly(Text(1, fed))
  BY <1>1, <1>2, PolyIsStandard, Zenon
<1>5. B3Finalize(blake3) = StandardB3(Text(1, fed))
  BY <1>1, B3IsStandard
<1>. QED  BY <1>3, <1>4, <1>5 DEF DigestsAreStandard, Sha256IsStandard, Blake3IsStandard, Poly1305IsStandard

\* sha256_final, blake3_finalize and poly1305_finish return what FIPS 180-4, the
\* BLAKE3 paper and RFC 8439 say of the whole message, for every size of blocks
\* and chunks, every length, and every way to cut it.
THEOREM PiecesMakeTheWhole == Spec => []DigestsAreStandard
<1>1. FedInv /\ [Next]_vars => FedInv'
  BY FedInvNext
<1>. QED  BY <1>1, FedInvInit, InvStandard, PTL DEF Spec

LEMMA InvTypeOK == FedInv => TypeOK
<1> SUFFICES ASSUME FedInv  PROVE TypeOK
  OBVIOUS
<1> DEFINE d == Text(1, fed)
<1>1. fed \in 0 .. MaxFed /\ fed \in Nat
  BY PrimitivesAssumption DEF FedInv
<1>2. d \in Seq(Bytes) /\ Len(d) = fed
  BY <1>1, TextIs
<1>3. ShaState(sha, d) /\ B3State(blake3, d) /\ \E q \in Nat : Absorbed(poly, d, q)
  BY DEF FedInv
<1> HIDE DEF d
<1>4. sha.total = fed /\ Len(sha.buf) = fed % ShaBlock
  BY <1>2, <1>3, ShaFill
<1>5. Len(poly.buf) = fed % PolyBlock
  <2>1. PICK q \in Nat : Absorbed(poly, d, q)
    BY <1>3
  <2>. QED  BY <1>2, <2>1, PolyFill
<1>6. /\ blake3.chunk.counter * B3Chunk + ChunkLen(blake3.chunk) = fed
      /\ fed # 0 => ChunkLen(blake3.chunk) \in 1 .. B3Chunk /\ Len(blake3.chunk.block) \in 1 .. B3Block
      /\ Len(blake3.stack) = Ones[blake3.chunk.counter]
  <2>1. B3State(blake3, d) /\ d \in Seq(Bytes)
    BY <1>2, <1>3
  <2>2. /\ blake3.chunk.counter * B3Chunk + ChunkLen(blake3.chunk) = Len(d)
        /\ Len(d) # 0 => ChunkLen(blake3.chunk) \in 1 .. B3Chunk /\ Len(blake3.chunk.block) \in 1 .. B3Block
        /\ Len(blake3.stack) = Ones[blake3.chunk.counter]
    BY <2>1, B3Fill, Zenon
  <2>. QED  BY <1>2, <2>2
<1>7. fed > 0 => fed # 0
  BY <1>1
<1>. QED  BY <1>1, <1>4, <1>5, <1>6, <1>7, Zenon DEF TypeOK

\* The states of the digests have their types for every size of blocks and
\* chunks and every way to cut a message: a buffer is as full as the length says,
\* and BLAKE3's stack has one subtree for each one-bit of the number of chunks.
THEOREM DigestsFill == Spec => []TypeOK
<1>1. FedInv /\ [Next]_vars => FedInv'
  BY FedInvNext
<1>. QED  BY <1>1, FedInvInit, InvTypeOK, PTL DEF Spec
================================================================================
