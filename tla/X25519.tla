-------------------------------- MODULE X25519 --------------------------------
(***************************************************************************)
(* Key agreement (x25519.c): field elements in limbs, the Montgomery       *)
(* ladder, and the bytes it starts from and ends with. A small field of    *)
(* the same shape takes the place of the code's: limbs alternate between   *)
(* two widths, the prime is a power of two less a small number, bytes do   *)
(* not line up with limbs, and the top bit of an input is ignored. The     *)
(* code's own numbers are beside the constants.                            *)
(***************************************************************************)
EXTENDS Integers, Sequences, FiniteSetsExt, SequencesExt

CONSTANTS
  Widths,       \* the bits of each limb: <<26, 25, 26, 25, 26, 25, 26, 25, 26, 25>>
  ByteBits,     \* 8
  Fold,         \* 19
  A24,          \* 121666, a quarter of the curve's coefficient and two
  Scalars, Points,  \* the inputs, as numbers
  Moduli        \* for checking an exponent of 255 bits

NLimbs == Len(Widths)
Limbs == 0 .. NLimbs - 1

Width(i) == Widths[i + 1]

Offset(i) == MapThenSumSet(Width, 0 .. i - 1)

Bits == Offset(NLimbs)

Prime == 2^Bits - Fold

ASSUME X25519Assumption ==
  /\ NLimbs \in Nat /\ NLimbs % 2 = 0
  /\ \A i \in Limbs : Width(i) = Width(i % 2) /\ Width(0) = Width(1) + 1
  /\ ByteBits \in Nat \ {0} /\ (Bits + 1) % ByteBits = 0
  /\ \A d \in 2 .. Prime - 1 : Prime % d # 0

VARIABLES
  scalar, point,    \* the inputs of x25519_scalarmult
  pos,              \* the loop counter
  ladder,           \* x2, z2, x3, z3 and swap
  out               \* the result

agreement == <<scalar, point, pos, ladder, out>>

NoResult == -1

-----------------------------------------------------------------------------
(* Field elements *)

Add(f, g) == [i \in Limbs |-> f[i] + g[i]]
Sub(f, g) == [i \in Limbs |-> f[i] - g[i]]

One == [i \in Limbs |-> IF i = 0 THEN 1 ELSE 0]
Zero == [i \in Limbs |-> 0]

Half(i) == 2^(Width(i) - 1)

\* Seeded fault: what leaves the last limb is not multiplied.
CarryUnfolded(h, i) ==
  LET c == (h[i] + Half(i)) \div 2^Width(i) IN
  [h EXCEPT ![i] = @ - c * 2^Width(i), ![(i + 1) % NLimbs] = @ + c]

\* A rounded carry into the next limb; the last one's goes to the first.
Carry(h, i) ==
  LET c == (h[i] + Half(i)) \div 2^Width(i) IN
  [h EXCEPT ![i] = @ - c * 2^Width(i),
            ![(i + 1) % NLimbs] = @ + c * (IF i = NLimbs - 1 THEN Fold ELSE 1)]

Carried(h, order) == FoldLeft(Carry, h, order)

\* 0, 4, 1, 5, 2, 6, 3, 7, 4, 8, 9, 0.
ProductOrder ==
  LET half == NLimbs \div 2 IN
  [n \in 1 .. NLimbs |-> IF n % 2 = 1 THEN n \div 2 ELSE n \div 2 + half - 2] \o <<NLimbs - 1, 0>>

\* 9, 1, 3, 5, 7, 0, 2, 4, 6, 8.
InputOrder ==
  LET half == NLimbs \div 2 IN
  <<NLimbs - 1>> \o [n \in 1 .. half - 1 |-> 2 * n - 1] \o [n \in 1 .. half |-> 2 * n - 2]

\* fe_mul: two odd limbs meet a bit above a limb's place.
Mul(f, g) ==
  LET Term(i, j) == f[i] * g[j] * (IF i % 2 = 1 /\ j % 2 = 1 THEN 2 ELSE 1)
                                * (IF i + j >= NLimbs THEN Fold ELSE 1)
      sums == [k \in Limbs |-> MapThenSumSet(LAMBDA i : Term(i, (k - i) % NLimbs), Limbs)]
  IN Carried(sums, ProductOrder)

Sq(f) == Mul(f, f)

\* fe_mul121666.
MulA24(f) == Carried([i \in Limbs |-> f[i] * A24], InputOrder)

\* load_3 and load_4: a limb takes the bytes from the first that begins in it.
Start(i) == ByteBits * ((Offset(i) + ByteBits - 1) \div ByteBits)

FromBytes(n) ==
  LET end(i) == IF i = NLimbs - 1 THEN Bits ELSE Start(i + 1)
      loaded(i) == (n \div 2^Start(i)) % 2^(end(i) - Start(i))
  IN Carried([i \in Limbs |-> loaded(i) * 2^(Start(i) - Offset(i))], InputOrder)

\* fe_tobytes: q is the number of primes to take away.
ToBytes(h) ==
  LET q == FoldLeft(LAMBDA c, i : (h[i - 1] + c) \div 2^Widths[i],
                    (Fold * h[NLimbs - 1] + Half(NLimbs - 1)) \div 2^Width(NLimbs - 1),
                    [i \in 1 .. NLimbs |-> i])
      Floor(t, i) == LET c == t[i] \div 2^Width(i) IN
        IF i = NLimbs - 1 THEN [t EXCEPT ![i] = @ - c * 2^Width(i)]
        ELSE [t EXCEPT ![i] = @ - c * 2^Width(i), ![i + 1] = @ + c]
      t == FoldLeft(Floor, [h EXCEPT ![0] = @ + Fold * q], [n \in 1 .. NLimbs |-> n - 1])
  IN MapThenSumSet(LAMBDA i : t[i] * 2^Offset(i), Limbs)

\* 2^n modulo m.
TwoTo(n, m) ==
  LET pow[i \in 0 .. n] == IF i = 0 THEN 1 ELSE ((pow[i \div 2]^2 % m) * (1 + (i % 2))) % m IN pow[n]

\* fe_invert as a chain of exponents, modulo m: Squared(e, n) squares n times.
InvertExponent(m) ==
  LET Squared(e, n) == (e * TwoTo(n, m)) % m
      Join(a, b) == (a + b) % m
      z9 == Join(Squared(1, 3), 1)
      z11 == Join(Squared(1, 1), z9)
      z31 == Join(z9, Squared(z11, 1))
      to10 == Join(Squared(z31, 5), z31)
      to20 == Join(Squared(to10, 10), to10)
      to40 == Join(Squared(to20, 20), to20)
      to50 == Join(Squared(to40, 10), to10)
      to100 == Join(Squared(to50, 50), to50)
      to200 == Join(Squared(to100, 100), to100)
      to250 == Join(Squared(to200, 50), to50)
  IN Join(Squared(to250, 5), z11)

\* The same power in the small field, the prime less two.
Invert(z) ==
  LET bit(i) == ((Prime - 2) \div 2^i) % 2 IN
  FoldLeft(LAMBDA a, i : IF bit(Bits - i) = 1 THEN Mul(Sq(a), z) ELSE Sq(a), One, [i \in 1 .. Bits |-> i])

-----------------------------------------------------------------------------
(* x25519_scalarmult *)

\* The low three bits cleared, the top one too, the one below it set.
Clamp(n) == ((n % 2^(Bits - 1)) \div 8) * 8 + 2^(Bits - 1)

Bit(n, i) == (n \div 2^i) % 2

\* Seeded fault: only one pair is swapped.
CSwapOnce(l, b) == IF b = 0 THEN l ELSE [l EXCEPT !.x2 = l.x3, !.x3 = l.x2]

\* fe_cswap, on both pairs.
CSwap(l, b) == IF b = 0 THEN l ELSE [l EXCEPT !.x2 = l.x3, !.z2 = l.z3, !.x3 = l.x2, !.z3 = l.z2]

\* The body of the loop.
Rung(x1, l, b) ==
  LET m == CSwap(l, (l.swap + b) % 2)
      plus == Add(m.x2, m.z2)
      minus == Sub(m.x2, m.z2)
      da == Mul(Sub(m.x3, m.z3), plus)
      cb == Mul(Add(m.x3, m.z3), minus)
      bb == Sq(minus)
      aa == Sq(plus)
      e == Sub(aa, bb)
  IN [x2 |-> Mul(aa, bb), z2 |-> Mul(e, Add(bb, MulA24(e))),
      x3 |-> Sq(Add(da, cb)), z3 |-> Mul(x1, Sq(Sub(da, cb))), swap |-> b]

LadderInit == scalar = 0 /\ point = 0 /\ pos = -1 /\ ladder = <<>> /\ out = NoResult

Scalarmult ==
  /\ ladder = <<>>
  /\ scalar' \in Scalars /\ point' \in Points
  /\ pos' = Bits - 1
  /\ ladder' = [x2 |-> One, z2 |-> Zero, x3 |-> FromBytes(point'), z3 |-> One, swap |-> 0]
  /\ UNCHANGED out

Climb ==
  /\ pos >= 0
  /\ ladder' = Rung(FromBytes(point), ladder, Bit(Clamp(scalar), pos))
  /\ pos' = pos - 1
  /\ UNCHANGED <<scalar, point, out>>

Return ==
  /\ ladder # <<>> /\ pos = -1 /\ out = NoResult
  /\ LET l == CSwap(ladder, ladder.swap) IN out' = ToBytes(Mul(l.x2, Invert(l.z2)))
  /\ UNCHANGED <<scalar, point, pos, ladder>>

Agreed == out # NoResult /\ UNCHANGED agreement

LadderNext == Scalarmult \/ Climb \/ Return \/ Agreed

LadderSpec == LadderInit /\ [][LadderNext]_agreement

-----------------------------------------------------------------------------
(* The curve, in coordinates of two: B y^2 = x^3 + A x^2 + x, with B chosen so
   that the point is (u, 1). *)

Times(a, b) == (a * b) % Prime
Inverse1(a) ==
  FoldLeft(LAMBDA r, i : LET s == Times(r, r) IN IF Bit(Prime - 2, Bits - i) = 1 THEN Times(s, a) ELSE s,
           1, [i \in 1 .. Bits |-> i])

Infinity == <<>>
CurveA == 4 * A24 - 2
CurveB(u) == (Times(Times(u, u), u) + CurveA * Times(u, u) + u) % Prime

\* The group law, in affine coordinates.
Sum(B, P, Q) ==
  IF P = Infinity THEN Q ELSE IF Q = Infinity THEN P
  ELSE IF P[1] = Q[1] /\ (P[2] + Q[2]) % Prime = 0 THEN Infinity
  ELSE LET slope == IF P = Q
             THEN Times((3 * Times(P[1], P[1]) + 2 * CurveA * P[1] + 1) % Prime,
                        Inverse1(Times(2 * B, P[2])))
             ELSE Times((Q[2] - P[2]) % Prime, Inverse1((Q[1] - P[1]) % Prime))
           x == (Times(B, Times(slope, slope)) - CurveA - P[1] - Q[1]) % Prime
       IN <<x, (Times(slope, (P[1] - x) % Prime) - P[2]) % Prime>>

\* n times the point (u, 1), by doubling and adding.
Multiple(n, u) ==
  FoldLeft(LAMBDA R, i : LET D == Sum(CurveB(u), R, R) IN
                         IF Bit(n, Bits - i) = 1 THEN Sum(CurveB(u), D, <<u, 1>>) ELSE D,
           Infinity, [i \in 1 .. Bits |-> i])

\* A field element's value, and the coordinate that x : z stands for.
Value(f) == MapThenSumSet(LAMBDA i : f[i] * 2^Offset(i), Limbs) % Prime

Denotes(x, z, P) ==
  IF P = Infinity THEN Value(z) = 0 ELSE Value(x) = Times(P[1], Value(z)) /\ Value(z) # 0

\* Types, and: a product's limbs are reduced, but for the second and the one in
\* the middle, which take a carry after their own, so that sums and products of
\* two more fit in a word.
LadderTypes ==
  /\ pos \in -1 .. Bits - 1
  /\ out \in NoResult .. Prime - 1
  /\ ladder # <<>> =>
       \A f \in {ladder.x2, ladder.z2, ladder.x3, ladder.z3}, i \in Limbs :
         LET limit == Half(i) + (IF i \in {1, NLimbs \div 2} THEN 2^Width(0) ELSE 0) IN f[i] \in -limit .. limit

\* x25519_scalarmult multiplies: before each rung the ladder holds k and k + 1
\* times the point, where k is the clamped scalar down to the last bit that was
\* used, and the result is the whole scalar's multiple, reduced, whatever
\* representative of the point came in. fe_invert's chain reaches the prime
\* less two.
LadderMultiplies ==
  LET u == (point % 2^Bits) % Prime
      n == Clamp(scalar)
      k == n \div 2^(pos + 1)
      l == CSwap(ladder, ladder.swap)
  IN /\ ladder # <<>> /\ u # 0 =>
          /\ Denotes(l.x2, l.z2, Multiple(k, u))
          /\ Denotes(l.x3, l.z3, Multiple(k + 1, u))
     /\ out # NoResult =>
          /\ out = IF u = 0 \/ Multiple(n, u) = Infinity THEN 0 ELSE Multiple(n, u)[1]
          /\ \A m \in Moduli : InvertExponent(m) = (TwoTo(255, m) - 21) % m
=============================================================================
