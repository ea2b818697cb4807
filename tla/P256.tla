-------------------------------- MODULE P256 --------------------------------
(***************************************************************************)
(* The signature check of the boot: runtime/janos_ecdsa_p256.go and the    *)
(* arithmetic under it, as operators over a curve y^2 = x^3 - 3x + B of    *)
(* prime order N with N < P < R < 2N, which is how P-256 relates to 2^256. *)
(* A number of 32 bytes is a number below R = Base^Limbs.                  *)
(*                                                                         *)
(* Scalars are kept in Montgomery form and multiplied limb by limb, as in  *)
(* the code.  The field arithmetic, generated code, is arithmetic modulo P *)
(* and its inversion is the power P - 2.  The addition chain by which the  *)
(* code gets that power of the P of P-256 is InvertExponent.               *)
(***************************************************************************)
EXTENDS Integers, Bags

CONSTANTS Base, Limbs, P, B, N, Gx, Gy

R == Base ^ Limbs

ASSUME P256Assumption ==
  /\ N < P /\ P < R /\ R < 2 * N
  /\ (Gy * Gy - Gx * Gx * Gx + 3 * Gx - B) % P = 0

Number == 0..(R - 1)
Bits == CHOOSE k \in 0..R : 2 ^ k = R
Bit(v, i) == (v \div 2 ^ i) % 2

-----------------------------------------------------------------------------
\* Scalars: p256ScalarMontMul, for any odd modulus n.

Limb(v, j) == (v \div Base ^ j) % Base

\* One turn of an inner loop: limb j of t plus a times y plus the carry.
Acc(t, s, j, a, y) ==
  LET prod == a * y
      lo == (prod % Base) + t[j]
      hi == (prod \div Base + lo \div Base) % Base
      sum == (lo % Base) + s.lo
      high == hi + s.hi + sum \div Base
  IN  [t |-> [s.t EXCEPT ![j] = sum % Base],
       lo |-> high % Base, hi |-> high \div Base]

\* The carry goes into the two limbs above.
Drained(s) ==
  LET top == s.t[Limbs] + s.lo
  IN  [s.t EXCEPT ![Limbs] = top % Base,
                  ![Limbs + 1] = (@ + s.hi + top \div Base) % Base]

\* t := t + a * y
AddMul(t, a, y) ==
  LET loop[j \in 0..Limbs] ==
        IF j = 0 THEN [t |-> t, lo |-> 0, hi |-> 0]
        ELSE Acc(t, loop[j - 1], j - 1, Limb(a, j - 1), y)
  IN  Drained(loop[Limbs])

\* The constants of the modulus n.
NInv0(n) == CHOOSE v \in 0..(Base - 1) : (v * n + 1) % Base = 0
RR(n) == (R * R) % n

\* t := (t + m * n) / Base, for the m that makes the last limb zero.
Shift(t) == [j \in 0..(Limbs + 1) |-> IF j <= Limbs THEN t[j + 1] ELSE 0]

Reduced(t, n) == Shift(AddMul(t, n, (t[0] * NInv0(n)) % Base))

\* Mutant: a result of R or more is taken for one below n.
SubtractBelowR(v, top, n) == IF v >= n THEN v - n ELSE v

\* The final subtraction, modulo R as limbs are.
Subtracted(v, top, n) == IF v >= n \/ top # 0 THEN (v - n) % R ELSE v

BelowModulus(t, n) ==
  LET value[j \in 0..Limbs] ==
        IF j = 0 THEN 0 ELSE value[j - 1] + t[j - 1] * Base ^ (j - 1)
  IN  Subtracted(value[Limbs], t[Limbs], n)

MontMul(n, a, b) ==
  LET outer[i \in 0..Limbs] ==
        IF i = 0 THEN [j \in 0..(Limbs + 1) |-> 0]
        ELSE Reduced(AddMul(outer[i - 1], a, Limb(b, i - 1)), n)
  IN  BelowModulus(outer[Limbs], n)

ScalarMul == [a \in Number, b \in Number |-> MontMul(N, a, b)]

\* SetBytesBE reduces, with one subtraction, and enters the Montgomery domain.
SetBytesBE(v) == ScalarMul[IF v >= N THEN v - N ELSE v, RR(N)]

Bytes(s) == ScalarMul[s, 1]

\* Invert: the power N - 2 by square and multiply, from the top bit.
ScalarInvert(x) ==
  LET power[k \in 0..Bits] ==
        IF k = 0 THEN ScalarMul[RR(N), 1]
        ELSE LET q == power[k - 1]
                 sq == ScalarMul[q, q]
             IN  IF Bit(N - 2, Bits - k) = 1 THEN ScalarMul[sq, x] ELSE sq
  IN  IF x = 0 THEN 0 ELSE power[Bits]

-----------------------------------------------------------------------------
\* Points, in projective coordinates; the ones with z = 0 are infinity.

\* An exponent is a bag of powers of two: squaring k times adds k to each, and
\* a product of powers of x has the exponents of both.
Squared(a, k) == [i \in {j + k : j \in DOMAIN a} |-> a[i - k]]

\* The power of x that the field's Invert(x) ends with.
InvertExponent ==
  LET x == SetToBag({0})
      x2 == Squared(x, 1) (+) x
      x3 == Squared(x2, 1) (+) x
      x6 == x3 (+) Squared(x3, 3)
      x12 == x6 (+) Squared(x6, 6)
      x15 == x3 (+) Squared(x12, 3)
      x16 == x (+) Squared(x15, 1)
      x32 == x16 (+) Squared(x16, 16)
      t32 == Squared(x32, 15)
      x47 == x15 (+) t32
      t64 == x (+) Squared(t32, 17)
      t207 == x47 (+) Squared(t64, 143)
  IN  x (+) Squared(x47 (+) Squared(t207, 47), 2)

\* Invert, as the power P - 2 of its argument; zero stays zero.
FieldInvert(z) ==
  LET power[k \in 0..Bits] ==
        IF k = 0 THEN 1
        ELSE LET q == power[k - 1]
             IN  (q * q * (IF Bit(P - 2, Bits - k) = 1 THEN z ELSE 1)) % P
  IN  power[Bits]

isOnCurve(x, y) == (x * x * x - 3 * x + B) % P = (y * y) % P

\* The complete addition formula.
Add(p1, p2) ==
  LET t0 == p1.x * p2.x
      t1 == p1.y * p2.y
      t2 == p1.z * p2.z
      t3 == ((p1.x + p1.y) * (p2.x + p2.y) - (t0 + t1)) % P
      t4 == ((p1.y + p1.z) * (p2.y + p2.z) - (t1 + t2)) % P
      xz == ((p1.x + p1.z) * (p2.x + p2.z) - (t0 + t2)) % P
      c == (3 * (xz - B * t2)) % P
      d == (3 * (B * xz - 3 * t2 - t0)) % P
      e == (3 * t0 - 3 * t2) % P
      z3 == (t1 - c) % P
      x3 == (t1 + c) % P
  IN  [x |-> (t3 * x3 - t4 * d) % P,
       y |-> (x3 * z3 + e * d) % P,
       z |-> (t4 * z3 + t3 * e) % P]

\* The complete doubling formula.
Double(p) ==
  LET t1 == p.y * p.y
      c == (3 * (B * p.z * p.z - 2 * p.x * p.z)) % P
      d == (3 * (2 * B * p.x * p.z - 3 * p.z * p.z - p.x * p.x)) % P
      yz == 2 * p.y * p.z
  IN  [x |-> ((t1 - c) * 2 * p.x * p.y - yz * d) % P,
       y |-> ((t1 - c) * (t1 + c) + (3 * p.x * p.x - 3 * p.z * p.z) * d) % P,
       z |-> (4 * yz * t1) % P]

SetInfinity == [x |-> 0, y |-> 1, z |-> 0]
SetGenerator == [x |-> Gx, y |-> Gy, z |-> 1]
IsInfinity(p) == p.z = 0

\* Double and add over every bit of k, from the top.
ScalarMult(p, k) ==
  LET sum[i \in 0..Bits] ==
        IF i = 0 THEN SetInfinity
        ELSE LET twice == Double(sum[i - 1])
             IN  IF Bit(k, Bits - i) = 1 THEN Add(twice, p) ELSE twice
  IN  sum[Bits]

AffineX(p) == (p.x * FieldInvert(p.z)) % P

-----------------------------------------------------------------------------
\* janosP256VerifyRS: (x, y) is the key, e the digest, (r, s) the signature.

\* Mutant: no comparison of the raw numbers with n.
RangeUnchecked(r, s) == SetBytesBE(r) # 0 /\ SetBytesBE(s) # 0

InRange(r, s) == SetBytesBE(r) # 0 /\ SetBytesBE(s) # 0 /\ r < N /\ s < N

SetUncompressedBytes(x, y) == x < P /\ y < P /\ isOnCurve(x, y)

\* The x coordinate of p, modulo n, is r.
XIsR(p, r) ==
  /\ ~IsInfinity(p)
  /\ Bytes(SetBytesBE(AffineX(p))) = Bytes(SetBytesBE(r))

janosP256VerifyRS(x, y, e, r, s) ==
  /\ InRange(r, s)
  /\ SetUncompressedBytes(x, y)
  /\ LET w == ScalarInvert(SetBytesBE(s))
         u1 == Bytes(ScalarMul[SetBytesBE(e), w])
         u2 == Bytes(ScalarMul[SetBytesBE(r), w])
     IN  XIsR(Add(ScalarMult(SetGenerator, u1),
                  ScalarMult([x |-> x, y |-> y, z |-> 1], u2)), r)

-----------------------------------------------------------------------------
\* The textbook, for reference: the chord and tangent law on affine points,
\* with a table of multiples, and the verification of FIPS 186-4.

O == <<P, P>>

ModInverse(v, m) == CHOOSE i \in 0..(m - 1) : (i * v) % m = 1 % m

InverseP == [v \in 1..(P - 1) |-> ModInverse(v, P)]
InverseN == [v \in 1..(N - 1) |-> ModInverse(v, N)]

Plus(p, q) ==
  CASE p = O -> q
    [] q = O -> p
    [] p # O /\ q # O /\ p[1] = q[1] /\ (p[2] + q[2]) % P = 0 -> O
    [] OTHER ->
         LET slope == IF p = q
                      THEN ((3 * p[1] * p[1] - 3) * InverseP[(2 * p[2]) % P]) % P
                      ELSE ((q[2] - p[2]) * InverseP[(q[1] - p[1]) % P]) % P
             x == (slope * slope - p[1] - q[1]) % P
         IN  <<x, (slope * (p[1] - x) - p[2]) % P>>

\* Multiples of the generator: every point of the curve is one.
Multiple[k \in 0..(N - 1)] ==
  IF k = 0 THEN O ELSE Plus(Multiple[k - 1], <<Gx, Gy>>)

Table == [k \in 0..(N - 1) |-> Multiple[k]]

Textbook(d, e, r, s) ==
  /\ r \in 1..(N - 1) /\ s \in 1..(N - 1)
  /\ LET w == InverseN[s]
         p == Table[(e * w + r * w * d) % N]
     IN  p # O /\ p[1] % N = r

\* The signature of e by d with the nonce k, if k is good for one.
TextbookSign(d, e, k) ==
  LET r == Table[k][1] % N IN <<r, (InverseN[k] * (e + r * d)) % N>>
=============================================================================
