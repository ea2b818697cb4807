------------------------------ MODULE MCCrypto ------------------------------
(***************************************************************************)
(* The digests, the signature check and the signature formats for TLC.     *)
(* The streaming digest is a state machine; for the rest an input is       *)
(* chosen at the start.                                                    *)
(***************************************************************************)
EXTENDS Sha2, IdentityKeys, RawSignature

CONSTANTS Digests,   \* the digests e that are tried
          Secrets    \* the private keys that are tried

VARIABLE input

None == [kind |-> "none"]

\* The moduli for which limbs of Base and R work like 2^64 and 2^256.
Moduli == {n \in (R \div 2)..(R - 1) : n % 2 = 1}

Init ==
  /\ ShaInit
  /\ \/ input = None
     \/ \E n \in Moduli, a \in Number :
          input = [kind |-> "mul", n |-> n, a |-> a]
     \/ \E x, y \in Number : input = [kind |-> "key", x |-> x, y |-> y]
     \/ \E k \in Secrets, e \in Digests, r, s \in Number :
          input = [kind |-> "sig", key |-> k, e |-> e, r |-> r, s |-> s]
     \/ \E k \in Secrets, e \in Digests, nonce \in 1..(N - 1) :
          input = [kind |-> "sign", key |-> k, e |-> e, nonce |-> nonce]
     \/ \E r, s \in 1..(2 * R - 1) : input = [kind |-> "der", r |-> r, s |-> s]
     \/ input = [kind |-> "invert"]
     \/ \E a, b \in Number : input = [kind |-> "derive", a |-> a, b |-> b]

Next == input = None /\ ShaNext /\ UNCHANGED input

Spec == Init /\ [][Next]_<<vars, input>>

-----------------------------------------------------------------------------
\* p256ScalarMontMul returns a * b / R below n, for every pair of reduced
\* factors: no carry is lost, although t needs more bits than n has.
MontMulIsProduct ==
  input.kind = "mul" /\ input.a < input.n =>
    \A b \in 0..(input.n - 1) :
      LET m == MontMul(input.n, input.a, b)
      IN  m \in 0..(input.n - 1) /\ (m * R - input.a * b) % input.n = 0

\* janosP256VerifyRS accepts what the textbook accepts and nothing else, zero,
\* numbers of n or more, keys off the curve, doublings and sums that are
\* infinity among its inputs. The inversion it rests on is Fermat's: the addition
\* chain of the field's Invert raises to the power p - 2 for the p of P-256.
VerifiesECDSA ==
  /\ input.kind = "sig" =>
       LET q == Table[input.key]
       IN  janosP256VerifyRS(q[1], q[2], input.e, input.r, input.s)
             = Textbook(input.key, input.e, input.r, input.s)
  /\ input.kind = "key" =>
       \A e \in Digests :
         LET sig == TextbookSign(1, e, 2)
             ks == {k \in 1..(N - 1) : Table[k] = <<input.x, input.y>>}
         IN  janosP256VerifyRS(input.x, input.y, e, sig[1], sig[2])
               = \E k \in ks : Textbook(k, e, sig[1], sig[2])
  /\ input.kind = "invert" =>
       InvertExponent = SetToBag((0..95 \ {1}) \cup {192} \cup (224..255))

\* Both sides agree. A signature by any signer arrives as the numbers that were
\* made, however short they are, and the runtime accepts it; numbers too long
\* for their fields are refused, and never cut off. Two identities
\* derive the same key from each other's points, whatever their seeds (those
\* not below n too), unless one of them has no point.
PartiesAgree ==
  /\ input.kind = "sign" =>
       LET sig == TextbookSign(input.key, input.e, input.nonce)
           q == Table[input.key]
       IN  0 \notin {sig[1], sig[2]} =>
             \A raw \in Received(sig[1], sig[2]) :
               /\ raw # Malformed
               /\ <<Value(raw[1]), Value(raw[2])>> = sig
               /\ janosP256VerifyRS(q[1], q[2], input.e, sig[1], sig[2])
  /\ input.kind = "der" =>
       \A raw \in Decoded(input.r, input.s) :
         IF input.r < R /\ input.s < R
         THEN raw # Malformed /\ <<Value(raw[1]), Value(raw[2])>> = <<input.r, input.s>>
         ELSE raw = Malformed
  /\ input.kind = "derive" =>
       LET a == janosDeriveIdentityKey(input.a)
           b == janosDeriveIdentityKey(input.b)
           ours == janosIdentityECDH(input.a, a, b)
       IN  Infinity \notin {a, b} =>
             /\ ours # ErrPeerInvalid
             /\ ours = janosIdentityECDH(input.b, b, a)
             /\ ours[2] = Table[(input.a * input.b) % N]
=============================================================================
