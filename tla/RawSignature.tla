---------------------------- MODULE RawSignature ----------------------------
(***************************************************************************)
(* From what hardware and services answer to the r||s that the runtime     *)
(* verifies: DER out of the Secure Enclave (derToRS) and out of Cloud KMS  *)
(* (decodeECDSASignatureDER), and the two sized buffers out of a TPM.  A   *)
(* number has ElemLen bytes of ByteBase values each; a length is a byte of *)
(* 256 values, as in the code.                                             *)
(***************************************************************************)
EXTENDS Integers, Sequences, SequencesExt

CONSTANTS ByteBase, ElemLen

SEQUENCE == 48
INTEGER == 2
Malformed == <<>>

\* The bytes of v, without leading zeros.
Minimal(v) ==
  LET len == CHOOSE n \in 0..(ElemLen + 1) :
               v < ByteBase ^ n /\ \A m \in 0..(n - 1) : v >= ByteBase ^ m
  IN  [i \in 1..len |-> (v \div ByteBase ^ (len - i)) % ByteBase]

Value(b) == FoldLeft(LAMBDA v, c : v * ByteBase + c, 0, b)

\* What a signer sends: a DER INTEGER has a zero in front if its top bit
\* would be set, and zero is one byte.
Integer(v) ==
  LET b == Minimal(v)
      content == IF b = <<>> \/ b[1] >= ByteBase \div 2 THEN <<0>> \o b ELSE b
  IN  <<INTEGER, Len(content)>> \o content

Body(r, s) == Integer(r) \o Integer(s)
DER(r, s) == <<SEQUENCE, Len(Body(r, s))>> \o Body(r, s)

\* The same with the length of the sequence in long form, in one more byte.
LongDER(r, s) == <<SEQUENCE, 129, Len(Body(r, s))>> \o Body(r, s)

\* A TPM sends the numbers with a length each, with leading zeros or without.
TPM2B(v) == {Minimal(v), [i \in 1..ElemLen |-> (v \div ByteBase ^ (ElemLen - i))
                                                 % ByteBase]}

-----------------------------------------------------------------------------
\* Mutant: a short number is put at the start of its field.
LeftAligned(v) ==
  [i \in 1..ElemLen |-> IF i <= Len(v) THEN v[i] ELSE 0]

\* copy(out[32-len(v):32], v)
RightAligned(v) ==
  [i \in 1..ElemLen |-> LET j == i - (ElemLen - Len(v)) IN IF j > 0 THEN v[j] ELSE 0]

Stripped(v) ==
  LET zeros == {n \in 0..Len(v) : \A i \in 1..n : v[i] = 0}
      most == CHOOSE n \in zeros : \A m \in zeros : m <= n
  IN  SubSeq(v, most + 1, Len(v))

\* readInt of derToRS at offset i: the number and the offset behind it.
readInt(der, i) ==
  IF i + 2 > Len(der) \/ der[i + 1] # INTEGER \/ i + 2 + der[i + 2] > Len(der)
  THEN [ok |-> FALSE, v |-> <<>>, i |-> i]
  ELSE LET l == der[i + 2]
           v == Stripped(SubSeq(der, i + 3, i + 2 + l))
       IN  [ok |-> Len(v) <= ElemLen, v |-> v, i |-> i + 2 + l]

derToRS(der) ==
  LET r == readInt(der, IF der[2] >= 128 THEN 2 + (der[2] % 128) ELSE 2)
      s == readInt(der, r.i)
  IN  IF Len(der) < 8 \/ der[1] # SEQUENCE \/ ~r.ok \/ ~s.ok
      THEN Malformed
      ELSE <<RightAligned(r.v), RightAligned(s.v)>>

\* asn1.Unmarshal takes nothing but the DER of two integers.
Unmarshal(der) ==
  LET l == der[4]
      r == Value(SubSeq(der, 5, 4 + l))
      s == Value(SubSeq(der, 7 + l, Len(der)))
  IN  IF DER(r, s) = der THEN {<<r, s>>} ELSE {}

\* A number that is positive and not too long for its field.
Fits(v) == v > 0 /\ Len(Minimal(v)) <= ElemLen

decodeECDSASignatureDER(der) ==
  LET good == {n \in Unmarshal(der) : Fits(n[1]) /\ Fits(n[2])}
  IN  IF good = {} THEN Malformed
      ELSE LET n == CHOOSE m \in good : TRUE
           IN  <<RightAligned(Minimal(n[1])), RightAligned(Minimal(n[2]))>>

\* Key.Sign of internal/tpm2.
SignTPM(r, s) == <<RightAligned(r), RightAligned(s)>>

\* All the ways a signature (r, s) reaches the slot, each as r||s.
Decoded(r, s) ==
  {derToRS(DER(r, s)), derToRS(LongDER(r, s)), decodeECDSASignatureDER(DER(r, s))}

Received(r, s) ==
  Decoded(r, s) \cup {SignTPM(a, b) : a \in TPM2B(r), b \in TPM2B(s)}
=============================================================================
