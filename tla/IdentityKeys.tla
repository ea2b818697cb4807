---------------------------- MODULE IdentityKeys ----------------------------
(***************************************************************************)
(* The keys of identities: how janosMintIdentity derives them and what     *)
(* Identity.Derive computes once it has let its caller in.  HMAC is free:  *)
(* a seed is any number of 32 bytes, and the derived key is the pair of    *)
(* what goes into it.                                                      *)
(***************************************************************************)
EXTENDS P256

Infinity == <<>>
ErrPeerInvalid == <<>>

janosP256AffineXY(p) ==
  IF IsInfinity(p) THEN Infinity
  ELSE <<AffineX(p), (p.y * FieldInvert(p.z)) % P>>

\* The public point of the private key seed.  SetBytesBE reduces and never
\* fails, so that a seed of N or more is neither drawn again nor reduced; a
\* multiple of N ends the process.
janosDeriveIdentityKey(seed) ==
  janosP256AffineXY(ScalarMult(SetGenerator, seed))

\* The two points in the order of their bytes.
janosIdentityKDFSalt(a, b) ==
  IF a[1] > b[1] \/ (a[1] = b[1] /\ a[2] > b[2]) THEN <<b, a>> ELSE <<a, b>>

janosIdentityECDH(priv, ourPub, peer) ==
  IF ~SetUncompressedBytes(peer[1], peer[2]) THEN ErrPeerInvalid
  ELSE LET shared == janosP256AffineXY(
                       ScalarMult([x |-> peer[1], y |-> peer[2], z |-> 1], priv))
       IN  IF shared = Infinity THEN ErrPeerInvalid
           ELSE <<janosIdentityKDFSalt(ourPub, peer), shared>>
=============================================================================
