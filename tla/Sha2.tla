-------------------------------- MODULE Sha2 --------------------------------
(***************************************************************************)
(* internal/runtime/janos_hash: the streaming digests SHA256 and SHA512,   *)
(* whose Write may be called with pieces of any length and whose Sum pads  *)
(* a copy.  The compression function is free: h is the sequence of blocks  *)
(* it has been given, so that equal digests mean equal blocks.  Chunk and  *)
(* LenField are 64 and 8 for SHA256, 128 and 16 for SHA512.                *)
(***************************************************************************)
EXTENDS Integers, Sequences

CONSTANTS Chunk, LenField, Byte,
          MaxLen,     \* bound on the length of a message
          MaxWrite    \* bound on the length of a piece

ASSUME ShaAssumption ==
  /\ Chunk \in Nat \ {0} /\ LenField \in Nat /\ LenField < Chunk
  /\ MaxLen \in Nat /\ MaxWrite \in Nat

VARIABLES d,    \* the digest: h, x, nx and len
          msg   \* history: what has been written

vars == <<d, msg>>

Blocks(p) == [i \in 1..(Len(p) \div Chunk) |->
                SubSeq(p, (i - 1) * Chunk + 1, i * Chunk)]

\* copy(x[from:], p): as much as there is of p and room in x.
Copy(x, from, p) ==
  [i \in 1..Chunk |-> IF i > from /\ i <= from + Len(p) THEN p[i - from] ELSE x[i]]

Smaller(a, b) == IF a < b THEN a ELSE b

\* Write: fill up a begun block, then whole blocks, then keep the rest.
Filled(c, p) ==
  LET n == IF c.nx > 0 THEN Smaller(Chunk - c.nx, Len(p)) ELSE 0
      x == IF c.nx > 0 THEN Copy(c.x, c.nx, p) ELSE c.x
      full == c.nx > 0 /\ c.nx + n = Chunk
  IN  [h |-> IF full THEN Append(c.h, x) ELSE c.h, x |-> x,
       nx |-> IF full THEN 0 ELSE c.nx + n, len |-> c.len + Len(p), used |-> n]

WriteTo(c, p) ==
  LET f == Filled(c, p)
      q == SubSeq(p, f.used + 1, Len(p))
      whole == (Len(q) \div Chunk) * Chunk
      rest == SubSeq(q, whole + 1, Len(q))
  IN  [h |-> f.h \o Blocks(SubSeq(q, 1, whole)),
       x |-> IF rest # <<>> THEN Copy(f.x, 0, rest) ELSE f.x,
       nx |-> IF rest # <<>> THEN Len(rest) ELSE f.nx,
       len |-> f.len]

\* The length in bits, in the last bytes.
Encoded(bits) == [i \in 1..LenField |-> (bits \div 256 ^ (LenField - i)) % 256]

\* Mutant: <= instead of <.
PadAtEnd(len) ==
  LET room == Chunk - LenField
  IN  (IF len % Chunk <= room THEN room ELSE Chunk + room) - (len % Chunk)

\* How far the 0x80 and the zeros reach.
PadLength(len) ==
  LET room == Chunk - LenField
  IN  (IF len % Chunk < room THEN room ELSE Chunk + room) - (len % Chunk)

Sum(c) ==
  LET t == PadLength(c.len)
      tmp == [i \in 1..t |-> IF i = 1 THEN 128 ELSE 0]
  IN  WriteTo(c, tmp \o Encoded(8 * c.len)).h

\* Reset leaves the buffer as it is.
Reset(c) == [c EXCEPT !.h = <<>>, !.nx = 0, !.len = 0]

\* A caller declares a digest, which is zero, and resets it.
ShaInit ==
  /\ d = Reset([h |-> <<>>, x |-> [i \in 1..Chunk |-> 0], nx |-> 0, len |-> 0])
  /\ msg = <<>>

ShaReset == d' = Reset(d) /\ msg' = <<>>

Write(p) ==
  /\ Len(msg) + Len(p) <= MaxLen
  /\ d' = WriteTo(d, p)
  /\ msg' = msg \o p

Piece == UNION {[1..n -> Byte] : n \in 0..MaxWrite}

ShaNext == ShaReset \/ \E p \in Piece : Write(p)

ShaSpec == ShaInit /\ [][ShaNext]_vars

-----------------------------------------------------------------------------
\* FIPS 180-4: the message, a one bit, the fewest zeros that work, its length.
FipsPadded(m) ==
  LET zeros == CHOOSE k \in 0..(Chunk - 1) :
                 (Len(m) + 1 + k + LenField) % Chunk = 0
  IN  m \o <<128>> \o [i \in 1..zeros |-> 0] \o Encoded(8 * Len(m))

\* However a message is cut into Writes, and whatever an earlier block or a
\* message before a Reset left in the buffer, Sum hashes the message as the
\* standard pads it; snapshots taken on the way do not change it.
StreamIsWhole == Sum(d) = Blocks(FipsPadded(msg))
=============================================================================
