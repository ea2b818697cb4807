----------------------------- MODULE Sha2Proofs -----------------------------
(***************************************************************************)
(* Proofs about Sha2 for any block size, length field smaller than it, set *)
(* of bytes and bounds on messages and Writes.                             *)
(***************************************************************************)
EXTENDS Sha2, SequenceTheorems, TLAPS

-----------------------------------------------------------------------------
(* Division by the block size *)

\* A length is a number of whole blocks and a rest.
LEMMA DivMod ==
  ASSUME NEW n \in Nat
  PROVE  /\ n \div Chunk \in Nat /\ n % Chunk \in 0..(Chunk - 1)
         /\ n = (n \div Chunk) * Chunk + (n % Chunk)
  BY ShaAssumption

\* Multiples of the block size, which the solver does not multiply out itself.
LEMMA Times ==
  ASSUME NEW j \in Int, NEW k \in Int
  PROVE  /\ k * Chunk \in Int
         /\ (j + k) * Chunk = j * Chunk + k * Chunk
         /\ (k - 1) * Chunk = k * Chunk - Chunk
         /\ j < k => j * Chunk + Chunk <= k * Chunk
  BY ShaAssumption

\* The quotient and the rest are the only ones.
LEMMA DivUnique ==
  ASSUME NEW k \in Nat, NEW r \in 0..(Chunk - 1)
  PROVE  (k * Chunk + r) \div Chunk = k /\ (k * Chunk + r) % Chunk = r
  <1> DEFINE n == k * Chunk + r
             q == n \div Chunk
             s == n % Chunk
  <1>1. n \in Nat /\ Chunk \in Nat /\ Chunk > 0
    BY ShaAssumption
  <1> HIDE DEF n
  <1>2. q \in Nat /\ s \in 0..(Chunk - 1) /\ n = q * Chunk + s
    BY <1>1, DivMod
  <1> HIDE DEF q, s
  <1>3. q * Chunk \in Int /\ k * Chunk \in Int
    BY <1>1, <1>2, Times
  <1>4. ~(q < k)
    <2>1. q < k => q * Chunk + Chunk <= k * Chunk
      BY <1>2, Times
    <2> QED
      BY <1>1, <1>2, <1>3, <2>1 DEF n
  <1>5. ~(k < q)
    <2>1. k < q => k * Chunk + Chunk <= q * Chunk
      BY <1>2, Times
    <2> QED
      BY <1>1, <1>2, <1>3, <2>1 DEF n
  <1>6. q = k
    BY <1>2, <1>4, <1>5
  <1>7. s = r
    BY <1>1, <1>2, <1>3, <1>6 DEF n
  <1> QED
    BY <1>6, <1>7 DEF q, s, n

-----------------------------------------------------------------------------
(* The blocks of a sequence *)

\* A function on 1..n, such as the buffer, is a sequence of length n.
LEMMA FunIsSeq ==
  ASSUME NEW T, NEW n \in Nat, NEW f \in [1..n -> T]
  PROVE  f \in Seq(T) /\ Len(f) = n
  <1>1. f \in Seq(T)
    BY SeqDef
  <1>2. Len(f) \in Nat /\ DOMAIN f = 1..Len(f)
    BY <1>1, LenProperties
  <1> QED
    BY <1>1, <1>2

\* Blocks(p) is a sequence of pieces of p, and each of them lies within p.
LEMMA BlocksType ==
  ASSUME NEW S, NEW p \in Seq(S)
  PROVE  /\ Blocks(p) \in Seq(Seq(S))
         /\ Len(Blocks(p)) = Len(p) \div Chunk
         /\ \A i \in 1..(Len(p) \div Chunk) :
              /\ Blocks(p)[i] = SubSeq(p, (i - 1) * Chunk + 1, i * Chunk)
              /\ Blocks(p)[i] \in Seq(S)
              /\ (i - 1) * Chunk \in Nat /\ i * Chunk \in Nat
              /\ (i - 1) * Chunk + Chunk = i * Chunk /\ i * Chunk <= Len(p)
  <1> DEFINE n == Len(p) \div Chunk
  <1>1. Len(p) \in Nat /\ n \in Nat
    BY LenProperties, DivMod
  <1>2. ASSUME NEW i \in 1..n
        PROVE  /\ (i - 1) * Chunk \in Nat /\ i * Chunk \in Nat
               /\ (i - 1) * Chunk + Chunk = i * Chunk /\ i * Chunk <= Len(p)
    <2>1. Len(p) = n * Chunk + (Len(p) % Chunk) /\ Len(p) % Chunk \in 0..(Chunk - 1)
      BY <1>1, DivMod
    <2> HIDE DEF n
    <2>2. i * Chunk <= n * Chunk /\ n * Chunk \in Int
      BY <1>1, ShaAssumption
    <2>3. (i - 1) * Chunk \in Nat /\ i * Chunk \in Nat
      BY <1>1, ShaAssumption
    <2>4. (i - 1) * Chunk = i * Chunk - Chunk
      BY <1>1, Times
    <2> QED
      BY <1>1, <2>1, <2>2, <2>3, <2>4, ShaAssumption
  <1> HIDE DEF n
  <1>3. \A i \in 1..n : SubSeq(p, (i - 1) * Chunk + 1, i * Chunk) \in Seq(S)
    <2> TAKE i \in 1..n
    <2> DEFINE a == (i - 1) * Chunk
               b == i * Chunk
    <2>1. a \in Nat /\ b \in Nat /\ b <= Len(p)
      BY <1>2
    <2> HIDE DEF a, b
    <2>2. \A j \in (a + 1)..b : p[j] \in S
      BY <1>1, <2>1, ElementOfSeq
    <2>3. SubSeq(p, a + 1, b) \in Seq(S)
      BY <2>1, <2>2, SubSeqProperties
    <2> QED
      BY <2>3 DEF a, b
  <1>4. Blocks(p) = [i \in 1..n |-> SubSeq(p, (i - 1) * Chunk + 1, i * Chunk)]
    BY DEF Blocks, n
  <1>5. Blocks(p) \in [1..n -> Seq(S)]
    BY <1>3, <1>4
  <1>6. Blocks(p) \in Seq(Seq(S)) /\ Len(Blocks(p)) = n
    BY <1>1, <1>5, FunIsSeq
  <1>7. \A i \in 1..n : Blocks(p)[i] = SubSeq(p, (i - 1) * Chunk + 1, i * Chunk)
    BY <1>4
  <1>8. \A i \in 1..n : /\ (i - 1) * Chunk \in Nat /\ i * Chunk \in Nat
                        /\ (i - 1) * Chunk + Chunk = i * Chunk /\ i * Chunk <= Len(p)
    BY <1>2
  <1>9. \A i \in 1..n : Blocks(p)[i] \in Seq(S)
    BY <1>5
  <1> QED
    BY <1>6, <1>7, <1>8, <1>9 DEF n

\* What sha256Block is given in two calls, the first with whole blocks, is what
\* it would be given in one.
LEMMA BlocksConcat ==
  ASSUME NEW S, NEW u \in Seq(S), NEW v \in Seq(S), NEW k \in Nat, Len(u) = k * Chunk
  PROVE  Blocks(u \o v) = Blocks(u) \o Blocks(v)
  <1> DEFINE l == Len(v) \div Chunk
             r == Len(v) % Chunk
             w == u \o v
  <1>1. /\ w \in Seq(S) /\ Len(w) = k * Chunk + Len(v) /\ Len(v) \in Nat /\ k * Chunk \in Nat
    BY ConcatProperties, LenProperties, ShaAssumption
  <1>2. l \in Nat /\ r \in 0..(Chunk - 1) /\ Len(v) = l * Chunk + r
    BY <1>1, DivMod
  <1>3. Len(u) \div Chunk = k
    <2>1. 0 \in 0..(Chunk - 1)
      BY ShaAssumption
    <2>2. (k * Chunk + 0) \div Chunk = k
      BY <2>1, DivUnique
    <2> QED
      BY <1>1, <2>2
  <1> HIDE DEF l, r, w
  <1>4. Len(w) \div Chunk = k + l
    <2>1. k + l \in Nat /\ Len(w) = (k + l) * Chunk + r
      BY <1>1, <1>2, Times, ShaAssumption
    <2> QED
      BY <1>2, <2>1, DivUnique
  <1>5. /\ Blocks(u) \in Seq(Seq(S)) /\ Len(Blocks(u)) = k
        /\ \A i \in 1..k : Blocks(u)[i] = SubSeq(u, (i - 1) * Chunk + 1, i * Chunk)
    BY <1>3, BlocksType
  <1>6. /\ Blocks(v) \in Seq(Seq(S)) /\ Len(Blocks(v)) = l
        /\ \A i \in 1..l :
             /\ Blocks(v)[i] = SubSeq(v, (i - 1) * Chunk + 1, i * Chunk)
             /\ (i - 1) * Chunk \in Nat /\ i * Chunk \in Nat
             /\ (i - 1) * Chunk + Chunk = i * Chunk /\ i * Chunk <= Len(v)
    BY BlocksType DEF l
  <1>7. /\ Blocks(w) \in Seq(Seq(S)) /\ Len(Blocks(w)) = k + l
        /\ \A i \in 1..(k + l) : Blocks(w)[i] = SubSeq(w, (i - 1) * Chunk + 1, i * Chunk)
    BY <1>1, <1>4, BlocksType
  <1> DEFINE c == Blocks(u) \o Blocks(v)
  <1>8. /\ c \in Seq(Seq(S)) /\ Len(c) = k + l
        /\ \A i \in 1..(k + l) : c[i] = IF i <= k THEN Blocks(u)[i] ELSE Blocks(v)[i - k]
    <2> DEFINE T == Seq(S)
    <2>1. Blocks(u) \in Seq(T) /\ Blocks(v) \in Seq(T)
      BY <1>5, <1>6
    <2> HIDE DEF T
    <2>2. /\ c \in Seq(T) /\ Len(c) = Len(Blocks(u)) + Len(Blocks(v))
          /\ \A i \in 1..(Len(Blocks(u)) + Len(Blocks(v))) :
               c[i] = IF i <= Len(Blocks(u)) THEN Blocks(u)[i]
                      ELSE Blocks(v)[i - Len(Blocks(u))]
      BY <2>1, ConcatProperties
    <2> HIDE DEF c
    <2> QED
      BY <1>5, <1>6, <2>2 DEF T
  <1> HIDE DEF c
  <1>9. \A i \in 1..k : Blocks(w)[i] = Blocks(u)[i]
    <2> TAKE i \in 1..k
    <2> DEFINE a == (i - 1) * Chunk
               b == i * Chunk
    <2>1. a \in Nat /\ b \in Nat /\ a + Chunk = b /\ b <= Len(u)
      BY <1>3, BlocksType
    <2> HIDE DEF a, b
    <2>2. a + 1 \in 1..Len(u) /\ b \in 1..Len(u)
      BY <2>1, LenProperties, ShaAssumption
    <2>3. SubSeq(w, a + 1, b) = SubSeq(u, a + 1, b)
      BY <2>2, SubSeqOfConcat1 DEF w
    <2>4. i \in 1..(k + l)
      BY <1>2
    <2> QED
      BY <1>5, <1>7, <2>3, <2>4 DEF a, b
  <1>10. ASSUME NEW i \in 1..(k + l), i > k
         PROVE  Blocks(w)[i] = Blocks(v)[i - k]
    <2> DEFINE j == i - k
               a == (j - 1) * Chunk
               b == j * Chunk
               K == k * Chunk
    <2>1. j \in 1..l
      BY <1>2, <1>10
    <2>2. (i - 1) * Chunk = K + a /\ i * Chunk = K + b
      <3>1. i - 1 = k + (j - 1) /\ i = k + j /\ j \in Int /\ j - 1 \in Int
        BY <1>2, <1>10
      <3> HIDE DEF j
      <3>2. (k + (j - 1)) * Chunk = k * Chunk + (j - 1) * Chunk
        BY <3>1, Times
      <3>3. (k + j) * Chunk = k * Chunk + j * Chunk
        BY <3>1, Times
      <3> QED
        BY <3>1, <3>2, <3>3
    <2> HIDE DEF j
    <2>3. a \in Nat /\ b \in Nat /\ a + Chunk = b /\ b <= Len(v) /\ K \in Nat
      BY <1>1, <1>6, <2>1
    <2>4. Blocks(v)[j] = SubSeq(v, a + 1, b)
      BY <1>6, <2>1
    <2>5. Blocks(w)[i] = SubSeq(w, K + a + 1, K + b)
      BY <1>7, <2>2
    <2>6. Len(u) = K
      OBVIOUS
    <2> HIDE DEF a, b, K
    <2>7. /\ K + a + 1 \in (K + 1)..(K + Len(v)) /\ K + b \in (K + 1)..(K + Len(v))
      BY <1>1, <2>3, ShaAssumption
    <2>8. SubSeq(w, K + a + 1, K + b) = SubSeq(v, (K + a + 1) - K, (K + b) - K)
      <3> DEFINE m == K + a + 1
                 n == K + b
      <3>1. /\ m \in (Len(u) + 1)..(Len(u) + Len(v))
            /\ n \in (Len(u) + 1)..(Len(u) + Len(v))
        BY <2>6, <2>7
      <3> HIDE DEF m, n
      <3>2. SubSeq(u \o v, m, n) = SubSeq(v, m - Len(u), n - Len(u))
        BY <3>1, SubSeqOfConcat2
      <3>3. SubSeq(w, m, n) = SubSeq(v, m - K, n - K)
        BY <2>6, <3>2, Zenon DEF w
      <3> QED
        BY <3>3, Zenon DEF m, n
    <2>9. (K + a + 1) - K = a + 1 /\ (K + b) - K = b
      BY <2>3
    <2> QED
      BY <2>4, <2>5, <2>8, <2>9 DEF j
  <1>11. \A i \in 1..Len(c) : Blocks(w)[i] = c[i]
    <2> TAKE i \in 1..Len(c)
    <2>0. i \in 1..(k + l) /\ i \in Nat
      BY <1>2, <1>8
    <2>1. CASE i <= k
      <3>1. i \in 1..k
        BY <2>0, <2>1
      <3> QED
        BY <1>8, <1>9, <2>0, <2>1, <3>1
    <2>2. CASE ~(i <= k)
      <3>1. i > k
        BY <2>0, <2>2
      <3>2. c[i] = Blocks(v)[i - k]
        BY <1>8, <2>0, <2>2
      <3>3. Blocks(w)[i] = Blocks(v)[i - k]
        BY <1>10, <2>0, <3>1
      <3> QED
        BY <3>2, <3>3
    <2> QED
      BY <2>1, <2>2
  <1>12. Blocks(w) = c
    BY <1>7, <1>8, <1>11, SeqEqual
  <1> QED
    BY <1>12 DEF w, c

\* Less than a block is no block.
LEMMA BlocksShort ==
  ASSUME NEW S, NEW v \in Seq(S), Len(v) < Chunk
  PROVE  Blocks(v) = <<>>
  <1>1. Len(v) \in 0..(Chunk - 1) /\ 0 \in Nat
    BY LenProperties, ShaAssumption
  <1>2. (0 * Chunk + Len(v)) \div Chunk = 0
    BY <1>1, DivUnique
  <1>3. Len(v) \div Chunk = 0
    BY <1>1, <1>2, ShaAssumption
  <1>4. Blocks(v) \in Seq(Seq(S)) /\ Len(Blocks(v)) = 0
    BY <1>3, BlocksType
  <1> QED
    BY <1>4, EmptySeq

\* The buffer, once it is full, is one block.
LEMMA BlocksOne ==
  ASSUME NEW S, NEW v \in Seq(S), Len(v) = Chunk
  PROVE  Blocks(v) = <<v>>
  <1>1. 0 \in 0..(Chunk - 1) /\ 1 \in Nat
    BY ShaAssumption
  <1>2. (1 * Chunk + 0) \div Chunk = 1
    BY <1>1, DivUnique
  <1>3. Len(v) \div Chunk = 1
    BY <1>2, ShaAssumption
  <1>4. /\ Blocks(v) \in Seq(Seq(S)) /\ Len(Blocks(v)) = 1
        /\ Blocks(v)[1] = SubSeq(v, (1 - 1) * Chunk + 1, 1 * Chunk)
    <2>1. 1 \in 1..(Len(v) \div Chunk)
      BY <1>3
    <2>2. Blocks(v)[1] = SubSeq(v, (1 - 1) * Chunk + 1, 1 * Chunk)
      BY <2>1, BlocksType, Zenon
    <2> QED
      BY <1>3, <2>2, BlocksType
  <1>5. (1 - 1) * Chunk + 1 = 1 /\ 1 * Chunk = Chunk
    BY ShaAssumption
  <1>6. SubSeq(v, 1, Chunk) = v
    BY SubSeqFull
  <1>7. Blocks(v)[1] = v
    BY <1>4, <1>5, <1>6
  <1>8. <<v>> \in Seq(Seq(S)) /\ Len(<<v>>) = 1 /\ <<v>>[1] = v
    OBVIOUS
  <1>9. \A i \in 1..Len(Blocks(v)) : Blocks(v)[i] = <<v>>[i]
    BY <1>4, <1>7, <1>8
  <1> QED
    BY <1>4, <1>8, <1>9, SeqEqual

-----------------------------------------------------------------------------
(* Write *)

\* p[:n] and p[n:].
LEMMA Cut ==
  ASSUME NEW S, NEW p \in Seq(S), NEW n \in 0..Len(p)
  PROVE  /\ SubSeq(p, 1, n) \in Seq(S) /\ Len(SubSeq(p, 1, n)) = n
         /\ \A i \in 1..n : SubSeq(p, 1, n)[i] = p[i]
         /\ SubSeq(p, n + 1, Len(p)) \in Seq(S)
         /\ Len(SubSeq(p, n + 1, Len(p))) = Len(p) - n
         /\ SubSeq(p, 1, n) \o SubSeq(p, n + 1, Len(p)) = p
  <1>1. Len(p) \in Nat /\ n \in Nat /\ n <= Len(p)
    BY LenProperties
  <1>2. \A i \in 1..Len(p) : p[i] \in S
    BY ElementOfSeq
  <1>3. /\ SubSeq(p, 1, n) \in Seq(S) /\ Len(SubSeq(p, 1, n)) = n
        /\ \A i \in 1..n : SubSeq(p, 1, n)[i] = p[i]
    <2>1. \A i \in 1..n : p[i] \in S
      BY <1>1, <1>2
    <2>2. /\ SubSeq(p, 1, n) \in Seq(S)
          /\ Len(SubSeq(p, 1, n)) = IF 1 <= n THEN n - 1 + 1 ELSE 0
          /\ \A i \in 1..(n - 1 + 1) : SubSeq(p, 1, n)[i] = p[1 + i - 1]
      BY <1>1, <2>1, SubSeqProperties
    <2> QED
      BY <1>1, <2>2
  <1>4. /\ SubSeq(p, n + 1, Len(p)) \in Seq(S)
        /\ Len(SubSeq(p, n + 1, Len(p))) = Len(p) - n
    <2> DEFINE a == n + 1
               b == Len(p)
    <2>1. a \in Int /\ b \in Int /\ \A i \in a..b : p[i] \in S
      BY <1>1, <1>2
    <2>2. a = n + 1 /\ b = Len(p)
      OBVIOUS
    <2> HIDE DEF a, b
    <2>3. /\ SubSeq(p, a, b) \in Seq(S)
          /\ Len(SubSeq(p, a, b)) = IF a <= b THEN b - a + 1 ELSE 0
      BY <2>1, SubSeqProperties
    <2> QED
      BY <1>1, <2>2, <2>3
  <1>5. SubSeq(p, 1, n) \o SubSeq(p, n + 1, Len(p)) = p
    <2>1. 1 \in 1..(Len(p) + 1) /\ n \in (1 - 1)..Len(p) /\ Len(p) \in n..Len(p)
      BY <1>1
    <2>2. SubSeq(p, 1, n) \o SubSeq(p, n + 1, Len(p)) = SubSeq(p, 1, Len(p))
      BY <2>1, ConcatAdjacentSubSeq
    <2> QED
      BY <2>2, SubSeqFull
  <1> QED
    BY <1>3, <1>4, <1>5

\* The bytes a digest meets: those of messages and those of the padding.
Octet == Byte \cup {0, 128} \cup {Encoded(n)[i] : n \in Nat, i \in 1..LenField}

\* Concatenation is associative, for octets.
LEMMA Assoc ==
  ASSUME NEW p \in Seq(Octet), NEW q \in Seq(Octet), NEW r \in Seq(Octet)
  PROVE  (p \o q) \o r = p \o (q \o r)
  BY ConcatAssociative

\* copy keeps what is in front of from, and puts p behind it as far as there is
\* room.
LEMMA CopyType ==
  ASSUME NEW x \in [1..Chunk -> Octet], NEW p \in Seq(Octet), NEW from \in Nat
  PROVE  /\ Copy(x, from, p) \in [1..Chunk -> Octet]
         /\ \A i \in 1..Chunk : i <= from => Copy(x, from, p)[i] = x[i]
         /\ \A i \in 1..Chunk : i > from /\ i <= from + Len(p)
                                 => Copy(x, from, p)[i] = p[i - from]
  <1>1. Len(p) \in Nat /\ Chunk \in Nat
    BY LenProperties, ShaAssumption
  <1>2. \A i \in 1..Len(p) : p[i] \in Octet
    BY ElementOfSeq
  <1>3. \A i \in 1..Chunk : i > from /\ i <= from + Len(p) => p[i - from] \in Octet
    <2> TAKE i \in 1..Chunk
    <2> HAVE i > from /\ i <= from + Len(p)
    <2>1. i - from \in 1..Len(p)
      BY <1>1
    <2> QED
      BY <1>2, <2>1
  <1>4. \A i \in 1..Chunk :
          (IF i > from /\ i <= from + Len(p) THEN p[i - from] ELSE x[i]) \in Octet
    BY <1>3
  <1>5. Copy(x, from, p) =
          [i \in 1..Chunk |-> IF i > from /\ i <= from + Len(p) THEN p[i - from] ELSE x[i]]
    BY DEF Copy
  <1>6. Copy(x, from, p) \in [1..Chunk -> Octet]
    BY <1>4, <1>5
  <1>7. \A i \in 1..Chunk :
          Copy(x, from, p)[i] = IF i > from /\ i <= from + Len(p) THEN p[i - from] ELSE x[i]
    BY <1>5
  <1>8. \A i \in 1..Chunk : i <= from => ~(i > from)
    BY <1>1
  <1> QED
    BY <1>6, <1>7, <1>8

\* The digest has hashed u, a number of whole blocks, and keeps v, less than
\* one, at the front of the buffer. What is behind it is left over, and of no
\* concern.
Carries(c, u, v) ==
  /\ u \in Seq(Octet) /\ v \in Seq(Octet)
  /\ \E k \in Nat : Len(u) = k * Chunk
  /\ Len(v) < Chunk
  /\ c.h = Blocks(u)
  /\ c.nx = Len(v)
  /\ c.x \in [1..Chunk -> Octet]
  /\ \A i \in 1..Len(v) : c.x[i] = v[i]

\* What is left of p when the begun block has been filled up.
Left(f, p) == SubSeq(p, f.used + 1, Len(p))

\* Of m \o p the digest carries u \o v, and then either the buffer is empty or
\* nothing is left to be written.
FilledUp(f, p, m, u, v) ==
  /\ Carries(f, u, v)
  /\ m \o p = (u \o v) \o Left(f, p)
  /\ v = <<>> \/ Left(f, p) = <<>>

\* Write's first branch: an empty buffer is left alone, a short p is kept behind
\* what is there, and a longer one completes the block, which is hashed.
LEMMA FillUp ==
  ASSUME NEW c, NEW u, NEW v, NEW p \in Seq(Octet), Carries(c, u, v)
  PROVE  /\ Filled(c, p).used \in 0..Len(p)
         /\ \E u1, v1 : FilledUp(Filled(c, p), p, u \o v, u1, v1)
  <1> DEFINE n == IF c.nx > 0 THEN Smaller(Chunk - c.nx, Len(p)) ELSE 0
             x == IF c.nx > 0 THEN Copy(c.x, c.nx, p) ELSE c.x
             full == c.nx > 0 /\ c.nx + n = Chunk
             f == Filled(c, p)
             q == SubSeq(p, f.used + 1, Len(p))
             Good(u1, v1) == /\ Carries(f, u1, v1)
                             /\ (u \o v) \o p = (u1 \o v1) \o q
                             /\ v1 = <<>> \/ q = <<>>
             Goal == f.used \in 0..Len(p) /\ \E u1, v1 : Good(u1, v1)
  <1> SUFFICES Goal
    BY DEF FilledUp, Left
  <1>1. /\ u \in Seq(Octet) /\ v \in Seq(Octet)
        /\ \E k \in Nat : Len(u) = k * Chunk
        /\ Len(v) < Chunk /\ c.h = Blocks(u) /\ c.nx = Len(v)
        /\ c.x \in [1..Chunk -> Octet]
        /\ \A i \in 1..Len(v) : c.x[i] = v[i]
    BY DEF Carries
  <1>2. Len(v) \in Nat /\ Len(p) \in Nat /\ Chunk \in Nat /\ Chunk > 0
    BY <1>1, LenProperties, ShaAssumption
  <1>3. /\ f.h = IF full THEN Append(c.h, x) ELSE c.h
        /\ f.x = x
        /\ f.nx = IF full THEN 0 ELSE c.nx + n
        /\ f.used = n
    BY DEF Filled
  <1>4. CASE Len(v) = 0
    <2>1. n = 0 /\ x = c.x /\ ~full
      BY <1>1, <1>4, <1>2
    <2> HIDE DEF n, x, full
    <2>2. f.h = c.h /\ f.x = c.x /\ f.nx = Len(v) /\ f.used = 0
      BY <1>1, <1>2, <1>3, <2>1
    <2> HIDE DEF f
    <2>3. v = <<>>
      BY <1>1, <1>4, EmptySeq
    <2>4. q = p
      <3>1. 0 + 1 = 1
        OBVIOUS
      <3> QED
        BY <2>2, <3>1, SubSeqFull
    <2>5. Carries(f, u, v)
      BY <1>1, <2>2 DEF Carries
    <2> HIDE DEF q
    <2>6. f.used \in 0..Len(p)
      BY <1>2, <2>2
    <2>7. Good(u, v)
      <3>1. (u \o v) \o p = (u \o v) \o q
        BY <2>4
      <3> QED
        BY <2>3, <2>5, <3>1
    <2> HIDE DEF Good
    <2> QED
      BY <2>6, <2>7
  <1>5. CASE Len(v) > 0 /\ Len(p) < Chunk - Len(v)
    <2>1. n = Len(p) /\ x = Copy(c.x, Len(v), p) /\ ~full
      BY <1>1, <1>2, <1>5 DEF Smaller
    <2> HIDE DEF n, x, full
    <2>2. /\ f.h = Blocks(u) /\ f.x = Copy(c.x, Len(v), p) /\ f.nx = Len(v) + Len(p)
          /\ f.used = Len(p)
      BY <1>1, <1>3, <2>1
    <2> HIDE DEF f
    <2>3. /\ v \o p \in Seq(Octet) /\ Len(v \o p) = Len(v) + Len(p)
          /\ \A i \in 1..(Len(v) + Len(p)) :
               (v \o p)[i] = IF i <= Len(v) THEN v[i] ELSE p[i - Len(v)]
      BY <1>1, ConcatProperties
    <2>4. /\ f.x \in [1..Chunk -> Octet]
          /\ \A i \in 1..Chunk : i <= Len(v) => f.x[i] = c.x[i]
          /\ \A i \in 1..Chunk : i > Len(v) /\ i <= Len(v) + Len(p) => f.x[i] = p[i - Len(v)]
      <3> DEFINE y == Copy(c.x, Len(v), p)
      <3>1. c.x \in [1..Chunk -> Octet] /\ Len(v) \in Nat
        BY <1>1, <1>2
      <3>2. /\ y \in [1..Chunk -> Octet]
            /\ \A i \in 1..Chunk : i <= Len(v) => y[i] = c.x[i]
            /\ \A i \in 1..Chunk : i > Len(v) /\ i <= Len(v) + Len(p) => y[i] = p[i - Len(v)]
        BY <3>1, CopyType
      <3>3. f.x = y
        BY <2>2
      <3> HIDE DEF y
      <3> QED
        BY <3>2, <3>3, Zenon
    <2>5. \A i \in 1..Len(v \o p) : f.x[i] = (v \o p)[i]
      <3> TAKE i \in 1..Len(v \o p)
      <3>1. i \in 1..(Len(v) + Len(p)) /\ i \in 1..Chunk
        BY <1>2, <1>5, <2>3
      <3>2. CASE i <= Len(v)
        <4>1. i \in 1..Len(v)
          BY <1>2, <3>1, <3>2
        <4>2. f.x[i] = c.x[i] /\ c.x[i] = v[i]
          BY <1>1, <2>4, <3>1, <3>2, <4>1
        <4> QED
          BY <2>3, <3>1, <3>2, <4>2
      <3>3. CASE ~(i <= Len(v))
        <4>1. f.x[i] = p[i - Len(v)]
          BY <1>2, <2>4, <3>1, <3>3
        <4> QED
          BY <2>3, <3>1, <3>3, <4>1
      <3> QED
        BY <3>2, <3>3
    <2>6. Carries(f, u, v \o p)
      <3>1. v \o p \in Seq(Octet) /\ Len(v \o p) < Chunk /\ f.nx = Len(v \o p)
        BY <1>2, <1>5, <2>2, <2>3
      <3>2. f.h = Blocks(u) /\ f.x \in [1..Chunk -> Octet]
        BY <2>2, <2>4
      <3>3. u \in Seq(Octet) /\ \E k \in Nat : Len(u) = k * Chunk
        BY <1>1
      <3> QED
        BY <2>5, <3>1, <3>2, <3>3 DEF Carries
    <2>7. q = <<>>
      <3>1. Len(p) + 1 \in Int /\ Len(p) \in Int /\ Len(p) < Len(p) + 1
        BY <1>2
      <3>2. SubSeq(p, Len(p) + 1, Len(p)) = <<>>
        BY <3>1, SubSeqEmpty
      <3> QED
        BY <2>2, <3>2
    <2> HIDE DEF q
    <2>8. (u \o v) \o p = (u \o (v \o p)) \o q
      <3>1. u \o (v \o p) \in Seq(Octet) /\ (u \o v) \o p = u \o (v \o p)
        <4>1. u \in Seq(Octet) /\ v \in Seq(Octet) /\ v \o p \in Seq(Octet)
          BY <1>1, <2>3
        <4>2. u \o (v \o p) \in Seq(Octet)
          BY <4>1, ConcatProperties, Zenon
        <4>3. (u \o v) \o p = u \o (v \o p)
          BY <4>1, Assoc
        <4> QED
          BY <4>2, <4>3
      <3> QED
        BY <2>7, <3>1, ConcatEmptySeq
    <2>9. f.used \in 0..Len(p)
      BY <1>2, <2>2
    <2>10. Good(u, v \o p)
      BY <2>6, <2>7, <2>8
    <2> HIDE DEF Good
    <2> QED
      BY <2>9, <2>10
  <1>6. CASE Len(v) > 0 /\ ~(Len(p) < Chunk - Len(v))
    <2> DEFINE m == Chunk - Len(v)
    <2>1. n = m /\ x = Copy(c.x, Len(v), p) /\ full /\ m \in 0..Len(p)
      <3>1. Len(v) \in Nat /\ Len(p) \in Nat /\ Chunk \in Nat /\ c.nx = Len(v)
        BY <1>1, <1>2
      <3>2. m \in 0..Len(p) /\ m \in Int /\ ~(Len(p) < m) /\ Len(v) + m = Chunk /\ c.nx > 0
        BY <1>6, <1>1, <1>2
      <3>3. Smaller(m, Len(p)) = m
        BY <3>1, <3>2 DEF Smaller
      <3>4. n = m
        BY <3>1, <3>2, <3>3
      <3> HIDE DEF m, n
      <3> QED
        BY <3>1, <3>2, <3>4
    <2> HIDE DEF n, x, full
    <2>2. /\ f.h = Append(Blocks(u), x) /\ f.x = x /\ f.nx = 0 /\ f.used = m
      BY <1>1, <1>3, <2>1
    <2> HIDE DEF f
    <2> DEFINE s == SubSeq(p, 1, m)
               r == SubSeq(p, m + 1, Len(p))
               b == v \o s
    <2>3. /\ s \in Seq(Octet) /\ Len(s) = m /\ \A i \in 1..m : s[i] = p[i]
          /\ r \in Seq(Octet) /\ s \o r = p
      BY <2>1, Cut
    <2>4. q = r
      BY <2>2
    <2> HIDE DEF s, r, q
    <2>5. /\ b \in Seq(Octet) /\ Len(b) = Chunk
          /\ \A i \in 1..Chunk : b[i] = IF i <= Len(v) THEN v[i] ELSE s[i - Len(v)]
      <3>1. /\ b \in Seq(Octet) /\ Len(b) = Len(v) + Len(s)
            /\ \A i \in 1..(Len(v) + Len(s)) :
                 b[i] = IF i <= Len(v) THEN v[i] ELSE s[i - Len(v)]
        <4>1. v \in Seq(Octet) /\ s \in Seq(Octet)
          BY <1>1, <2>3
        <4> QED
          BY <4>1, ConcatProperties
      <3>2. Len(v) + Len(s) = Chunk
        BY <1>2, <2>3
      <3> QED
        BY <3>1, <3>2
    <2>6. b = x
      <3>1. /\ x \in [1..Chunk -> Octet]
            /\ \A i \in 1..Chunk : i <= Len(v) => x[i] = c.x[i]
            /\ \A i \in 1..Chunk : i > Len(v) /\ i <= Len(v) + Len(p) => x[i] = p[i - Len(v)]
        <4> DEFINE y == Copy(c.x, Len(v), p)
        <4>1. c.x \in [1..Chunk -> Octet] /\ Len(v) \in Nat
          BY <1>1, <1>2
        <4>2. /\ y \in [1..Chunk -> Octet]
              /\ \A i \in 1..Chunk : i <= Len(v) => y[i] = c.x[i]
              /\ \A i \in 1..Chunk : i > Len(v) /\ i <= Len(v) + Len(p) => y[i] = p[i - Len(v)]
          BY <4>1, CopyType
        <4>3. x = y
          BY <2>1
        <4> HIDE DEF y
        <4> QED
          BY <4>2, <4>3, Zenon
      <3>2. x \in Seq(Octet) /\ Len(x) = Chunk
        BY <1>2, <3>1, FunIsSeq
      <3> HIDE DEF b, m
      <3>3. \A i \in 1..Len(b) : b[i] = x[i]
        <4> TAKE i \in 1..Len(b)
        <4>1. i \in 1..Chunk
          BY <2>5
        <4>2. CASE i <= Len(v)
          <5>1. i \in 1..Len(v)
            BY <1>2, <4>1, <4>2
          <5>2. x[i] = c.x[i] /\ c.x[i] = v[i]
            BY <1>1, <3>1, <4>1, <4>2, <5>1
          <5> QED
            BY <2>5, <4>1, <4>2, <5>2
        <4>3. CASE ~(i <= Len(v))
          <5>1. i - Len(v) \in 1..m /\ i > Len(v) /\ i <= Len(v) + Len(p)
            BY <1>2, <1>6, <4>1, <4>3 DEF m
          <5>2. x[i] = p[i - Len(v)]
            BY <3>1, <4>1, <5>1
          <5>3. s[i - Len(v)] = p[i - Len(v)]
            BY <2>3, <5>1
          <5>4. b[i] = s[i - Len(v)]
            BY <2>5, <4>1, <4>3
          <5> QED
            BY <5>2, <5>3, <5>4
        <4> QED
          BY <4>2, <4>3
      <3> QED
        BY <2>5, <3>2, <3>3, SeqEqual
    <2>7. f.h = Blocks(u \o b)
      <3> DEFINE T == Seq(Octet)
      <3>1. Blocks(u) \in Seq(T) /\ b \in T
        BY <1>1, <2>5, BlocksType
      <3>2. Blocks(b) = <<b>>
        BY <2>5, BlocksOne
      <3>3. Blocks(u \o b) = Blocks(u) \o Blocks(b)
        <4>1. PICK k \in Nat : Len(u) = k * Chunk
          BY <1>1
        <4> QED
          BY <1>1, <2>5, <4>1, BlocksConcat
      <3> HIDE DEF T, b
      <3>4. Append(Blocks(u), b) = Blocks(u) \o <<b>>
        BY <3>1, AppendIsConcat
      <3> QED
        BY <2>2, <2>6, <3>2, <3>3, <3>4
    <2>8. u \o b \in Seq(Octet) /\ \E k \in Nat : Len(u \o b) = k * Chunk
      <3>1. u \o b \in Seq(Octet) /\ Len(u \o b) = Len(u) + Chunk
        BY <1>1, <2>5, ConcatProperties
      <3>2. PICK k \in Nat : Len(u) = k * Chunk
        BY <1>1
      <3>3. k + 1 \in Nat /\ (k + 1) * Chunk = k * Chunk + 1 * Chunk /\ 1 * Chunk = Chunk
        BY Times, ShaAssumption
      <3> HIDE DEF b
      <3> QED
        BY <3>1, <3>2, <3>3
    <2>9. x \in [1..Chunk -> Octet]
      BY <1>1, <1>2, <2>1, CopyType
    <2> HIDE DEF b
    <2>10. Carries(f, u \o b, <<>>)
      <3>1. <<>> \in Seq(Octet) /\ Len(<<>>) = 0
        BY EmptySeq
      <3>2. /\ f.h = Blocks(u \o b) /\ f.nx = Len(<<>>) /\ f.x \in [1..Chunk -> Octet]
            /\ Len(<<>>) < Chunk /\ \A i \in 1..Len(<<>>) : f.x[i] = <<>>[i]
        BY <1>2, <2>2, <2>7, <2>9, <3>1
      <3> QED
        BY <2>8, <3>1, <3>2 DEF Carries
    <2>11. (u \o v) \o p = ((u \o b) \o <<>>) \o q
      <3>1. u \o v \in Seq(Octet)
        BY <1>1, ConcatProperties
      <3>2. (u \o v) \o (s \o r) = ((u \o v) \o s) \o r
        <4>1. s \in Seq(Octet) /\ r \in Seq(Octet)
          BY <2>3
        <4> QED
          BY <3>1, <4>1, Assoc
      <3>3. (u \o v) \o s = u \o b
        <4>1. u \in Seq(Octet) /\ v \in Seq(Octet) /\ s \in Seq(Octet)
          BY <1>1, <2>3
        <4>2. (u \o v) \o s = u \o (v \o s)
          BY <4>1, Assoc
        <4> QED
          BY <4>2 DEF b
      <3>4. (u \o b) \o <<>> = u \o b
        BY <2>8, ConcatEmptySeq
      <3> QED
        BY <2>3, <2>4, <3>2, <3>3, <3>4
    <2>12. f.used \in 0..Len(p)
      BY <2>1, <2>2
    <2>13. Good(u \o b, <<>>)
      BY <2>10, <2>11
    <2> HIDE DEF m, Good
    <2> QED
      BY <2>12, <2>13
  <1> HIDE DEF Goal
  <1> QED
    BY <1>2, <1>4, <1>5, <1>6

\* The digest has been written m, whole blocks of which are hashed.
Holds(c, m) == \E u, v : Carries(c, u, v) /\ m = u \o v

\* The rest of Write: whole blocks are hashed where they are, the rest is kept.
LEMMA WriteCarries ==
  ASSUME NEW c, NEW u, NEW v, NEW p \in Seq(Octet), Carries(c, u, v)
  PROVE  Holds(WriteTo(c, p), (u \o v) \o p)
  <1> DEFINE f == Filled(c, p)
             q == SubSeq(p, f.used + 1, Len(p))
             whole == (Len(q) \div Chunk) * Chunk
             w == SubSeq(q, 1, whole)
             rest == SubSeq(q, whole + 1, Len(q))
             g == WriteTo(c, p)
             Good(u1, v1) == Carries(g, u1, v1) /\ (u \o v) \o p = u1 \o v1
  <1> SUFFICES \E u1, v1 : Good(u1, v1)
    BY DEF Holds
  <1>1. /\ f.used \in 0..Len(p)
        /\ \E u1, v1 : FilledUp(f, p, u \o v, u1, v1)
    BY FillUp
  <1>2. /\ g.h = f.h \o Blocks(w)
        /\ g.x = IF rest # <<>> THEN Copy(f.x, 0, rest) ELSE f.x
        /\ g.nx = IF rest # <<>> THEN Len(rest) ELSE f.nx
    BY DEF WriteTo
  <1> HIDE DEF f, g
  <1>3. q \in Seq(Octet)
    BY <1>1, Cut
  <1> HIDE DEF q
  <1>4. PICK u1, v1 : /\ Carries(f, u1, v1)
                      /\ (u \o v) \o p = (u1 \o v1) \o q
                      /\ v1 = <<>> \/ q = <<>>
    BY <1>1 DEF FilledUp, Left, q
  <1>5. /\ u1 \in Seq(Octet) /\ v1 \in Seq(Octet)
        /\ \E k \in Nat : Len(u1) = k * Chunk
        /\ Len(v1) < Chunk /\ f.h = Blocks(u1) /\ f.nx = Len(v1)
        /\ f.x \in [1..Chunk -> Octet]
        /\ \A i \in 1..Len(v1) : f.x[i] = v1[i]
    BY <1>4 DEF Carries
  <1>6. /\ whole \in 0..Len(q) /\ Len(q) - whole < Chunk
        /\ \E k \in Nat : whole = k * Chunk
    <2>1. Len(q) \in Nat /\ Chunk \in Nat
      BY <1>3, LenProperties, ShaAssumption
    <2> DEFINE k == Len(q) \div Chunk
               r == Len(q) % Chunk
    <2>2. k \in Nat /\ r \in 0..(Chunk - 1) /\ Len(q) = k * Chunk + r
      BY <2>1, DivMod
    <2>3. whole = k * Chunk
      OBVIOUS
    <2> HIDE DEF k, r, whole
    <2>4. k * Chunk \in Nat
      BY <2>1, <2>2
    <2> QED
      BY <2>1, <2>2, <2>3, <2>4
  <1> HIDE DEF whole
  <1>7. /\ w \in Seq(Octet) /\ Len(w) = whole /\ rest \in Seq(Octet)
        /\ Len(rest) = Len(q) - whole /\ w \o rest = q
    BY <1>3, <1>6, Cut
  <1> HIDE DEF w, rest
  <1>8. /\ u1 \o w \in Seq(Octet)
        /\ \E k \in Nat : Len(u1 \o w) = k * Chunk
        /\ g.h = Blocks(u1 \o w)
    <2>1. PICK k \in Nat : Len(u1) = k * Chunk
      BY <1>5
    <2>2. PICK j \in Nat : Len(w) = j * Chunk
      BY <1>6, <1>7
    <2>3. u1 \in Seq(Octet) /\ w \in Seq(Octet)
      BY <1>5, <1>7
    <2>4. u1 \o w \in Seq(Octet) /\ Len(u1 \o w) = Len(u1) + Len(w)
      BY <2>3, ConcatProperties
    <2>5. k + j \in Nat /\ (k + j) * Chunk = k * Chunk + j * Chunk
      BY Times
    <2>6. Len(u1 \o w) = (k + j) * Chunk
      BY <2>1, <2>2, <2>4, <2>5
    <2>7. Blocks(u1 \o w) = Blocks(u1) \o Blocks(w)
      BY <2>1, <2>3, BlocksConcat
    <2>8. g.h = Blocks(u1 \o w)
      BY <1>2, <1>5, <2>7
    <2> QED
      BY <2>4, <2>5, <2>6, <2>8
  <1>9. CASE q = <<>>
    <2>1. Len(q) = 0
      BY <1>9
    <2>2. w = <<>> /\ rest = <<>>
      <3>1. Len(w) = 0 /\ Len(rest) = 0
        BY <1>6, <1>7, <2>1
      <3> QED
        BY <1>7, <3>1, EmptySeq
    <2>3. u1 \o w = u1
      BY <1>5, <2>2, ConcatEmptySeq
    <2>4. g.h = Blocks(u1) /\ g.x = f.x /\ g.nx = f.nx
      BY <1>2, <1>8, <2>2, <2>3
    <2>5. Carries(g, u1, v1)
      BY <1>5, <2>4 DEF Carries
    <2>6. (u1 \o v1) \o q = u1 \o v1
      <3>1. u1 \o v1 \in Seq(Octet)
        BY <1>5, ConcatProperties
      <3> QED
        BY <1>9, <3>1, ConcatEmptySeq
    <2>7. Good(u1, v1)
      BY <1>4, <2>5, <2>6
    <2> HIDE DEF Good
    <2> QED
      BY <2>7
  <1>10. CASE v1 = <<>>
    <2>1. f.nx = 0 /\ Len(rest) \in Nat /\ Len(rest) < Chunk /\ Chunk \in Nat
      <3>1. Len(v1) = 0
        BY <1>10
      <3> QED
        BY <1>5, <1>6, <1>7, <3>1, LenProperties, ShaAssumption
    <2>2. /\ g.nx = Len(rest) /\ g.x \in [1..Chunk -> Octet]
          /\ \A i \in 1..Len(rest) : g.x[i] = rest[i]
      <3>1. CASE rest = <<>>
        <4>1. Len(rest) = 0
          BY <3>1
        <4>2. g.nx = 0 /\ g.x = f.x
          BY <1>2, <2>1, <3>1
        <4> QED
          BY <1>5, <4>1, <4>2
      <3>2. CASE rest # <<>>
        <4> DEFINE y == Copy(f.x, 0, rest)
        <4>1. f.x \in [1..Chunk -> Octet] /\ 0 \in Nat /\ rest \in Seq(Octet)
          BY <1>5, <1>7
        <4>2. /\ y \in [1..Chunk -> Octet]
              /\ \A i \in 1..Chunk : i > 0 /\ i <= 0 + Len(rest) => y[i] = rest[i - 0]
          BY <4>1, CopyType
        <4>3. g.x = y /\ g.nx = Len(rest)
          BY <1>2, <3>2
        <4> HIDE DEF y
        <4>4. \A i \in 1..Len(rest) : y[i] = rest[i]
          <5> TAKE i \in 1..Len(rest)
          <5>1. i \in 1..Chunk /\ i > 0 /\ i <= 0 + Len(rest) /\ i - 0 = i
            BY <2>1
          <5>2. y[i] = rest[i - 0]
            BY <4>2, <5>1
          <5> QED
            BY <5>1, <5>2
        <4> QED
          BY <4>2, <4>3, <4>4
      <3> QED
        BY <3>1, <3>2
    <2>3. Carries(g, u1 \o w, rest)
      BY <1>7, <1>8, <2>1, <2>2 DEF Carries
    <2>4. (u1 \o v1) \o q = (u1 \o w) \o rest
      <3>1. u1 \o v1 = u1
        BY <1>5, <1>10, ConcatEmptySeq
      <3>2. u1 \in Seq(Octet) /\ w \in Seq(Octet) /\ rest \in Seq(Octet)
        BY <1>5, <1>7
      <3>3. (u1 \o w) \o rest = u1 \o (w \o rest)
        BY <3>2, Assoc
      <3> QED
        BY <1>7, <3>1, <3>3
    <2>5. Good(u1 \o w, rest)
      BY <1>4, <2>3, <2>4
    <2> HIDE DEF Good
    <2> QED
      BY <2>5
  <1> QED
    BY <1>4, <1>9, <1>10

\* After a Write the digest has been written what it was, and p.
LEMMA WriteHolds ==
  ASSUME NEW c, NEW m, NEW p \in Seq(Octet), Holds(c, m)
  PROVE  Holds(WriteTo(c, p), m \o p)
  <1>1. PICK u, v : Carries(c, u, v) /\ m = u \o v
    BY DEF Holds
  <1>2. Carries(c, u, v)
    BY <1>1
  <1>3. Holds(WriteTo(c, p), (u \o v) \o p)
    BY <1>2, WriteCarries
  <1> QED
    BY <1>1, <1>3

-----------------------------------------------------------------------------
(* Sum *)

\* What Sum appends is the padding of FIPS 180-4: t is one more than the only
\* number of zeros the standard allows. It is from 1 to the size of a block, so
\* that the 0x80 is not overwritten by the length and the slice of tmp is in
\* range, and it makes the message a number of whole blocks.
THEOREM Padding ==
  ASSUME NEW m \in Seq(Octet)
  PROVE  LET t == PadLength(Len(m))
             pad == [i \in 1..t |-> IF i = 1 THEN 128 ELSE 0] \o Encoded(8 * Len(m))
         IN  /\ t \in 1..Chunk
             /\ pad \in Seq(Octet)
             /\ FipsPadded(m) = m \o pad
             /\ \E k \in Nat : Len(m \o pad) = k * Chunk
  <1> DEFINE n == Len(m)
             t == PadLength(n)
             tmp == [i \in 1..t |-> IF i = 1 THEN 128 ELSE 0]
             e == Encoded(8 * n)
             pad == tmp \o e
             z == t - 1
             nul == [i \in 1..z |-> 0]
             P(k) == (n + 1 + k + LenField) % Chunk = 0
  <1>1. /\ n \in Nat /\ Chunk \in Nat /\ Chunk > 0 /\ LenField \in Nat /\ LenField < Chunk
    BY LenProperties, ShaAssumption
  <1>2. n \div Chunk \in Nat /\ n % Chunk \in 0..(Chunk - 1)
        /\ n = (n \div Chunk) * Chunk + (n % Chunk)
    BY <1>1, DivMod
  <1>3. PICK j \in Nat : n + t + LenField = j * Chunk
    <2> DEFINE a == n \div Chunk
               r == n % Chunk
    <2>1. t = (IF r < Chunk - LenField THEN Chunk - LenField
               ELSE Chunk + (Chunk - LenField)) - r
      BY DEF PadLength
    <2>2. a \in Nat /\ r \in 0..(Chunk - 1) /\ n = a * Chunk + r
      BY <1>2
    <2> HIDE DEF a, r, t, n
    <2>3. a * Chunk \in Int /\ 1 * Chunk = Chunk /\ 2 * Chunk = Chunk + Chunk
      BY <1>1, <2>2
    <2>4. (a + 1) * Chunk = a * Chunk + 1 * Chunk /\ (a + 2) * Chunk = a * Chunk + 2 * Chunk
      BY <2>2, Times
    <2>5. n + t + LenField = (a + 1) * Chunk \/ n + t + LenField = (a + 2) * Chunk
      BY <1>1, <2>1, <2>2, <2>3, <2>4
    <2>6. a + 1 \in Nat /\ a + 2 \in Nat
      BY <2>2
    <2> QED
      BY <2>5, <2>6
  <1>4. t \in 1..Chunk
    <2> DEFINE r == n % Chunk
    <2>1. t = (IF r < Chunk - LenField THEN Chunk - LenField
               ELSE Chunk + (Chunk - LenField)) - r
      BY DEF PadLength
    <2>2. r \in 0..(Chunk - 1)
      BY <1>2
    <2> HIDE DEF r, t, n
    <2> QED
      BY <1>1, <2>1, <2>2
  <1> HIDE DEF t, n
  <1>5. z \in 0..(Chunk - 1) /\ P(z)
    <2>1. z \in 0..(Chunk - 1) /\ n + 1 + z + LenField = j * Chunk + 0 /\ 0 \in 0..(Chunk - 1)
      BY <1>1, <1>3, <1>4
    <2>2. (j * Chunk + 0) % Chunk = 0
      BY <2>1, DivUnique
    <2> HIDE DEF z
    <2> QED
      BY <2>1, <2>2
  <1>6. ASSUME NEW k \in 0..(Chunk - 1), P(k)
        PROVE  k = z
    <2> DEFINE s == n + 1 + k + LenField
               i == s \div Chunk
    <2>1. s \in Nat /\ s % Chunk = 0
      BY <1>1, <1>6
    <2>2. i \in Nat /\ s = i * Chunk + (s % Chunk)
      BY <2>1, DivMod
    <2> HIDE DEF i
    <2>3. i * Chunk \in Int /\ j * Chunk \in Int
      BY <1>1, <2>2
    <2>4. s = i * Chunk
      BY <2>1, <2>2, <2>3
    <2>5. j * Chunk - i * Chunk = z - k
      BY <1>1, <1>3, <1>4, <2>3, <2>4
    <2>6. ~(i < j)
      <3>1. i < j => i * Chunk + Chunk <= j * Chunk
        BY <2>2, Times
      <3> QED
        BY <1>1, <1>5, <2>3, <2>5, <3>1
    <2>7. ~(j < i)
      <3>1. j < i => j * Chunk + Chunk <= i * Chunk
        BY <2>2, Times
      <3> QED
        BY <1>1, <1>5, <2>3, <2>5, <3>1
    <2>8. i = j
      BY <2>2, <2>6, <2>7
    <2> QED
      BY <1>1, <1>5, <2>3, <2>5, <2>8
  <1> HIDE DEF P
  <1>7. (CHOOSE k \in 0..(Chunk - 1) : P(k)) = z
    <2>1. (CHOOSE k \in 0..(Chunk - 1) : P(k)) \in 0..(Chunk - 1)
          /\ P(CHOOSE k \in 0..(Chunk - 1) : P(k))
      BY <1>5, Zenon
    <2> QED
      BY <1>6, <2>1
  <1>8. FipsPadded(m) = ((m \o <<128>>) \o nul) \o e
    <2>1. FipsPadded(m) = LET k == CHOOSE k \in 0..(Chunk - 1) : P(k)
                          IN  m \o <<128>> \o [i \in 1..k |-> 0] \o e
      BY Zenon DEF FipsPadded, P, n
    <2> QED
      BY <1>7, <2>1, Zenon
  <1>9. tmp \in Seq(Octet) /\ Len(tmp) = t /\ nul \in Seq(Octet) /\ Len(nul) = z
    <2>1. 0 \in Octet /\ 128 \in Octet
      BY DEF Octet
    <2>2. tmp \in [1..t -> Octet] /\ nul \in [1..z -> Octet] /\ t \in Nat /\ z \in Nat
      BY <1>1, <1>4, <2>1
    <2> HIDE DEF tmp, nul, z
    <2> QED
      BY <2>2, FunIsSeq
  <1>10. e \in Seq(Octet) /\ Len(e) = LenField
    <2>1. 8 * n \in Nat
      BY <1>1
    <2>2. e = [i \in 1..LenField |-> e[i]]
      BY DEF Encoded
    <2>3. \A i \in 1..LenField : Encoded(8 * n)[i] \in Octet
      BY <2>1 DEF Octet
    <2> HIDE DEF e
    <2>4. e \in [1..LenField -> Octet]
      BY <2>2, <2>3 DEF e
    <2> QED
      BY <1>1, <2>4, FunIsSeq
  <1> HIDE DEF e
  <1>11. <<128>> \o nul = tmp
    <2>1. 128 \in Octet
      BY DEF Octet
    <2>2. <<128>> \in Seq(Octet) /\ Len(<<128>>) = 1 /\ <<128>>[1] = 128
      BY <2>1
    <2>3. nul \in Seq(Octet) /\ Len(nul) = z
      BY <1>9
    <2>4. \A i \in 1..z : nul[i] = 0
      OBVIOUS
    <2>5. \A i \in 1..t : tmp[i] = IF i = 1 THEN 128 ELSE 0
      OBVIOUS
    <2> DEFINE b == <<128>> \o nul
    <2> HIDE DEF nul, tmp
    <2>6. /\ b \in Seq(Octet) /\ Len(b) = 1 + z
          /\ \A i \in 1..(1 + z) : b[i] = IF i <= 1 THEN <<128>>[i] ELSE nul[i - 1]
      BY <2>2, <2>3, ConcatProperties
    <2> HIDE DEF b
    <2>7. Len(b) = t /\ Len(tmp) = t /\ tmp \in Seq(Octet)
      BY <1>4, <1>9, <2>6
    <2>8. \A i \in 1..Len(b) : b[i] = tmp[i]
      <3> TAKE i \in 1..Len(b)
      <3>1. i \in 1..t /\ i \in 1..(1 + z)
        BY <2>6, <2>7
      <3>2. CASE i = 1
        BY <2>2, <2>5, <2>6, <3>1, <3>2
      <3>3. CASE i # 1
        <4>1. i - 1 \in 1..z /\ ~(i <= 1)
          BY <1>4, <3>1, <3>3
        <4>2. b[i] = nul[i - 1] /\ nul[i - 1] = 0
          BY <2>4, <2>6, <3>1, <4>1
        <4> QED
          BY <2>5, <3>1, <3>3, <4>2
      <3> QED
        BY <3>2, <3>3
    <2>9. b = tmp
      BY <2>6, <2>7, <2>8, SeqEqual
    <2> QED
      BY <2>9 DEF b
  <1>12. ((m \o <<128>>) \o nul) \o e = m \o pad
    <2>1. /\ <<128>> \in Seq(Octet) /\ nul \in Seq(Octet)
          /\ tmp \in Seq(Octet) /\ e \in Seq(Octet)
      <3>1. 128 \in Octet
        BY DEF Octet
      <3> QED
        BY <1>9, <1>10, <3>1
    <2> HIDE DEF nul, tmp
    <2>2. (m \o <<128>>) \o nul = m \o (<<128>> \o nul)
      BY <2>1, Assoc
    <2>3. (m \o tmp) \o e = m \o (tmp \o e)
      BY <2>1, Assoc
    <2> QED
      BY <1>11, <2>2, <2>3
  <1> HIDE DEF tmp, nul
  <1>13. pad \in Seq(Octet) /\ Len(pad) = t + LenField
    BY <1>9, <1>10, ConcatProperties
  <1>14. Len(m \o pad) = j * Chunk
    <2>1. Len(m \o pad) = Len(m) + Len(pad)
      BY <1>13, ConcatProperties
    <2> HIDE DEF pad
    <2> QED
      BY <1>1, <1>3, <1>4, <1>13, <2>1 DEF n
  <1>15. FipsPadded(m) = m \o pad
    BY <1>8, <1>12
  <1>16. /\ t \in 1..Chunk
         /\ pad \in Seq(Octet)
         /\ FipsPadded(m) = m \o pad
         /\ \E k \in Nat : Len(m \o pad) = k * Chunk
    BY <1>4, <1>13, <1>14, <1>15
  <1> QED
    BY <1>16, Zenon DEF tmp, e, t, n

-----------------------------------------------------------------------------
(* The inductive invariant *)

\* The digest is a record, and has been written msg.
IInv ==
  /\ msg \in Seq(Byte)
  /\ d = [h |-> d.h, x |-> d.x, nx |-> d.nx, len |-> d.len]
  /\ d.len = Len(msg)
  /\ Holds(d, msg)

\* Between calls the whole blocks of the message are hashed and the buffer
\* begins with the rest of it: no byte is hashed twice, dropped or kept back.
HoldsTail ==
  /\ d.h = Blocks(msg)
  /\ d.nx = Len(msg) % Chunk
  /\ d.len = Len(msg)
  /\ \A i \in 1..d.nx : d.x[i] = msg[Len(msg) - d.nx + i]

\* A message is one of octets.
LEMMA BytesAreOctets ==
  ASSUME NEW p \in Seq(Byte)
  PROVE  p \in Seq(Octet)
  <1>1. Len(p) \in Nat /\ p \in [1..Len(p) -> Byte]
    BY LenProperties
  <1>2. p \in [1..Len(p) -> Octet]
    BY <1>1 DEF Octet
  <1> QED
    BY <1>1, <1>2, FunIsSeq

\* A digest that was Reset has been written nothing, whatever its buffer holds.
LEMMA Empty ==
  ASSUME NEW c, c.h = <<>>, c.nx = 0, c.x \in [1..Chunk -> Octet]
  PROVE  Holds(c, <<>>)
  <1>1. <<>> \in Seq(Octet) /\ Len(<<>>) = 0 /\ 0 < Chunk
    BY EmptySeq, ShaAssumption
  <1>2. Blocks(<<>>) = <<>>
    BY <1>1, BlocksShort
  <1>3. 0 \in Nat /\ 0 = 0 * Chunk
    BY ShaAssumption
  <1>4. \A i \in 1..Len(<<>>) : c.x[i] = <<>>[i]
    BY <1>1
  <1>5. \E k \in Nat : Len(<<>>) = k * Chunk
    BY <1>1, <1>3
  <1>6. <<>> = <<>> \o <<>>
    BY <1>1, ConcatEmptySeq
  <1> QED
    BY <1>1, <1>2, <1>4, <1>5, <1>6 DEF Carries, Holds

\* A digest that a caller declares and resets satisfies the invariant.
LEMMA InitInv == ShaInit => IInv
  <1> SUFFICES ASSUME ShaInit PROVE IInv
    OBVIOUS
  <1>1. /\ d = [h |-> <<>>, x |-> [i \in 1..Chunk |-> 0], nx |-> 0, len |-> 0]
        /\ msg = <<>>
    BY DEF ShaInit, Reset
  <1>2. /\ d.h = <<>> /\ d.nx = 0 /\ d.len = 0 /\ d.x \in [1..Chunk -> Octet]
        /\ d = [h |-> d.h, x |-> d.x, nx |-> d.nx, len |-> d.len]
    BY <1>1 DEF Octet
  <1>3. msg \in Seq(Byte) /\ Len(msg) = 0
    BY <1>1, EmptySeq
  <1>4. Holds(d, msg)
    BY <1>1, <1>2, Empty
  <1> QED
    BY <1>2, <1>3, <1>4 DEF IInv

\* Write and Reset keep it.
LEMMA NextInv == IInv /\ [ShaNext]_vars => IInv'
  <1> SUFFICES ASSUME IInv, [ShaNext]_vars PROVE IInv'
    OBVIOUS
  <1>1. Holds(d, msg)
    BY DEF IInv
  <1>2. CASE ShaReset
    <2>1. /\ d' = [h |-> <<>>, x |-> d.x, nx |-> 0, len |-> 0] /\ msg' = <<>>
      <3>1. d = [h |-> d.h, x |-> d.x, nx |-> d.nx, len |-> d.len]
        BY DEF IInv
      <3>2. d' = [d EXCEPT !.h = <<>>, !.nx = 0, !.len = 0] /\ msg' = <<>>
        BY <1>2 DEF ShaReset, Reset
      <3> QED
        BY <3>1, <3>2
    <2>2. d.x \in [1..Chunk -> Octet]
      BY <1>1 DEF Holds, Carries
    <2>3. /\ d'.h = <<>> /\ d'.nx = 0 /\ d'.len = 0 /\ d'.x \in [1..Chunk -> Octet]
          /\ d' = [h |-> d'.h, x |-> d'.x, nx |-> d'.nx, len |-> d'.len]
      BY <2>1, <2>2
    <2>4. msg' \in Seq(Byte) /\ Len(msg') = 0
      BY <2>1, EmptySeq
    <2>5. Holds(d', msg')
      BY <2>1, <2>3, Empty
    <2> QED
      BY <2>3, <2>4, <2>5 DEF IInv
  <1>3. ASSUME NEW p \in Piece, Write(p)
        PROVE  IInv'
    <2>1. p \in Seq(Byte) /\ Len(p) \in Nat
      <3>1. PICK n \in 0..MaxWrite : p \in [1..n -> Byte]
        BY DEF Piece
      <3>2. n \in Nat
        BY ShaAssumption
      <3> QED
        BY <3>1, <3>2, FunIsSeq
    <2>2. p \in Seq(Octet)
      BY <2>1, BytesAreOctets
    <2>3. d' = WriteTo(d, p) /\ msg' = msg \o p
      BY <1>3 DEF Write
    <2>4. Holds(WriteTo(d, p), msg \o p)
      BY <1>1, <2>2, WriteHolds
    <2>5. msg' \in Seq(Byte) /\ Len(msg') = Len(msg) + Len(p)
      <3>1. msg \in Seq(Byte)
        BY DEF IInv
      <3> QED
        BY <2>1, <2>3, <3>1, ConcatProperties
    <2>6. d' = [h |-> d'.h, x |-> d'.x, nx |-> d'.nx, len |-> d'.len]
      BY <2>3 DEF WriteTo
    <2>7. d'.len = Len(msg')
      <3>1. d'.len = d.len + Len(p)
        BY <2>3 DEF WriteTo, Filled
      <3>2. d.len = Len(msg)
        BY DEF IInv
      <3> QED
        BY <2>5, <3>1, <3>2
    <2>8. Holds(d', msg')
      BY <2>3, <2>4
    <2> QED
      BY <2>5, <2>6, <2>7, <2>8 DEF IInv
  <1>4. CASE UNCHANGED vars
    <2>1. d' = d /\ msg' = msg
      BY <1>4 DEF vars
    <2>2. Holds(d', msg')
      BY <1>1, <2>1
    <2> QED
      BY <2>1, <2>2 DEF IInv
  <1> QED
    BY <1>2, <1>3, <1>4 DEF ShaNext

\* A digest that has been written m has hashed the whole blocks of m.
LEMMA HoldsBlocks ==
  ASSUME NEW c, NEW m, Holds(c, m)
  PROVE  c.h = Blocks(m)
  <1>0. PICK u, v : Carries(c, u, v) /\ m = u \o v
    BY DEF Holds
  <1>1. /\ u \in Seq(Octet) /\ v \in Seq(Octet) /\ Len(v) < Chunk /\ c.h = Blocks(u)
        /\ \E k \in Nat : Len(u) = k * Chunk
    BY <1>0 DEF Carries
  <1>2. PICK k \in Nat : Len(u) = k * Chunk
    BY <1>1
  <1>3. Blocks(u \o v) = Blocks(u) \o Blocks(v)
    BY <1>1, <1>2, BlocksConcat
  <1>4. Blocks(v) = <<>>
    BY <1>1, BlocksShort
  <1> DEFINE T == Seq(Octet)
  <1>5. Blocks(u) \in Seq(T)
    BY <1>1, BlocksType
  <1> HIDE DEF T
  <1>6. Blocks(u) \o <<>> = Blocks(u)
    BY <1>5, ConcatEmptySeq
  <1> QED
    BY <1>0, <1>1, <1>3, <1>4, <1>6

\* The invariant says where each byte of the message is.
LEMMA InvTail == IInv => HoldsTail
  <1> SUFFICES ASSUME IInv PROVE HoldsTail
    OBVIOUS
  <1>1. PICK u, v : Carries(d, u, v) /\ msg = u \o v
    BY DEF IInv, Holds
  <1>2. /\ u \in Seq(Octet) /\ v \in Seq(Octet) /\ Len(v) < Chunk /\ d.nx = Len(v)
        /\ \E k \in Nat : Len(u) = k * Chunk
        /\ \A i \in 1..Len(v) : d.x[i] = v[i]
    BY <1>1 DEF Carries
  <1>3. PICK k \in Nat : Len(u) = k * Chunk
    BY <1>2
  <1>4. /\ Len(msg) = Len(u) + Len(v)
        /\ \A i \in 1..(Len(u) + Len(v)) :
             msg[i] = IF i <= Len(u) THEN u[i] ELSE v[i - Len(u)]
    <2>1. u \in Seq(Octet) /\ v \in Seq(Octet)
      BY <1>2
    <2>2. /\ Len(u \o v) = Len(u) + Len(v)
          /\ \A i \in 1..(Len(u) + Len(v)) :
               (u \o v)[i] = IF i <= Len(u) THEN u[i] ELSE v[i - Len(u)]
      BY <2>1, ConcatProperties
    <2> QED
      BY <1>1, <2>2
  <1>5. Len(u) \in Nat /\ Len(v) \in 0..(Chunk - 1) /\ Len(v) \in Nat
    BY <1>2, LenProperties, ShaAssumption
  <1>6. Len(msg) % Chunk = Len(v)
    <2>1. (k * Chunk + Len(v)) % Chunk = Len(v)
      BY <1>5, DivUnique
    <2> QED
      BY <1>3, <1>4, <2>1
  <1>7. \A i \in 1..d.nx : d.x[i] = msg[Len(msg) - d.nx + i]
    <2> TAKE i \in 1..d.nx
    <2>1. i \in 1..Len(v) /\ i \in Nat
      BY <1>2
    <2>2. (Len(msg) - d.nx) + i = Len(u) + i
      BY <1>2, <1>4, <1>5
    <2>3. /\ Len(u) + i \in 1..(Len(u) + Len(v)) /\ ~(Len(u) + i <= Len(u))
          /\ (Len(u) + i) - Len(u) = i
      BY <1>5, <2>1
    <2> DEFINE j == Len(u) + i
    <2> HIDE DEF j
    <2>4. j \in 1..(Len(u) + Len(v)) /\ ~(j <= Len(u)) /\ j - Len(u) = i
      BY <2>3 DEF j
    <2>5. msg[j] = v[i]
      BY <1>4, <2>4
    <2>6. d.x[i] = v[i]
      BY <1>2, <2>1
    <2> QED
      BY <2>2, <2>5, <2>6 DEF j
  <1>8. d.h = Blocks(msg)
    BY HoldsBlocks DEF IInv
  <1>9. d.len = Len(msg)
    BY DEF IInv
  <1> QED
    BY <1>2, <1>6, <1>7, <1>8, <1>9 DEF HoldsTail

\* It implies what Sum returns: Sum writes the padding to a copy.
LEMMA InvStream == IInv => StreamIsWhole
  <1> SUFFICES ASSUME IInv PROVE StreamIsWhole
    OBVIOUS
  <1> DEFINE t == PadLength(Len(msg))
             pad == [i \in 1..t |-> IF i = 1 THEN 128 ELSE 0] \o Encoded(8 * Len(msg))
  <1>1. Holds(d, msg)
    BY DEF IInv
  <1>2. msg \in Seq(Octet)
    BY BytesAreOctets DEF IInv
  <1>3. pad \in Seq(Octet) /\ FipsPadded(msg) = msg \o pad
    BY <1>2, Padding
  <1>4. d.len = Len(msg)
    BY DEF IInv
  <1>5. Sum(d) = WriteTo(d, pad).h
    BY <1>4 DEF Sum
  <1> HIDE DEF pad
  <1>6. Holds(WriteTo(d, pad), msg \o pad)
    BY <1>1, <1>3, WriteHolds
  <1>7. WriteTo(d, pad).h = Blocks(msg \o pad)
    BY <1>6, HoldsBlocks
  <1> QED
    BY <1>3, <1>5, <1>7 DEF StreamIsWhole

-----------------------------------------------------------------------------
\* However Writes and Resets follow each other, the digest has been written
\* what was written since the last Reset.
THEOREM Invariance == ShaSpec => []IInv
  BY InitInv, NextInv, PTL DEF ShaSpec

\* Write hashes a block as soon as it is complete, and keeps the rest of the
\* message in order at the front of x.
THEOREM TailBuffered == ShaSpec => []HoldsTail
  BY Invariance, InvTail, PTL

\* Sum hashes the message as the standard pads it, however it was cut into
\* Writes and whatever the buffer held before.
THEOREM StreamHashed == ShaSpec => []StreamIsWhole
  BY Invariance, InvStream, PTL
=============================================================================
