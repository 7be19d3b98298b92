--------------------------- MODULE ContainerProofs ---------------------------
(***************************************************************************)
(* Proofs about the container of the end-to-end encryption: what the       *)
(* browser writes, reads again and refuses, and what the server admits,    *)
(* for every file.                                                         *)
(***************************************************************************)
EXTENDS BoundaryProofs

USE ContainerAssumption

-----------------------------------------------------------------------------
(* Concatenation of a sequence of sequences. *)

\* What the local function of FlattenSeq is, up to k, and what it says.
Flattens(f, seqs, k) ==
  f = [i \in 1 .. k |-> IF i = 1 THEN seqs[i] ELSE f[i - 1] \o seqs[i]]

Concatenations(f, seqs, n) ==
  /\ DOMAIN f = 1 .. n
  /\ f[1] = seqs[1]
  /\ \A i \in 1 .. (n - 1): f[i + 1] = f[i] \o seqs[i + 1]

LEMMA FlattenUnfolds ==
  ASSUME NEW A, NEW n \in Nat \ {0}, NEW seqs \in [1 .. n -> Seq(A)]
  PROVE  \E f: Concatenations(f, seqs, n) /\ FlattenSeq(seqs) = f[n]
<1> DEFINE S == {k \in 1 .. n: \E f: Flattens(f, seqs, k)}
<1>1. Len(seqs) = n
  <2>1. seqs \in Seq(Seq(A))
    OBVIOUS
  <2> QED
    BY <2>1
<1>2. 1 \in S
  <2>1. Flattens([i \in 1 .. 1 |-> seqs[1]], seqs, 1)
    BY DEF Flattens
  <2> QED
    BY <2>1
<1>3. ASSUME NEW k \in 1 .. (n - 1), k \in S
      PROVE  k + 1 \in S
  <2>1. PICK f : Flattens(f, seqs, k)
    BY <1>3
  <2> DEFINE g == [i \in 1 .. (k + 1) |-> IF i <= k THEN f[i] ELSE f[k] \o seqs[k + 1]]
  <2>2. /\ DOMAIN f = 1 .. k
        /\ \A i \in 1 .. k: f[i] = IF i = 1 THEN seqs[i] ELSE f[i - 1] \o seqs[i]
    BY <2>1 DEF Flattens
  <2>3. \A i \in 1 .. (k + 1): g[i] = IF i = 1 THEN seqs[i] ELSE g[i - 1] \o seqs[i]
    <3> SUFFICES ASSUME NEW i \in 1 .. (k + 1)
                 PROVE  g[i] = IF i = 1 THEN seqs[i] ELSE g[i - 1] \o seqs[i]
      OBVIOUS
    <3>1. CASE i <= k
      <4>1. i - 1 <= k /\ i \in 1 .. k
        BY <3>1
      <4>2. i # 1 => i - 1 \in 1 .. (k + 1) /\ g[i - 1] = f[i - 1]
        BY <3>1
      <4> QED
        BY <2>2, <3>1, <4>1, <4>2
    <3>2. CASE i = k + 1
      <4>1. k \in 1 .. (k + 1) /\ g[k] = f[k] /\ i # 1 /\ i - 1 = k
        BY <3>2
      <4>2. ~(i <= k)
        BY <3>2
      <4>3. g[i] = f[k] \o seqs[k + 1]
        BY <4>2
      <4> HIDE DEF g
      <4> QED
        BY <3>2, <4>1, <4>3
    <3> QED
      BY <3>1, <3>2
  <2>4. Flattens(g, seqs, k + 1)
    <3>1. DOMAIN g = 1 .. (k + 1) /\ g = [i \in 1 .. (k + 1) |-> g[i]]
      OBVIOUS
    <3> HIDE DEF g
    <3> QED
      BY <2>3, <3>1 DEF Flattens
  <2> HIDE DEF g
  <2> QED
    BY <2>4
<1>4. n \in S
  <2> HIDE DEF S
  <2>1. 1 .. n \subseteq S
    BY <1>2, <1>3, UpTo
  <2> QED
    BY <2>1
<1> DEFINE flat == CHOOSE f: Flattens(f, seqs, n)
<1>5. Flattens(flat, seqs, n)
  BY <1>4
<1>6. FlattenSeq(seqs) = flat[n]
  BY <1>1 DEF FlattenSeq, Flattens
<1> HIDE DEF flat
<1>7. DOMAIN flat = 1 .. n /\ flat[1] = seqs[1]
  BY <1>5 DEF Flattens
<1>8. ASSUME NEW i \in 1 .. (n - 1)
      PROVE  flat[i + 1] = flat[i] \o seqs[i + 1]
  <2>1. i + 1 \in 1 .. n /\ i + 1 # 1 /\ (i + 1) - 1 = i
    OBVIOUS
  <2> QED
    BY <1>5, <2>1 DEF Flattens
<1> QED
  BY <1>6, <1>7, <1>8 DEF Concatenations

LEMMA TwoSequences ==
  ASSUME NEW A, NEW s \in Seq(A), NEW t \in Seq(A)
  PROVE  /\ s \o t \in Seq(A)
         /\ Len(s \o t) = Len(s) + Len(t)
         /\ \A x \in 1 .. Len(s): (s \o t)[x] = s[x]
         /\ \A x \in 1 .. Len(t): (s \o t)[Len(s) + x] = t[x]
  OBVIOUS

\* The concatenation has elements of its parts.
LEMMA FlattenElements ==
  ASSUME NEW A, NEW n \in Nat, NEW seqs \in [1 .. n -> Seq(A)]
  PROVE  FlattenSeq(seqs) \in Seq(A)
<1>1. CASE n = 0
  <2>1. seqs = <<>> /\ Len(seqs) = 0
    BY <1>1
  <2> QED
    BY <2>1 DEF FlattenSeq
<1>2. CASE n # 0
  <2>1. PICK f : Concatenations(f, seqs, n) /\ FlattenSeq(seqs) = f[n]
    BY <1>2, FlattenUnfolds
  <2> DEFINE S == {i \in 1 .. n: f[i] \in Seq(A)}
  <2>2. 1 \in S
    BY <1>2, <2>1 DEF Concatenations
  <2>3. ASSUME NEW i \in 1 .. (n - 1), i \in S
        PROVE  i + 1 \in S
    <3>1. i + 1 \in 1 .. n
      OBVIOUS
    <3>2. f[i + 1] = f[i] \o seqs[i + 1]
      BY <2>1 DEF Concatenations
    <3>3. f[i] \in Seq(A) /\ seqs[i + 1] \in Seq(A)
      BY <2>3, <3>1
    <3>4. f[i] \o seqs[i + 1] \in Seq(A)
      BY <3>3, TwoSequences
    <3> QED
      BY <3>1, <3>2, <3>4
  <2>4. n \in S
    <3> HIDE DEF S
    <3>1. 1 .. n \subseteq S
      BY <2>2, <2>3, UpTo
    <3> QED
      BY <1>2, <3>1
  <2> QED
    BY <2>1, <2>4
<1> QED
  BY <1>1, <1>2

\* Where the elements of the parts are, if all but the last are of one length.
Places(whole, seqs, R, n) ==
  /\ Len(whole) = (n - 1) * R + Len(seqs[n])
  /\ \A k \in 1 .. n: \A y \in 1 .. Len(seqs[k]): whole[(k - 1) * R + y] = seqs[k][y]

LEMMA FlattenPlaces ==
  ASSUME NEW A, NEW R \in Nat, NEW n \in Nat \ {0}, NEW seqs \in [1 .. n -> Seq(A)],
         \A i \in 1 .. (n - 1): Len(seqs[i]) = R
  PROVE  Places(FlattenSeq(seqs), seqs, R, n)
<1>1. PICK f : Concatenations(f, seqs, n) /\ FlattenSeq(seqs) = f[n]
  BY FlattenUnfolds
<1> DEFINE Placed(i) ==
             /\ f[i] \in Seq(A)
             /\ Len(f[i]) = (i - 1) * R + Len(seqs[i])
             /\ \A k \in 1 .. i: \A y \in 1 .. Len(seqs[k]):
                  f[i][(k - 1) * R + y] = seqs[k][y]
           S == {i \in 1 .. n: Placed(i)}
<1>2. 1 \in S
  <2>1. f[1] = seqs[1] /\ seqs[1] \in Seq(A) /\ (1 - 1) * R = 0 /\ 1 \in 1 .. n
    BY <1>1 DEF Concatenations
  <2>2. \A k \in 1 .. 1: k = 1
    OBVIOUS
  <2>3. Len(f[1]) = (1 - 1) * R + Len(seqs[1])
    BY <2>1
  <2>4. \A k \in 1 .. 1: \A y \in 1 .. Len(seqs[k]): f[1][(k - 1) * R + y] = seqs[k][y]
    BY <2>1, <2>2
  <2> QED
    BY <2>1, <2>3, <2>4
<1>3. ASSUME NEW i \in 1 .. (n - 1), Placed(i)
      PROVE  Placed(i + 1)
  <2>0. i \in 1 .. n /\ i + 1 \in 1 .. n /\ (i + 1) - 1 = i
    OBVIOUS
  <2>1. /\ f[i + 1] = f[i] \o seqs[i + 1]
        /\ seqs[i + 1] \in Seq(A) /\ f[i] \in Seq(A)
    BY <1>1, <1>3, <2>0 DEF Concatenations
  <2> DEFINE s == f[i]
             t == seqs[i + 1]
  <2>5. /\ s \o t \in Seq(A) /\ Len(s \o t) = Len(s) + Len(t)
        /\ \A x \in 1 .. Len(s): (s \o t)[x] = s[x]
        /\ \A x \in 1 .. Len(t): (s \o t)[Len(s) + x] = t[x]
    <3>1. s \in Seq(A) /\ t \in Seq(A)
      BY <2>1
    <3> HIDE DEF s, t
    <3> QED
      BY <3>1, TwoSequences
  <2>2. Len(f[i]) = i * R
    <3>1. Len(seqs[i]) = R
      OBVIOUS
    <3>2. (i - 1) * R + R = i * R
      OBVIOUS
    <3> QED
      BY <1>3, <3>1, <3>2
  <2>3. f[i + 1] \in Seq(A) /\ Len(f[i + 1]) = i * R + Len(seqs[i + 1])
    BY <2>1, <2>2, <2>5
  <2>4. ASSUME NEW k \in 1 .. (i + 1), NEW y \in 1 .. Len(seqs[k])
        PROVE  f[i + 1][(k - 1) * R + y] = seqs[k][y]
    <3>1. CASE k = i + 1
      <4>1. Len(seqs[i + 1]) \in Nat /\ i * R \in Nat
        BY <2>1
      <4>2. \A z \in 1 .. Len(seqs[i + 1]): f[i + 1][i * R + z] = seqs[i + 1][z]
        BY <2>1, <2>2, <2>5
      <4> QED
        BY <2>0, <3>1, <4>2
    <3>2. CASE k # i + 1
      <4>1. k \in 1 .. i /\ k \in 1 .. (n - 1)
        BY <3>2
      <4>2. Len(seqs[k]) = R /\ y \in 1 .. R
        BY <4>1
      <4> DEFINE x == (k - 1) * R + y
      <4>3. x \in 1 .. (i * R)
        <5>1. \A a, b \in Nat: a <= b => a * R <= b * R
          OBVIOUS
        <5>2. k * R <= i * R /\ (k - 1) * R + R = k * R /\ (k - 1) * R \in Nat /\ i * R \in Nat
          BY <4>1, <5>1
        <5>3. \A a, b, c \in Nat: y \in 1 .. c /\ a + c <= b => a + y \in 1 .. b
          BY <4>2
        <5> QED
          BY <4>2, <5>2, <5>3
      <4>4. f[i][x] = seqs[k][y]
        BY <1>3, <4>1
      <4> HIDE DEF x
      <4>5. f[i + 1][x] = f[i][x]
        BY <2>1, <2>2, <2>5, <4>3
      <4> QED
        BY <4>4, <4>5 DEF x
    <3> QED
      BY <3>1, <3>2
  <2> QED
    BY <2>0, <2>3, <2>4
<1>4. n \in S
  <2>1. ASSUME NEW i \in 1 .. (n - 1), i \in S
        PROVE  i + 1 \in S
    <3>1. i + 1 \in 1 .. n /\ Placed(i)
      BY <2>1
    <3>2. Placed(i + 1)
      BY <1>3, <3>1
    <3> HIDE DEF Placed
    <3> QED
      BY <3>1, <3>2
  <2> HIDE DEF S
  <2>2. 1 .. n \subseteq S
    BY <1>2, <2>1, UpTo
  <2> QED
    BY <2>2
<1> QED
  BY <1>1, <1>4 DEF Places

\* Every place of a whole whose parts but the last are of length R is a place
\* of one of them.
AtPlace(x, R, n, last) ==
  \E k \in 1 .. n: \E y \in 1 .. (IF k < n THEN R ELSE last): x = (k - 1) * R + y

LEMMA PlaceOf ==
  ASSUME NEW R \in Nat \ {0}, NEW n \in Nat \ {0}, NEW last \in 1 .. R,
         NEW length, length = (n - 1) * R + last, NEW x \in 1 .. length
  PROVE  AtPlace(x, R, n, last)
<1> DEFINE k == (x - 1) \div R + 1
           from == (k - 1) * R
           y == x - from
<1>1. (n - 1) * R \in Nat /\ x \in Nat \ {0} /\ x <= (n - 1) * R + last
  BY DEF from
<1>2. k \in Nat \ {0} /\ from \in Nat /\ from <= x - 1 /\ x - 1 < from + R
  <2>1. k \in Nat \ {0} /\ k - 1 = (x - 1) \div R
    BY <1>1
  <2>2. ((x - 1) \div R) * R <= x - 1 /\ x - 1 < ((x - 1) \div R + 1) * R
    BY <1>1
  <2>3. ((x - 1) \div R + 1) * R = ((x - 1) \div R) * R + R
    BY <1>1
  <2>4. ((x - 1) \div R) * R \in Nat
    BY <1>1
  <2> QED
    BY <2>1, <2>2, <2>3, <2>4
<1> HIDE DEF k
<1>3. k <= n
  <2>1. (n - 1) * R + R = n * R
    OBVIOUS
  <2>2. \A a, b \in Nat: a <= b => a * R <= b * R
    OBVIOUS
  <2>3. k - 1 >= n => from >= n * R
    BY <1>2, <2>2
  <2> QED
    BY <1>1, <1>2, <2>1, <2>3
<1>4. y \in 1 .. R
  <2> HIDE DEF from
  <2> QED
    BY <1>1, <1>2
<1>5. k = n => y \in 1 .. last
  <2>1. k = n => from = (n - 1) * R
    OBVIOUS
  <2> HIDE DEF from
  <2> QED
    BY <1>1, <1>2, <2>1
<1>6. x = from + y
  <2> HIDE DEF from
  <2> QED
    BY <1>1, <1>2
<1>7. k \in 1 .. n /\ y \in 1 .. (IF k < n THEN R ELSE last)
  <2> HIDE DEF y
  <2> QED
    BY <1>2, <1>3, <1>4, <1>5
<1>8. x = (k - 1) * R + y
  <2> HIDE DEF y
  <2> QED
    BY <1>6 DEF from
<1> HIDE DEF y
<1> QED
  BY <1>7, <1>8 DEF AtPlace

-----------------------------------------------------------------------------
(* A file in chunks, and the records of them. *)

LEMMA SubSequence ==
  ASSUME NEW A, NEW s \in Seq(A), NEW m \in Nat \ {0}, NEW n \in Nat,
         m <= n + 1, n <= Len(s)
  PROVE  /\ SubSeq(s, m, n) \in Seq(A)
         /\ Len(SubSeq(s, m, n)) = n - m + 1
         /\ \A x \in 1 .. (n - m + 1): SubSeq(s, m, n)[x] = s[m + x - 1]
  OBVIOUS

LEMMA SameSequence ==
  ASSUME NEW A, NEW s \in Seq(A), NEW t \in Seq(A), Len(s) = Len(t),
         \A x \in 1 .. Len(s): s[x] = t[x]
  PROVE  s = t
  OBVIOUS

\* All but the last chunk are of ChunkSize, and the last is not empty.
LEMMA ChunkCount ==
  ASSUME NEW length \in Nat, NEW n, n = contentRecordCount(length)
  PROVE  /\ n \in Nat
         /\ length = 0 <=> n = 0
         /\ n > 0 => (n - 1) * ChunkSize < length
         /\ length <= n * ChunkSize
<1> DEFINE c == ChunkSize
           a == length + c - 1
<1>1. c \in Nat \ {0} /\ a \in Nat /\ n = a \div c
  BY DEF contentRecordCount, Ceil
<1>2. n \in Nat /\ n * c <= a /\ a < (n + 1) * c
  <2> HIDE DEF a, c
  <2> QED
    BY <1>1
<1>3. (n + 1) * c = n * c + c /\ (n - 1) * c = n * c - c /\ n * c \in Nat
  BY <1>1, <1>2
<1>4. n > 0 => n * c >= c
  BY <1>1, <1>2
<1> QED
  BY <1>1, <1>2, <1>3, <1>4

\* the chunk with this index
Chunk(file, index) == Slice(file, index * ChunkSize, (index + 1) * ChunkSize)

ChunkLength(length, index) == Min({ChunkSize, length - index * ChunkSize})

LEMMA Chunks ==
  ASSUME NEW A, NEW file \in Seq(A), NEW n, n = contentRecordCount(Len(file)),
         NEW index \in 0 .. (n - 1)
  PROVE  /\ Chunk(file, index) \in Seq(A)
         /\ Len(Chunk(file, index)) = ChunkLength(Len(file), index)
         /\ ChunkLength(Len(file), index) \in 1 .. ChunkSize
         /\ index < n - 1 => ChunkLength(Len(file), index) = ChunkSize
         /\ index = n - 1 => ChunkLength(Len(file), index) = Len(file) - index * ChunkSize
         /\ \A x \in 1 .. ChunkLength(Len(file), index):
              /\ index * ChunkSize + x \in 1 .. Len(file)
              /\ Chunk(file, index)[x] = file[index * ChunkSize + x]
<1> DEFINE c == ChunkSize
           l == Len(file)
           from == index * c
           to == (index + 1) * c
<1>1. c \in Nat \ {0} /\ l \in Nat /\ n \in Nat /\ index \in Nat
  BY ChunkCount
<1>2. (n - 1) * c < l /\ l <= n * c
  BY <1>1, ChunkCount
<1>3. from \in Nat /\ to = from + c
  BY <1>1
<1>4. from < l
  <2>1. from <= (n - 1) * c
    BY <1>1
  <2> QED
    BY <1>1, <1>2, <1>3, <2>1
<1>5. index < n - 1 => to <= (n - 1) * c
  BY <1>1
<1>6. index = n - 1 => l <= to
  BY <1>1, <1>2
<1>7. Min({to, l}) = (IF to <= l THEN to ELSE l)
      /\ Min({c, l - from}) = IF c <= l - from THEN c ELSE l - from
  <2>1. to \in Int /\ l \in Int /\ c \in Int /\ l - from \in Int
    BY <1>1, <1>3
  <2> HIDE DEF c, l, from, to
  <2>2. Min({to, l}) = IF to <= l THEN to ELSE l
    BY <2>1, MinOfTwo
  <2>3. Min({c, l - from}) = IF c <= l - from THEN c ELSE l - from
    BY <2>1, MinOfTwo
  <2> QED
    BY <2>2, <2>3
<1>8. Chunk(file, index) = SubSeq(file, from + 1, Min({to, l}))
  BY DEF Chunk, Slice
<1>9. ChunkLength(l, index) = Min({c, l - from})
  BY DEF ChunkLength
<1>10. (n - 1) * c \in Nat
  BY <1>1
<1> DEFINE end == Min({to, l})
<1> HIDE DEF c, l, from, to
<1>11. end \in Nat /\ from < end /\ end <= l /\ end - from = ChunkLength(l, index)
  BY <1>1, <1>3, <1>4, <1>7, <1>9
<1> HIDE DEF end
<1>12. /\ SubSeq(file, from + 1, end) \in Seq(A)
       /\ Len(SubSeq(file, from + 1, end)) = end - (from + 1) + 1
       /\ \A x \in 1 .. (end - (from + 1) + 1):
            SubSeq(file, from + 1, end)[x] = file[(from + 1) + x - 1]
  <2> DEFINE start == from + 1
  <2>1. /\ start \in Nat \ {0} /\ end \in Nat
        /\ start <= end + 1 /\ end <= Len(file)
    <3>1. from \in Nat /\ end \in Nat /\ from < end /\ end <= l
      BY <1>3, <1>11
    <3>2. end <= Len(file)
      BY <3>1 DEF l
    <3> QED
      BY <3>1, <3>2
  <2> HIDE DEF start
  <2>2. /\ SubSeq(file, start, end) \in Seq(A)
        /\ Len(SubSeq(file, start, end)) = end - start + 1
        /\ \A x \in 1 .. (end - start + 1):
             SubSeq(file, start, end)[x] = file[start + x - 1]
    BY <2>1, SubSequence
  <2> QED
    BY <2>2 DEF start
<1>13. end - (from + 1) + 1 = end - from /\ \A x \in Int: (from + 1) + x - 1 = from + x
  BY <1>3, <1>11
<1>14. ChunkLength(l, index) \in 1 .. c
  BY <1>1, <1>3, <1>4, <1>7, <1>9
<1>15. /\ index < n - 1 => ChunkLength(l, index) = c
       /\ index = n - 1 => ChunkLength(l, index) = l - from
  <2>1. ASSUME index < n - 1
        PROVE  ChunkLength(l, index) = c
    <3>1. c <= l - from
      <4> DEFINE start == (n - 1) * c
      <4>1. from + c <= start /\ start < l /\ start \in Nat
        BY <1>2, <1>3, <1>5, <1>10, <2>1
      <4> HIDE DEF start
      <4> QED
        BY <1>1, <1>3, <4>1
    <3> QED
      BY <1>7, <1>9, <3>1
  <2>2. ASSUME index = n - 1
        PROVE  ChunkLength(l, index) = l - from
    <3>1. l - from <= c /\ (c <= l - from => c = l - from)
      BY <1>1, <1>3, <1>6, <2>2
    <3> QED
      BY <1>7, <1>9, <3>1
  <2> QED
    BY <2>1, <2>2
<1>16. Chunk(file, index) = SubSeq(file, from + 1, end)
  BY <1>8 DEF end
<1>17. \A x \in 1 .. ChunkLength(l, index): from + x \in 1 .. l
  BY <1>1, <1>3, <1>11
<1>18. /\ Chunk(file, index) \in Seq(A)
       /\ Len(Chunk(file, index)) = ChunkLength(l, index)
  BY <1>11, <1>12, <1>13, <1>16
<1>19. ASSUME NEW x \in 1 .. ChunkLength(l, index)
       PROVE  /\ from + x \in 1 .. l
              /\ Chunk(file, index)[x] = file[from + x]
  <2>1. x \in 1 .. (end - (from + 1) + 1) /\ x \in Int
    BY <1>11, <1>13
  <2> QED
    BY <1>12, <1>13, <1>16, <1>17, <2>1
<1> QED
  BY <1>14, <1>15, <1>18, <1>19 DEF c, l, from

\* The chunks of a file make up the file.
LEMMA ChunksMakeFile ==
  ASSUME NEW A, NEW file \in Seq(A), NEW n, n = contentRecordCount(Len(file))
  PROVE  FlattenSeq([k \in 1 .. n |-> Chunk(file, k - 1)]) = file
<1> DEFINE c == ChunkSize
           l == Len(file)
           chunks == [k \in 1 .. n |-> Chunk(file, k - 1)]
           flat == FlattenSeq(chunks)
<1>1. c \in Nat \ {0} /\ l \in Nat /\ n \in Nat
  BY ChunkCount
<1>2. CASE n = 0
  <2>1. chunks = <<>>
    <3>1. 1 .. n = {}
      BY <1>2
    <3>2. \A f, g: DOMAIN f = {} /\ DOMAIN g = {} /\ f = [x \in DOMAIN f |-> f[x]]
                   /\ g = [x \in DOMAIN g |-> g[x]] => f = g
      OBVIOUS
    <3> QED
      BY <3>1
  <2>2. FlattenSeq(<<>>) = <<>>
    BY DEF FlattenSeq
  <2>3. file = <<>>
    <3>1. l = 0
      BY <1>1, <1>2, ChunkCount
    <3> QED
      BY <3>1
  <2>4. FlattenSeq(chunks) = file
    <3> HIDE DEF chunks
    <3> QED
      BY <2>1, <2>2, <2>3
  <2> QED
    BY <2>4
<1>3. CASE n # 0
  <2>0. n \in Nat \ {0} /\ (n - 1) * c \in Nat
    BY <1>1, <1>3
  <2>10. (n - 1) * c < l /\ l <= n * c
    BY <1>1, <1>3, ChunkCount
  <2>1. n \in Nat \ {0} /\ (n - 1) * c < l /\ l <= n * c /\ (n - 1) * c \in Nat
    BY <2>0, <2>10
  <2>2. ASSUME NEW k \in 1 .. n
        PROVE  /\ chunks[k] \in Seq(A)
               /\ Len(chunks[k]) = ChunkLength(l, k - 1)
               /\ k < n => Len(chunks[k]) = c
               /\ k = n => Len(chunks[k]) = l - (n - 1) * c
               /\ \A x \in 1 .. Len(chunks[k]): chunks[k][x] = file[(k - 1) * c + x]
    <3>1. k - 1 \in 0 .. (n - 1) /\ chunks[k] = Chunk(file, k - 1)
      BY <1>1
    <3>2. (k < n => k - 1 < n - 1) /\ (k = n => k - 1 = n - 1)
      BY <1>1
    <3> HIDE DEF chunks
    <3> QED
      BY <3>1, <3>2, Chunks
  <2>3. chunks \in [1 .. n -> Seq(A)]
    <3>1. \A k \in 1 .. n: chunks[k] \in Seq(A)
      BY <2>2
    <3> QED
      BY <3>1
  <2>4. \A k \in 1 .. (n - 1): k \in 1 .. n /\ k < n
    BY <2>1
  <2> HIDE DEF chunks
  <2>5. /\ Len(flat) = (n - 1) * c + Len(chunks[n])
        /\ \A k \in 1 .. n: \A y \in 1 .. Len(chunks[k]):
             flat[(k - 1) * c + y] = chunks[k][y]
    <3>1. \A k \in 1 .. (n - 1): Len(chunks[k]) = c
      BY <2>2, <2>4
    <3>2. c \in Nat
      BY <1>1
    <3>3. Places(flat, chunks, c, n)
      <4> HIDE DEF c
      <4> QED
        BY <2>0, <2>3, <3>1, <3>2, FlattenPlaces
    <3> HIDE DEF c, flat
    <3> QED
      BY <3>3 DEF Places
  <2>6. flat \in Seq(A)
    BY <1>1, <2>3, FlattenElements
  <2>7. Len(flat) = l
    <3> DEFINE from == (n - 1) * c
    <3>1. Len(chunks[n]) = l - from
      <4>1. n \in 1 .. n
        BY <2>1
      <4> QED
        BY <2>2, <4>1
    <3>2. Len(flat) = from + (l - from)
      BY <2>5, <3>1
    <3>3. from \in Int /\ l \in Int
      BY <1>1, <2>1
    <3> HIDE DEF from, flat
    <3> QED
      BY <3>2, <3>3
  <2>8. ASSUME NEW x \in 1 .. l
        PROVE  flat[x] = file[x]
    <3> DEFINE last == l - (n - 1) * c
    <3>1. last \in 1 .. c /\ l = (n - 1) * c + last
      <4> DEFINE from == (n - 1) * c
      <4>1. n * c = from + c
        BY <1>1, <2>0
      <4>2. from \in Nat /\ from < l /\ l <= from + c /\ l \in Nat /\ c \in Nat
        BY <1>1, <2>1, <4>1
      <4> HIDE DEF from, c
      <4>3. l - from \in 1 .. c /\ from + (l - from) = l
        BY <4>2
      <4> QED
        BY <4>3 DEF from
    <3>4. n \in Nat \ {0} /\ c \in Nat \ {0}
      BY <1>1, <2>0
    <3> HIDE DEF last, c, l
    <3>2. AtPlace(x, c, n, last)
      BY <3>1, <3>4, PlaceOf
    <3>3. PICK k \in 1 .. n :
            \E y \in 1 .. (IF k < n THEN c ELSE last): x = (k - 1) * c + y
      BY <3>2 DEF AtPlace
    <3>5. Len(chunks[k]) = IF k < n THEN c ELSE last
      <4>1. /\ k < n => Len(chunks[k]) = c
            /\ k = n => Len(chunks[k]) = l - (n - 1) * c
        BY <2>2, <3>3
      <4>2. k < n \/ (k = n /\ ~(k < n))
        BY <2>0
      <4> QED
        BY <4>1, <4>2 DEF last
    <3> QED
      BY <2>2, <2>5, <3>3, <3>5
  <2> HIDE DEF flat
  <2>9. flat = file
    BY <2>6, <2>7, <2>8, SameSequence
  <2> QED
    BY <2>9 DEF flat, chunks
<1> QED
  BY <1>2, <1>3

-----------------------------------------------------------------------------
(* The records of a file. *)

RecordLength == ChunkSize + TagLength

\* the bytes of the content records of a file
SealedBytes(key, file) ==
  {[of |-> ContentRecord(key, file, index), at |-> i]:
     index \in 0 .. (contentRecordCount(Len(file)) - 1), i \in Nat}

LEMMA Records ==
  ASSUME NEW A, NEW file \in Seq(A), NEW key, NEW n, n = contentRecordCount(Len(file)),
         NEW index \in 0 .. (n - 1),
         NEW record, record = ContentRecord(key, file, index)
  PROVE  /\ record.key = key /\ record.header = buildHeader(key)
         /\ record.type = "content" /\ record.counter = index + 1
         /\ record.length = ChunkLength(Len(file), index)
         /\ record.plaintext = Chunk(file, index)
         /\ Bytes(record) \in Seq(SealedBytes(key, file))
         /\ Len(Bytes(record)) = ChunkLength(Len(file), index) + TagLength
         /\ \A i \in 1 .. Len(Bytes(record)): Bytes(record)[i].of = record
<1> DEFINE l == ChunkLength(Len(file), index)
<1>1. Len(Chunk(file, index)) = l /\ l \in Nat
  <2>1. Len(Chunk(file, index)) = l /\ l \in 1 .. ChunkSize
    BY Chunks
  <2> QED
    BY <2>1
<1>2. /\ record.key = key /\ record.header = buildHeader(key)
      /\ record.type = "content" /\ record.counter = index + 1
      /\ record.length = Len(Chunk(file, index)) /\ record.plaintext = Chunk(file, index)
  BY DEF ContentRecord, Sealed, Chunk
<1> HIDE DEF l
<1>3. l + TagLength \in Nat
  BY <1>1
<1>4. Bytes(record) = [i \in 1 .. (l + TagLength) |-> [of |-> record, at |-> i]]
  BY <1>1, <1>2 DEF Bytes
<1>5. \A i \in 1 .. (l + TagLength): [of |-> record, at |-> i] \in SealedBytes(key, file)
  BY <1>3 DEF SealedBytes
<1>6. /\ Bytes(record) \in [1 .. (l + TagLength) -> SealedBytes(key, file)]
      /\ \A i \in 1 .. (l + TagLength): Bytes(record)[i].of = record
  BY <1>4, <1>5
<1>7. Bytes(record) \in Seq(SealedBytes(key, file)) /\ Len(Bytes(record)) = l + TagLength
  <2> DEFINE b == Bytes(record)
             S == SealedBytes(key, file)
             m == l + TagLength
  <2>1. m \in Nat /\ b \in [1 .. m -> S]
    BY <1>3, <1>6
  <2>2. b \in Seq(S) /\ Len(b) = m
    <3> HIDE DEF b, S, m
    <3> QED
      BY <2>1
  <2> QED
    BY <2>2
<1> QED
  BY <1>1, <1>2, <1>6, <1>7 DEF l

\* The content of a container is records of RecordLength, the last one excepted,
\* whose boundaries the reader finds.
Record(body, length, index) ==
  Slice(body, index * RecordLength,
        index * RecordLength + ChunkLength(length, index) + TagLength)

LEMMA Content ==
  ASSUME NEW A, NEW file \in Seq(A), NEW key, NEW n, n = contentRecordCount(Len(file)),
         NEW body, body = encryptFile(key, file).body
  PROVE  /\ body \in Seq(SealedBytes(key, file))
         /\ Len(body) = Len(file) + n * TagLength
         /\ \A index \in 0 .. (n - 1):
              Record(body, Len(file), index) = Bytes(ContentRecord(key, file, index))
<1> DEFINE S == SealedBytes(key, file)
           R == RecordLength
           l == Len(file)
           parts == [k \in 1 .. n |-> Bytes(ContentRecord(key, file, k - 1))]
<1>1. n \in Nat /\ l \in Nat /\ R \in Nat \ {0} /\ TagLength \in Nat
  <2>1. l \in Nat /\ R \in Nat \ {0} /\ TagLength \in Nat
    BY DEF RecordLength
  <2> QED
    BY <2>1, ChunkCount
<1>2. body = FlattenSeq(parts)
  BY DEF encryptFile
<1>3. ASSUME NEW k \in 1 .. n
      PROVE  /\ parts[k] \in Seq(S)
             /\ Len(parts[k]) = ChunkLength(l, k - 1) + TagLength
             /\ k < n => Len(parts[k]) = R
             /\ k = n => Len(parts[k]) = l - (n - 1) * ChunkSize + TagLength
             /\ k = n => Len(parts[k]) <= R
  <2>1. k - 1 \in 0 .. (n - 1) /\ parts[k] = Bytes(ContentRecord(key, file, k - 1))
    BY <1>1
  <2>2. (k < n => k - 1 < n - 1) /\ (k = n => k - 1 = n - 1)
    BY <1>1
  <2> HIDE DEF parts
  <2>3. parts[k] \in Seq(S) /\ Len(parts[k]) = ChunkLength(l, k - 1) + TagLength
    BY <2>1, Records
  <2>4. /\ k < n => ChunkLength(l, k - 1) = ChunkSize
        /\ k = n => ChunkLength(l, k - 1) = l - (n - 1) * ChunkSize
        /\ ChunkLength(l, k - 1) \in 1 .. ChunkSize
    BY <2>1, <2>2, Chunks
  <2>5. k = n => Len(parts[k]) <= R
    BY <2>3, <2>4 DEF RecordLength
  <2> QED
    BY <2>3, <2>4, <2>5 DEF RecordLength
<1>4. parts \in [1 .. n -> Seq(S)]
  <2>1. \A k \in 1 .. n: parts[k] \in Seq(S)
    BY <1>3
  <2> QED
    BY <2>1
<1> HIDE DEF parts
<1>5. body \in Seq(S)
  BY <1>1, <1>2, <1>4, FlattenElements
<1>6. CASE n = 0
  <2>1. Len(body) = 0
    <3>1. DOMAIN parts = {} /\ 1 .. n = {}
      BY <1>4, <1>6
    <3>2. Len(parts) = 0
      BY <3>1, <1>4, <1>6
    <3> QED
      BY <1>2, <3>2, <3>1, <1>4, <1>6 DEF FlattenSeq
  <2>2. l = 0
    BY <1>1, <1>6, ChunkCount
  <2> QED
    BY <1>5, <1>6, <2>1, <2>2
<1>7. CASE n # 0
  <2>1. n \in Nat \ {0} /\ R \in Nat /\ \A k \in 1 .. (n - 1): k \in 1 .. n /\ k < n
    BY <1>1, <1>7
  <2>2. Places(body, parts, R, n)
    <3>1. \A k \in 1 .. (n - 1): Len(parts[k]) = R
      BY <1>3, <2>1
    <3>2. body = FlattenSeq(parts)
      BY <1>2
    <3> HIDE DEF S, R
    <3>3. Places(FlattenSeq(parts), parts, R, n)
      BY <1>4, <2>1, <3>1, FlattenPlaces
    <3> QED
      BY <3>2, <3>3
  <2>3. /\ Len(body) = (n - 1) * R + Len(parts[n])
        /\ \A k \in 1 .. n: \A y \in 1 .. Len(parts[k]): body[(k - 1) * R + y] = parts[k][y]
    <3> HIDE DEF R
    <3> QED
      BY <2>2 DEF Places
  <2>4. Len(body) = l + n * TagLength
    <3>1. Len(parts[n]) = l - (n - 1) * ChunkSize + TagLength
      BY <1>3, <2>1
    <3>2. /\ (n - 1) * R = (n - 1) * ChunkSize + (n - 1) * TagLength
          /\ n * TagLength = (n - 1) * TagLength + TagLength
      BY <1>1 DEF RecordLength
    <3> DEFINE plain == (n - 1) * ChunkSize
               tags == (n - 1) * TagLength
    <3>3. plain \in Int /\ tags \in Int
      BY <1>1
    <3>4. Len(body) = (plain + tags) + (l - plain + TagLength)
      BY <2>3, <3>1, <3>2
    <3>5. n * TagLength = tags + TagLength
      BY <3>2
    <3> HIDE DEF plain, tags
    <3>6. Len(body) = l + (tags + TagLength)
      BY <1>1, <3>3, <3>4
    <3> QED
      BY <3>5, <3>6
  <2>5. ASSUME NEW index \in 0 .. (n - 1)
        PROVE  Record(body, l, index) = Bytes(ContentRecord(key, file, index))
    <3> DEFINE k == index + 1
               from == index * R
               m == ChunkLength(l, index) + TagLength
    <3>1. k \in 1 .. n /\ k - 1 = index /\ parts[k] = Bytes(ContentRecord(key, file, index))
      BY <1>1 DEF parts
    <3>2. Len(parts[k]) = m /\ parts[k] \in Seq(S) /\ m \in Nat \ {0}
      <4>1. Len(parts[k]) = m /\ parts[k] \in Seq(S)
        BY <1>3, <3>1
      <4>2. ChunkLength(l, index) \in 1 .. ChunkSize
        BY Chunks
      <4> QED
        BY <4>1, <4>2
    <3> HIDE DEF m, k
    <3>3. from \in Nat /\ from + m <= Len(body) /\ Len(body) \in Nat
      <4>1. from \in Nat
        BY <1>1
      <4>2. CASE k < n
        <5>1. m = R
          BY <1>3, <3>1, <3>2, <4>2
        <5>2. from + R = k * R
          BY <1>1, <3>1
        <5>3. k * R <= (n - 1) * R
          <6>1. \A a, b \in Nat: a <= b => a * R <= b * R
            BY <1>1
          <6> QED
            BY <1>1, <2>1, <3>1, <4>2, <6>1
        <5>4. Len(parts[n]) \in Nat /\ (n - 1) * R \in Nat /\ k * R \in Nat
          <6>1. parts[n] \in Seq(S)
            BY <1>3, <2>1
          <6> QED
            <7>1. Len(parts[n]) \in Nat
              BY <6>1
            <7>2. n - 1 \in Nat /\ k \in Nat /\ R \in Nat
              BY <1>1, <2>1, <3>1
            <7> HIDE DEF R
            <7>3. (n - 1) * R \in Nat /\ k * R \in Nat
              BY <7>2
            <7> QED
              BY <7>1, <7>3
        <5> HIDE DEF from, R
        <5> QED
          BY <1>5, <2>3, <4>1, <5>1, <5>2, <5>3, <5>4
      <4>3. CASE k = n
        <5>1. from = (n - 1) * R
          BY <3>1, <4>3
        <5> HIDE DEF from, R
        <5> QED
          BY <1>5, <2>3, <3>2, <4>1, <4>3, <5>1
      <4> QED
        BY <2>1, <3>1, <4>2, <4>3
    <3>4. Record(body, l, index) = SubSeq(body, from + 1, from + m)
      <4>1. Record(body, l, index) =
              SubSeq(body, from + 1,
                     Min({from + ChunkLength(l, index) + TagLength, Len(body)}))
        BY DEF Record, Slice
      <4>2. from + ChunkLength(l, index) + TagLength = from + m
        <5>1. ChunkLength(l, index) \in 1 .. ChunkSize
          BY Chunks
        <5> HIDE DEF from
        <5> QED
          BY <3>3, <5>1 DEF m
      <4>3. Min({from + m, Len(body)}) = from + m
        <5> HIDE DEF from
        <5> QED
          BY <3>2, <3>3, MinOfTwo
      <4> HIDE DEF from
      <4> QED
        BY <4>1, <4>2, <4>3
    <3>5. \A y \in 1 .. m: body[from + y] = parts[k][y]
      BY <2>3, <3>1, <3>2
    <3> HIDE DEF from
    <3>6. /\ SubSeq(body, from + 1, from + m) \in Seq(S)
          /\ Len(SubSeq(body, from + 1, from + m)) = (from + m) - (from + 1) + 1
          /\ \A x \in 1 .. ((from + m) - (from + 1) + 1):
               SubSeq(body, from + 1, from + m)[x] = body[(from + 1) + x - 1]
      <4> DEFINE start == from + 1
                 end == from + m
      <4>1. /\ start \in Nat \ {0} /\ end \in Nat /\ start <= end + 1
            /\ end <= Len(body)
        BY <3>2, <3>3
      <4> HIDE DEF start, end
      <4>2. /\ SubSeq(body, start, end) \in Seq(S)
            /\ Len(SubSeq(body, start, end)) = end - start + 1
            /\ \A x \in 1 .. (end - start + 1):
                 SubSeq(body, start, end)[x] = body[start + x - 1]
        <5> HIDE DEF S, from
        <5>1. body \in Seq(S)
          BY <1>5
        <5> QED
          BY ONLY <4>1, <5>1, SubSequence
      <4> QED
        BY <4>2 DEF start, end
    <3>7. (from + m) - (from + 1) + 1 = m /\ \A x \in Int: (from + 1) + x - 1 = from + x
      BY <3>2, <3>3
    <3>8. SubSeq(body, from + 1, from + m) = parts[k]
      <4> DEFINE s == SubSeq(body, from + 1, from + m)
                 t == parts[k]
      <4>1. s \in Seq(S) /\ t \in Seq(S) /\ Len(s) = Len(t)
        BY <3>2, <3>6, <3>7
      <4>2. ASSUME NEW x \in 1 .. Len(s)
            PROVE  s[x] = t[x]
        <5>1. x \in 1 .. m /\ x \in Int /\ (from + 1) + x - 1 = from + x
          BY <3>2, <3>3, <3>6, <3>7
        <5>2. s[x] = body[from + x]
          BY <3>6, <3>7, <5>1
        <5> HIDE DEF s
        <5> QED
          BY <3>5, <5>1, <5>2
      <4> HIDE DEF s, t
      <4>3. s = t
        BY <4>1, <4>2, SameSequence
      <4> QED
        BY <4>3 DEF s, t
    <3> QED
      BY <3>1, <3>4, <3>8
  <2> QED
    BY <1>5, <2>4, <2>5
<1> QED
  BY <1>1, <1>6, <1>7

-----------------------------------------------------------------------------
(* What the reader does. *)

Accepts(c, key) ==
  /\ c.header.magic /\ c.header.version = Version /\ c.header.flags = 0
  /\ c.header.chunk_size = ChunkSize /\ c.header.keyCommitment = key
  /\ c.metadata.key = key /\ c.metadata.header = c.header
  /\ assertSupportedSize(c.metadata.size) /\ ExpectedSize(c)
  /\ \A index \in 0 .. (contentRecordCount(c.metadata.size) - 1):
       Opens(Record(c.body, c.metadata.size, index), key, c.header, index + 1,
             ChunkLength(c.metadata.size, index))

LEMMA Decrypts ==
  ASSUME NEW c, NEW key
  PROVE  decryptContainer(c, key) =
           IF Accepts(c, key)
           THEN [ok |-> TRUE,
                 plaintext |-> FlattenSeq(
                   [n \in 1 .. contentRecordCount(c.metadata.size) |->
                      Record(c.body, c.metadata.size, n - 1)[1].of.plaintext])]
           ELSE Failed
  BY DEF decryptContainer, Accepts, Record, RecordLength, ChunkLength

LEMMA Encrypted ==
  ASSUME NEW key, NEW file
  PROVE  /\ encryptFile(key, file).header = buildHeader(key)
         /\ encryptFile(key, file).metadata.key = key
         /\ encryptFile(key, file).metadata.header = buildHeader(key)
         /\ encryptFile(key, file).metadata.size = Len(file)
         /\ buildHeader(key).magic /\ buildHeader(key).version = Version
         /\ buildHeader(key).flags = 0 /\ buildHeader(key).chunk_size = ChunkSize
         /\ buildHeader(key).keyCommitment = key
  BY DEF encryptFile, buildHeader

\* What the browser writes of any file it reads again with the same key, and
\* with no other.
THEOREM ContainersAreRead ==
  ASSUME NEW A, NEW file \in Seq(A), NEW key, NEW other
  PROVE  RoundTrip(file, key, other)
<1> DEFINE c == encryptFile(key, file)
           n == contentRecordCount(Len(file))
           sealed == buildHeader(key)
           rec(index) == ContentRecord(key, file, index)
<1> SUFFICES ASSUME assertSupportedSize(Len(file))
             PROVE  /\ decryptContainer(c, key) = [ok |-> TRUE, plaintext |-> file]
                    /\ other # key => decryptContainer(c, other) = Failed
  BY DEF RoundTrip
<1>1. /\ c.header = sealed /\ c.metadata.key = key /\ c.metadata.header = sealed
      /\ c.metadata.size = Len(file)
      /\ sealed.magic /\ sealed.version = Version /\ sealed.flags = 0
      /\ sealed.chunk_size = ChunkSize /\ sealed.keyCommitment = key
  BY Encrypted
<1> HIDE DEF c, sealed
<1>2. /\ Len(c.body) = Len(file) + n * TagLength
      /\ \A index \in 0 .. (n - 1): Record(c.body, Len(file), index) = Bytes(rec(index))
  BY Content DEF c
<1>3. ASSUME NEW index \in 0 .. (n - 1)
      PROVE  /\ Opens(Record(c.body, Len(file), index), key, c.header, index + 1,
                      ChunkLength(Len(file), index))
             /\ Record(c.body, Len(file), index)[1].of.plaintext = Chunk(file, index)
  <2> DEFINE r == rec(index)
  <2>1. /\ r.key = key /\ r.header = sealed /\ r.type = "content"
        /\ r.counter = index + 1 /\ r.length = ChunkLength(Len(file), index)
        /\ r.plaintext = Chunk(file, index)
        /\ Len(Bytes(r)) = ChunkLength(Len(file), index) + TagLength
        /\ \A i \in 1 .. Len(Bytes(r)): Bytes(r)[i].of = r
    BY Records DEF sealed
  <2>2. Record(c.body, Len(file), index) = Bytes(r)
    BY <1>2
  <2>3. 1 \in 1 .. Len(Bytes(r))
    <3>1. ChunkLength(Len(file), index) \in 1 .. ChunkSize
      BY Chunks
    <3> HIDE DEF r
    <3> QED
      BY <2>1, <3>1
  <2> HIDE DEF r
  <2>4. Bytes(r)[1].of = r
    BY <2>1, <2>3
  <2> QED
    BY <1>1, <2>1, <2>2, <2>4 DEF Opens
<1>4. Accepts(c, key)
  <2>1. ExpectedSize(c)
    BY <1>1, <1>2 DEF ExpectedSize
  <2> QED
    BY <1>1, <1>3, <2>1 DEF Accepts
<1>5. FlattenSeq([k \in 1 .. n |-> Record(c.body, Len(file), k - 1)[1].of.plaintext]) = file
  <2>1. \A k \in 1 .. n: k - 1 \in 0 .. (n - 1)
    BY ChunkCount
  <2>2. [k \in 1 .. n |-> Record(c.body, Len(file), k - 1)[1].of.plaintext]
          = [k \in 1 .. n |-> Chunk(file, k - 1)]
    BY <1>3, <2>1
  <2>3. FlattenSeq([k \in 1 .. n |-> Chunk(file, k - 1)]) = file
    BY ChunksMakeFile
  <2> QED
    BY <2>2, <2>3
<1>6. decryptContainer(c, key) = [ok |-> TRUE, plaintext |-> file]
  BY <1>1, <1>4, <1>5, Decrypts
<1>7. other # key => decryptContainer(c, other) = Failed
  BY <1>1, Decrypts DEF Accepts
<1> QED
  BY <1>6, <1>7

\* A content that is not the one the browser wrote is refused, whatever bytes
\* it has, as long as nobody else seals under the key of the file.
THEOREM DamageIsRefused ==
  ASSUME NEW A, NEW file \in Seq(A), NEW key, NEW B, NEW body \in Seq(B),
         \A b \in B: b.of.key = key /\ b.of.type = "content" =>
           \E index \in 0 .. (contentRecordCount(Len(file)) - 1):
             b.of = ContentRecord(key, file, index)
  PROVE  DamageRefused(file, key, body)
<1> DEFINE written == encryptFile(key, file)
           c == [written EXCEPT !.body = body]
           n == contentRecordCount(Len(file))
           l == Len(file)
<1> SUFFICES ASSUME decryptContainer(c, key).ok
             PROVE  body = written.body
  BY DEF DamageRefused
<1>1. /\ c.body = body /\ c.metadata.size = l
      /\ written.body \in Seq(SealedBytes(key, file))
      /\ Len(written.body) = l + n * TagLength
      /\ \A index \in 0 .. (n - 1):
           Record(written.body, l, index) = Bytes(ContentRecord(key, file, index))
  <2>1. c.body = body /\ c.metadata = written.metadata
    BY DEF encryptFile
  <2>2. c.metadata.size = l
    BY <2>1, Encrypted
  <2> QED
    BY <2>1, <2>2, Content
<1>2. Accepts(c, key)
  <2> HIDE DEF c
  <2> QED
    BY Decrypts DEF Failed
<1>3. Len(body) = Len(written.body)
  BY <1>1, <1>2 DEF Accepts, ExpectedSize
<1>4. ASSUME NEW index \in 0 .. (n - 1)
      PROVE  Record(body, l, index) = Record(written.body, l, index)
  <2> DEFINE bytes == Record(body, l, index)
             r == bytes[1].of
  <2>1. Opens(bytes, key, c.header, index + 1, ChunkLength(l, index))
    BY <1>1, <1>2 DEF Accepts
  <2>2. /\ Len(bytes) = ChunkLength(l, index) + TagLength
        /\ bytes = Bytes(r) /\ r.key = key /\ r.type = "content"
        /\ r.counter = index + 1
    BY <2>1 DEF Opens
  <2>3. bytes[1] \in B
    <3> DEFINE from == index * RecordLength
               end == from + ChunkLength(l, index) + TagLength
    <3>1. /\ ChunkLength(l, index) \in 1 .. ChunkSize /\ from \in Nat
      BY Chunks, ChunkCount DEF RecordLength
    <3> HIDE DEF from
    <3>2. bytes = SubSeq(body, from + 1, Min({end, Len(body)}))
      BY DEF Record, Slice, from
    <3>3. end \in Nat /\ Len(body) \in Nat /\ Min({end, Len(body)}) \in Nat
          /\ Min({end, Len(body)}) <= Len(body)
      <4>1. end \in Nat /\ Len(body) \in Nat
        BY <3>1
      <4>2. Min({end, Len(body)}) = IF end <= Len(body) THEN end ELSE Len(body)
        <5>1. end \in Int /\ Len(body) \in Int
          BY <4>1
        <5> HIDE DEF end
        <5> QED
          BY <5>1, MinOfTwo
      <4> HIDE DEF end
      <4> QED
        BY <4>1, <4>2
    <3>4. from + 1 <= Min({end, Len(body)})
      <4>1. Len(bytes) >= 1
        BY <2>2, <3>1
      <4> HIDE DEF end, bytes
      <4> QED
        BY <3>1, <3>2, <3>3, <4>1
    <3> DEFINE start == from + 1
               stop == Min({end, Len(body)})
    <3> HIDE DEF end, bytes
    <3>5. start \in 1 .. Len(body) /\ stop \in Nat /\ start <= stop /\ stop <= Len(body)
      BY <3>1, <3>3, <3>4
    <3>6. body \in Seq(B) /\ bytes = SubSeq(body, start, stop)
      BY <3>2
    <3> HIDE DEF start, stop
    <3>7. bytes[1] = body[start]
      <4>1. /\ start \in Nat \ {0} /\ start <= stop + 1
            /\ 1 \in 1 .. (stop - start + 1) /\ start + 1 - 1 = start
        BY <3>5
      <4>2. SubSeq(body, start, stop)[1] = body[start + 1 - 1]
        BY <3>5, <3>6, <4>1, SubSequence
      <4> QED
        BY <3>6, <4>1, <4>2
    <3>8. body[start] \in B
      BY <3>5, <3>6
    <3> QED
      BY <3>7, <3>8
  <2>4. PICK j \in 0 .. (n - 1) : r = ContentRecord(key, file, j)
    BY <2>2, <2>3
  <2>5. j = index
    <3>1. r.counter = j + 1
      BY <2>4, Records
    <3> QED
      BY <2>2, <3>1
  <2> HIDE DEF bytes
  <2> QED
    BY <1>1, <2>2, <2>4, <2>5 DEF bytes
<1> DEFINE R == RecordLength
           last == Len(body) - (n - 1) * R
<1>5. CASE n = 0
  <2>1. Len(body) = 0
    <3>1. l = 0
      BY <1>5, ChunkCount
    <3> QED
      BY <1>1, <1>3, <1>5, <3>1
  <2> HIDE DEF written
  <2> QED
    BY <1>1, <1>3, <2>1
<1>6. CASE n # 0
  <2>1. n \in Nat \ {0} /\ l \in Nat /\ R \in Nat \ {0} /\ TagLength \in Nat
    <3>1. n \in Nat
      BY ChunkCount
    <3> QED
      BY <1>6, <3>1 DEF RecordLength
  <2>2. last = ChunkLength(l, n - 1) + TagLength
    <3>1. n - 1 \in 0 .. (n - 1)
      BY <2>1
    <3>2. ChunkLength(l, n - 1) = l - (n - 1) * ChunkSize
      BY <3>1, Chunks
    <3>3. /\ (n - 1) * R = (n - 1) * ChunkSize + (n - 1) * TagLength
          /\ n * TagLength = (n - 1) * TagLength + TagLength
          /\ (n - 1) * ChunkSize \in Int /\ (n - 1) * TagLength \in Int
      <4>1. n \in Nat \ {0} /\ TagLength \in Nat
        BY <2>1
      <4> HIDE DEF n
      <4>2. (n - 1) * ChunkSize \in Int /\ (n - 1) * TagLength \in Int
        BY <4>1
      <4>3. n * TagLength = (n - 1) * TagLength + TagLength
        BY <4>1
      <4>4. (n - 1) * R = (n - 1) * ChunkSize + (n - 1) * TagLength
        BY <4>1 DEF RecordLength
      <4> QED
        BY <4>2, <4>3, <4>4
    <3> DEFINE plain == (n - 1) * ChunkSize
               tags == (n - 1) * TagLength
    <3>4. Len(body) = l + (tags + TagLength) /\ (n - 1) * R = plain + tags
          /\ plain \in Int /\ tags \in Int
      BY <1>1, <1>3, <3>3
    <3>5. ChunkLength(l, n - 1) = l - plain
      BY <3>2
    <3>6. last = (l + (tags + TagLength)) - (plain + tags)
      BY <3>4
    <3> HIDE DEF plain, tags, last
    <3> QED
      BY <2>1, <3>4, <3>5, <3>6
  <2>3. ASSUME NEW index \in 0 .. (n - 1)
        PROVE  /\ ChunkLength(l, index) \in 1 .. ChunkSize
               /\ index < n - 1 => ChunkLength(l, index) = ChunkSize
    BY Chunks
  <2>4. last \in 1 .. R
    <3>1. ChunkLength(l, n - 1) \in 1 .. ChunkSize
      BY <2>1, <2>3
    <3> HIDE DEF last
    <3> QED
      BY <2>1, <2>2, <3>1 DEF RecordLength
  <2>5. Len(body) \in Nat /\ Len(body) = (n - 1) * R + last
    <3> DEFINE from == (n - 1) * R
    <3>1. from \in Int
      BY <2>1
    <3>2. last = Len(body) - from
      OBVIOUS
    <3> HIDE DEF from, last
    <3>3. Len(body) = from + last
      BY <3>1, <3>2
    <3> QED
      BY <3>3 DEF from
  <2>6. ASSUME NEW x \in 1 .. Len(body)
        PROVE  body[x] = written.body[x]
    <3>1. AtPlace(x, R, n, last)
      <4> HIDE DEF R, last, n
      <4> QED
        BY <2>1, <2>4, <2>5, PlaceOf
    <3>2. PICK k \in 1 .. n :
            \E y \in 1 .. (IF k < n THEN R ELSE last): x = (k - 1) * R + y
      <4> HIDE DEF R, last, n
      <4> QED
        BY <3>1 DEF AtPlace
    <3> DEFINE index == k - 1
               m == ChunkLength(l, index) + TagLength
               from == index * R
    <3>3. PICK y \in 1 .. m : x = from + y
      <4>1. (IF k < n THEN R ELSE last) = m
        <5>1. CASE k < n
          <6>1. index \in 0 .. (n - 1) /\ index < n - 1
            BY <2>1, <3>2, <5>1
          <6> QED
            BY <2>3, <5>1, <6>1 DEF RecordLength
        <5>2. CASE k = n
          BY <2>1, <2>2, <5>2
        <5> QED
          BY <2>1, <3>2, <5>1, <5>2
      <4> HIDE DEF m
      <4> QED
        BY <3>2, <4>1
    <3>4. /\ index \in 0 .. (n - 1) /\ from \in Nat /\ m \in Nat \ {0}
          /\ from + ChunkLength(l, index) + TagLength = from + m
      <4>1. index \in 0 .. (n - 1)
        BY <2>1, <3>2
      <4>2. from \in Nat
        BY <2>1, <4>1
      <4>3. ChunkLength(l, index) \in 1 .. ChunkSize /\ TagLength \in Nat
        BY <2>3, <4>1
      <4> DEFINE long == ChunkLength(l, index)
      <4>4. m = long + TagLength
        OBVIOUS
      <4>5. long \in Nat \ {0} /\ TagLength \in Nat
        BY <4>3
      <4> HIDE DEF long, m, from, index
      <4>6. m \in Nat \ {0} /\ from + long + TagLength = from + m
        BY <4>2, <4>4, <4>5
      <4> QED
        BY <4>1, <4>2, <4>6 DEF long
    <3>5. Record(body, l, index) = Record(written.body, l, index)
      BY <1>4, <3>4
    <3>6. /\ Record(body, l, index) = SubSeq(body, from + 1, Min({from + m, Len(body)}))
          /\ Record(written.body, l, index)
               = SubSeq(written.body, from + 1, Min({from + m, Len(body)}))
      BY <1>3, <3>4 DEF Record, Slice
    <3> DEFINE end == Min({from + m, Len(body)})
    <3>7. end \in Nat /\ x <= end /\ end <= Len(body)
      <4>1. from + m \in Int /\ Len(body) \in Int
        BY <2>5, <3>4
      <4> HIDE DEF from, m
      <4>2. end = IF from + m <= Len(body) THEN from + m ELSE Len(body)
        BY <4>1, MinOfTwo
      <4> HIDE DEF end
      <4> QED
        BY <2>5, <3>3, <3>4, <4>1, <4>2
    <3> HIDE DEF end, from, m, index
    <3>8. y \in 1 .. (end - (from + 1) + 1) /\ (from + 1) + y - 1 = x
          /\ from + 1 \in Nat \ {0} /\ from + 1 <= end + 1
      <4>1. /\ y \in Int /\ y >= 1 /\ x = from + y /\ x <= end
            /\ from \in Nat /\ end \in Nat
        BY <3>3, <3>4, <3>7
      <4> QED
        BY ONLY <4>1
    <3>9. ASSUME NEW T, NEW s \in Seq(T), Len(s) = Len(body)
          PROVE  SubSeq(s, from + 1, end)[y] = s[x]
      <4> DEFINE start == from + 1
      <4>1. /\ start \in Nat \ {0} /\ end \in Nat /\ start <= end + 1
            /\ end <= Len(s) /\ y \in 1 .. (end - start + 1) /\ start + y - 1 = x
        BY <3>7, <3>8, <3>9
      <4> HIDE DEF start
      <4>2. s \in Seq(T)
        OBVIOUS
      <4>3. SubSeq(s, start, end)[y] = s[start + y - 1]
        BY ONLY <4>1, <4>2, SubSequence
      <4> QED
        BY <4>1, <4>3 DEF start
    <3> QED
      <4> HIDE DEF written
      <4>1. SubSeq(body, from + 1, end)[y] = body[x]
        BY <3>9
      <4>2. SubSeq(written.body, from + 1, end)[y] = written.body[x]
        BY <1>1, <1>3, <3>9
      <4> QED
        BY <3>5, <3>6, <4>1, <4>2 DEF end
  <2> DEFINE t == written.body
  <2>7. /\ t \in Seq(SealedBytes(key, file)) /\ Len(body) = Len(t)
        /\ \A x \in 1 .. Len(body): body[x] = t[x]
    BY <1>1, <1>3, <2>6
  <2> HIDE DEF t
  <2>8. body = t
    BY <2>7
  <2> QED
    BY <2>8 DEF t
<1> QED
  BY <1>5, <1>6

\* The bytes of a container.
LEMMA ContainerSize ==
  ASSUME NEW A, NEW file \in Seq(A), NEW key
  PROVE  LET size == SizeOf(encryptFile(key, file))
         IN  /\ size \in Nat
             /\ size = HEADER_LENGTH + METADATA_CIPHERTEXT_LENGTH + Len(file)
                         + contentRecordCount(Len(file)) * TagLength
<1> DEFINE c == encryptFile(key, file)
           tags == contentRecordCount(Len(file)) * TagLength
<1>1. Len(c.body) = Len(file) + tags /\ Len(c.body) \in Nat
  BY Content
<1>2. tags \in Nat
  <2>1. contentRecordCount(Len(file)) \in Nat
    BY ChunkCount
  <2>2. \A n \in Nat: n * TagLength \in Nat
    OBVIOUS
  <2> QED
    BY <2>1, <2>2
<1> HIDE DEF tags, c
<1>3. /\ SizeOf(c) \in Nat
      /\ SizeOf(c) = HEADER_LENGTH + METADATA_CIPHERTEXT_LENGTH + Len(file) + tags
  BY <1>1, <1>2 DEF SizeOf, HEADER_LENGTH, METADATA_CIPHERTEXT_LENGTH
<1> QED
  BY <1>3 DEF c, tags

\* Of what the server admits under a limit the download page takes all or, if
\* the limit is beyond the record counter, nothing; and the size of a
\* container is the size the browser computes.
THEOREM AdmittedAreFetched ==
  ASSUME NEW A, NEW file \in Seq(A), NEW key, NEW limit \in Nat
  PROVE  AdmittedIsFetched(file, key, limit)
<1> DEFINE c == encryptFile(key, file)
<1>1. SizeOf(c) \in Nat
  BY ContainerSize
<1>2. assertSupportedSize(Len(file)) => SizeOf(c) = maxEncryptedContainerSize(Len(file))
  BY ContainerSize DEF maxEncryptedContainerSize
<1>3. ASSUME assertSupportedSize(limit)
      PROVE  /\ MaxCiphertextSize(limit) \in Nat
             /\ maxEncryptedContainerSize(limit) \in Nat
             /\ MaxCiphertextSize(limit) <= maxEncryptedContainerSize(limit)
  <2> DEFINE tags == Ceil(limit, ChunkSize) * TagLength
  <2>1. tags \in Nat
    <3>1. Ceil(limit, ChunkSize) \in Nat
      BY ChunkCount DEF contentRecordCount
    <3>2. \A n \in Nat: n * TagLength \in Nat
      OBVIOUS
    <3> QED
      BY <3>1, <3>2
  <2>2. /\ MaxCiphertextSize(limit) = limit + 38 + 4096 + TagLength + tags
        /\ maxEncryptedContainerSize(limit) = 70 + 4096 + TagLength + limit + tags
    <3> HIDE DEF tags
    <3> QED
      BY <1>3, <2>1 DEF tags, MaxCiphertextSize, maxEncryptedContainerSize,
                        HEADER_LENGTH, METADATA_CIPHERTEXT_LENGTH,
                        minimumV1CiphertextSize, headerSize,
                        metadataCiphertextSize, contentRecordCount
  <2> HIDE DEF tags
  <2> QED
    BY <2>1, <2>2
<1> HIDE DEF c
<1>4. CASE assertSupportedSize(limit)
  <2>1. Admitted(c, SizeOf(c), limit) => Fetched(SizeOf(c), limit)
    BY <1>1, <1>3, <1>4 DEF Admitted, Fetched
  <2> QED
    BY <1>2, <1>4, <2>1 DEF AdmittedIsFetched, c
<1>5. CASE ~assertSupportedSize(limit)
  <2>1. ~Fetched(SizeOf(c), limit)
    BY <1>1, <1>5 DEF Fetched, maxEncryptedContainerSize, Throws
  <2> QED
    BY <1>2, <1>5, <2>1 DEF AdmittedIsFetched, c
<1> QED
  BY <1>4, <1>5

\* The limit of the server falls short by the key commitment, and by no more:
\* it refuses the container of a file as large as the limit, and admits the
\* containers of all files that are smaller by the key commitment.
THEOREM LimitFallsShort ==
  ASSUME NEW A, NEW file \in Seq(A), NEW key, NEW limit \in Nat
  PROVE  LET c == encryptFile(key, file)
         IN  /\ Len(file) = limit => ~Admitted(c, SizeOf(c), limit)
             /\ Len(file) + (HEADER_LENGTH - headerSize) <= limit =>
                  Admitted(c, SizeOf(c), limit)
<1> DEFINE c == encryptFile(key, file)
           l == Len(file)
           tags == Ceil(l, ChunkSize) * TagLength
           limitTags == Ceil(limit, ChunkSize) * TagLength
<1>1. l \in Nat /\ Ceil(l, ChunkSize) \in Nat /\ Ceil(limit, ChunkSize) \in Nat
  <2>1. l \in Nat
    OBVIOUS
  <2>2. \A length \in Nat: contentRecordCount(length) \in Nat
    BY ChunkCount
  <2> HIDE DEF l
  <2> QED
    BY <2>1, <2>2 DEF contentRecordCount
<1>2. l <= limit => tags <= limitTags
  <2>1. l <= limit => Ceil(l, ChunkSize) <= Ceil(limit, ChunkSize)
    <3> DEFINE a == l + ChunkSize - 1
               b == limit + ChunkSize - 1
    <3>1. a \in Int /\ b \in Int /\ (l <= limit => a <= b)
      BY <1>1
    <3>2. a <= b => a \div ChunkSize <= b \div ChunkSize
      <4>1. ChunkSize \in Nat \ {0}
        OBVIOUS
      <4> HIDE DEF a, b
      <4> QED
        BY <3>1, <4>1, QuotientMonotone
    <3> QED
      BY <3>1, <3>2 DEF Ceil
  <2>2. \A m, n \in Nat: m <= n => m * TagLength <= n * TagLength
    OBVIOUS
  <2> QED
    BY <1>1, <2>1, <2>2
<1>3. tags \in Nat /\ limitTags \in Nat
  <2>1. \A m \in Nat: m * TagLength \in Nat
    OBVIOUS
  <2> QED
    BY <1>1, <2>1
<1>4. SizeOf(c) = 70 + 4096 + TagLength + l + tags
  <2>1. SizeOf(c) = HEADER_LENGTH + METADATA_CIPHERTEXT_LENGTH + l
                      + contentRecordCount(l) * TagLength
    BY ContainerSize
  <2> HIDE DEF c
  <2> QED
    BY <2>1 DEF HEADER_LENGTH, METADATA_CIPHERTEXT_LENGTH, contentRecordCount
<1>5. /\ MaxCiphertextSize(limit) = limit + (38 + 4096 + TagLength) + limitTags
      /\ minimumV1CiphertextSize = 38 + 4096 + TagLength
      /\ HEADER_LENGTH - headerSize = 32
  BY DEF MaxCiphertextSize, HEADER_LENGTH, minimumV1CiphertextSize, headerSize,
         metadataCiphertextSize
<1>6. SizeOf(c) >= minimumV1CiphertextSize => ValidateV1Header(c, SizeOf(c))
  <2>1. /\ c.header.magic /\ c.header.version = Version /\ c.header.flags = 0
        /\ c.header.chunk_size = ChunkSize
    BY Encrypted
  <2> HIDE DEF c
  <2> QED
    BY <2>1 DEF ValidateV1Header
<1> HIDE DEF c, l, tags, limitTags
<1>7. ASSUME l = limit
      PROVE  ~Admitted(c, SizeOf(c), limit)
  <2>1. tags = limitTags
    BY <1>7 DEF tags, limitTags
  <2> QED
    BY <1>3, <1>4, <1>5, <1>7, <2>1 DEF Admitted
<1>8. ASSUME l + 32 <= limit
      PROVE  Admitted(c, SizeOf(c), limit)
  <2>1. TagLength \in Nat
    OBVIOUS
  <2>2. tags <= limitTags
    BY <1>1, <1>2, <1>8
  <2>3. SizeOf(c) >= minimumV1CiphertextSize /\ SizeOf(c) <= MaxCiphertextSize(limit)
    BY <1>1, <1>3, <1>4, <1>5, <1>8, <2>1, <2>2
  <2> QED
    BY <1>6, <2>3 DEF Admitted
<1> QED
  BY <1>5, <1>7, <1>8 DEF c, l

-----------------------------------------------------------------------------
(* The inputs of MCBoundaries are among those of the theorems. *)

ContainerInputOK ==
  /\ input.kind = "container" =>
       input.file \in Seq({"a", "b"}) /\ input.limit \in Nat
  /\ input.kind = "damage" =>
       /\ input.file \in Seq({"a", "b"})
       /\ \E n \in Nat: input.records \in [1 .. n -> RecordsOf(input.file)]
       /\ input.cut \in Nat

LEMMA BoundedSequence ==
  ASSUME NEW A, NEW n \in Nat, NEW s \in BoundedSeq(A, n)
  PROVE  \E m \in Nat: s \in [1 .. m -> A]
  BY DEF BoundedSeq, SeqOf

LEMMA ContainerInputsOK == Spec => []ContainerInputOK
<1> USE InputsAssumption
<1>0. Files \subseteq Seq({"a", "b"})
  BY BoundedSequence DEF Files
<1>1. Init => ContainerInputOK
  BY DEF Init, ContainerInputOK
<1>2. ContainerInputOK /\ [Next]_input => ContainerInputOK'
  <2> SUFFICES ASSUME ContainerInputOK, [Next]_input
               PROVE  ContainerInputOK'
    OBVIOUS
  <2>1. CASE EncryptFile
    <3>1. PICK file \in Files, key \in Keys, other \in Keys, limit \in 0 .. MaxLimit :
            input' = [kind |-> "container", file |-> file, key |-> key,
                      other |-> other, limit |-> limit]
      BY <2>1 DEF EncryptFile
    <3>2. file \in Seq({"a", "b"}) /\ limit \in Nat
      BY <1>0
    <3> QED
      BY <3>1, <3>2 DEF ContainerInputOK
  <2>2. CASE DamageContainer
    <3>1. PICK file \in {f \in Files: Len(f) >= MaxFileSize - 1}, key \in Keys,
               cut \in 0 .. 2 :
            \E records \in BoundedSeq(RecordsOf(file),
                                      contentRecordCount(Len(file)) + 1):
              input' = [kind |-> "damage", file |-> file, key |-> key,
                        records |-> records, cut |-> cut]
      BY <2>2 DEF DamageContainer
    <3>2. file \in Seq({"a", "b"}) /\ cut \in Nat
      BY <1>0
    <3>3. contentRecordCount(Len(file)) + 1 \in Nat
      <4>1. Len(file) \in Nat
        BY <3>2
      <4>2. contentRecordCount(Len(file)) \in Nat
        BY <4>1, ChunkCount
      <4> QED
        BY <4>2
    <3>4. PICK records \in BoundedSeq(RecordsOf(file), contentRecordCount(Len(file)) + 1) :
            input' = [kind |-> "damage", file |-> file, key |-> key,
                      records |-> records, cut |-> cut]
      BY <3>1
    <3>5. \E n \in Nat: records \in [1 .. n -> RecordsOf(file)]
      BY <3>3, BoundedSequence
    <3>6. /\ input'.kind = "damage" /\ input'.file = file
          /\ input'.records = records /\ input'.cut = cut
      BY <3>4
    <3> QED
      BY <3>2, <3>5, <3>6 DEF ContainerInputOK
  <2>3. CASE AskRange \/ SetExpiration \/ WalkPages
    <3>1. input'.kind \notin {"container", "damage"}
      BY <2>3 DEF AskRange, SetExpiration, WalkPages
    <3> QED
      BY <3>1 DEF ContainerInputOK
  <2>4. CASE UNCHANGED input
    BY <2>4 DEF ContainerInputOK
  <2> QED
    BY <2>1, <2>2, <2>3, <2>4 DEF Next
<1> QED
  BY <1>1, <1>2, PTL DEF Spec

\* The browser reads every container it has written, with its key only.
THEOREM ContainersAreReadByAll == Spec => []ContainersReadable
<1>1. ContainerInputOK => ContainersReadable
  BY ContainersAreRead DEF ContainerInputOK, ContainersReadable
<1> QED
  BY <1>1, ContainerInputsOK, PTL

\* Of what the server has admitted the download page takes everything under a
\* limit within the record counter, and nothing under any other.
THEOREM AdmittedAreFetchedByAll == Spec => []AdmittedContainersFetched
<1>1. ContainerInputOK => AdmittedContainersFetched
  BY AdmittedAreFetched DEF ContainerInputOK, AdmittedContainersFetched
<1> QED
  BY <1>1, ContainerInputsOK, PTL

\* The browser refuses a content put together from other records than the
\* file's, or from these in another order or number, or cut.
THEOREM DamageIsRefusedByAll == Spec => []DamagedContainersRefused
<1>1. ContainerInputOK => DamagedContainersRefused
  <2> SUFFICES ASSUME ContainerInputOK, input.kind = "damage"
               PROVE  DamageRefused(input.file, input.key,
                                    Body(input.file, input.records, input.cut))
    BY DEF DamagedContainersRefused
  <2> DEFINE file == input.file
             records == input.records
             last == contentRecordCount(Len(file)) - 1
             B == UNION {SealedBytes(key, file): key \in Keys}
             parts == [i \in DOMAIN records |->
                         Bytes(ContentRecord(records[i][1], file, records[i][2]))]
             whole == FlattenSeq(parts)
             body == Body(file, records, input.cut)
  <2>1. file \in Seq({"a", "b"}) /\ input.cut \in Nat
    BY DEF ContainerInputOK
  <2>2. PICK n \in Nat : records \in [1 .. n -> RecordsOf(file)]
    BY DEF ContainerInputOK
  <2> HIDE DEF file, records
  <2>3. parts \in [1 .. n -> Seq(B)]
    <3>1. ASSUME NEW i \in 1 .. n
          PROVE  parts[i] \in Seq(B)
      <4>1. records[i] \in Keys \X (0 .. last)
        BY <2>2 DEF RecordsOf
      <4>2. PICK key \in Keys : \E index \in 0 .. last: records[i] = <<key, index>>
        BY <4>1
      <4>3. PICK index \in 0 .. last : records[i] = <<key, index>>
        BY <4>2
      <4>4. parts[i] = Bytes(ContentRecord(key, file, index))
        BY <2>2, <4>3
      <4>5. Bytes(ContentRecord(key, file, index)) \in Seq(SealedBytes(key, file))
        BY <2>1, Records
      <4>6. SealedBytes(key, file) \subseteq B
        OBVIOUS
      <4> HIDE DEF B, parts
      <4>7. \A S, s: S \subseteq B /\ s \in Seq(S) => s \in Seq(B)
        OBVIOUS
      <4> QED
        BY <4>4, <4>5, <4>6, <4>7
    <3>2. DOMAIN parts = 1 .. n
      BY <2>2
    <3> HIDE DEF B
    <3> QED
      BY <3>1, <3>2
  <2>4. whole \in Seq(B)
    <3> HIDE DEF parts, B
    <3> QED
      BY <2>3, FlattenElements
  <2>5. body \in Seq(B)
    <3>1. body = SubSeq(whole, 1, Len(whole) - input.cut)
      BY DEF Body
    <3> HIDE DEF whole, B
    <3>2. CASE input.cut <= Len(whole)
      <4>1. Len(whole) - input.cut \in Nat /\ 1 <= Len(whole) - input.cut + 1
            /\ Len(whole) - input.cut <= Len(whole)
        BY <2>1, <2>4, <3>2
      <4> QED
        BY <2>4, <3>1, <4>1, SubSequence
    <3>3. CASE ~(input.cut <= Len(whole))
      <4>1. Len(whole) - input.cut < 1 /\ Len(whole) - input.cut \in Int
        BY <2>1, <2>4, <3>3
      <4>2. SubSeq(whole, 1, Len(whole) - input.cut) = <<>>
        BY <2>4, <4>1
      <4>3. \A S: <<>> \in Seq(S)
        OBVIOUS
      <4> HIDE DEF body
      <4> QED
        BY <3>1, <4>2, <4>3
    <3> QED
      BY <3>2, <3>3
  <2>6. ASSUME NEW b \in B, b.of.key = input.key
        PROVE  \E index \in 0 .. last: b.of = ContentRecord(input.key, file, index)
    <3>1. PICK key \in Keys : b \in SealedBytes(key, file)
      OBVIOUS
    <3>2. PICK index \in 0 .. last : b.of = ContentRecord(key, file, index)
      BY <3>1 DEF SealedBytes
    <3>3. b.of.key = key
      BY <2>1, <3>2, Records
    <3> QED
      BY <2>6, <3>2, <3>3
  <2> HIDE DEF B, body
  <2>7. DamageRefused(file, input.key, body)
    BY <2>1, <2>5, <2>6, DamageIsRefused
  <2> QED
    BY <2>7 DEF file, records, body
<1> QED
  BY <1>1, ContainerInputsOK, PTL

=============================================================================
