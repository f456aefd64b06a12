-------------------------- MODULE NydusReadProofs --------------------------
(***************************************************************************)
(* Proofs about NydusRead and DedupRange, for any sizes of file, chunks,   *)
(* blob, queue and batches.                                                *)
(***************************************************************************)
EXTENDS NydusRead, SequenceTheorems, FiniteSetTheorems, NaturalsInduction,
        WellFoundedInduction, TLAPS

USE DedupRangeAssumption, NydusReadAssumption
-----------------------------------------------------------------------------
(* Arithmetic *)

(* What integer division returns. *)
LEMMA DivBounds ==
    ASSUME NEW a \in Nat, NEW b \in Nat \ {0}
    PROVE  /\ a \div b \in Nat
           /\ (a \div b) * b <= a
           /\ a < (a \div b) * b + b
  OBVIOUS

(* Multiples of b. *)
LEMMA Monotone ==
    ASSUME NEW i \in Nat, NEW j \in Nat, NEW b \in Nat, i <= j
    PROVE  i * b \in Nat /\ i * b <= j * b /\ (i + 1) * b = i * b + b
  OBVIOUS

(* The number whose multiple is the last not above a. *)
LEMMA DivIs ==
    ASSUME NEW a \in Nat, NEW c \in Nat \ {0}, NEW k \in Nat, k * c <= a, a < k * c + c
    PROVE  a \div c = k
<1> DEFINE q == a \div c
<1>1. q \in Nat /\ q * c <= a /\ a < q * c + c
  BY DivBounds
<1> HIDE DEF q
<1>2. CASE q + 1 <= k
  <2>1. (q + 1) * c <= k * c /\ (q + 1) * c = q * c + c /\ q * c \in Nat /\ k * c \in Nat
    BY <1>1, <1>2, Monotone
  <2> QED BY <1>1, <2>1
<1>3. CASE k + 1 <= q
  <2>1. (k + 1) * c <= q * c /\ (k + 1) * c = k * c + c /\ q * c \in Nat /\ k * c \in Nat
    BY <1>1, <1>3, Monotone
  <2> QED BY <1>1, <2>1
<1> QED BY <1>1, <1>2, <1>3 DEF q

(* Division does not change the order. *)
LEMMA DivMonotone ==
    ASSUME NEW a \in Nat, NEW b \in Nat, a <= b, NEW c \in Nat \ {0}
    PROVE  a \div c <= b \div c
<1> DEFINE p == a \div c
           q == b \div c
<1>1. p \in Nat /\ p * c <= a /\ q \in Nat /\ b < q * c + c
  BY DivBounds
<1> HIDE DEF p, q
<1>2. CASE q + 1 <= p
  <2>1. (q + 1) * c <= p * c /\ (q + 1) * c = q * c + c /\ q * c \in Nat /\ p * c \in Nat
    BY <1>1, <1>2, Monotone
  <2> QED BY <1>1, <2>1
<1> QED BY <1>1, <1>2 DEF p, q

(* Below n, the multiples of b are those of the numbers up to n - 1 over b. *)
LEMMA MultipleBelow ==
    ASSUME NEW n \in Nat \ {0}, NEW b \in Nat \ {0}, NEW i \in Nat
    PROVE  i <= (n - 1) \div b <=> i * b < n
<1> DEFINE q == (n - 1) \div b
<1>1. q \in Nat /\ q * b <= n - 1 /\ n - 1 < q * b + b
  BY DivBounds
<1> HIDE DEF q
<1>2. CASE i <= q
  BY <1>1, <1>2, Monotone
<1>3. CASE q + 1 <= i
  <2>1. (q + 1) * b <= i * b /\ (q + 1) * b = q * b + b
    BY <1>1, <1>3, Monotone
  <2> QED BY <1>1, <1>3, <2>1
<1> QED BY <1>1, <1>2, <1>3 DEF q

(* The file's chunks start inside it, and only the last one is shorter. *)
LEMMA FileChunkBounds ==
    ASSUME NEW k \in Nat
    PROVE  /\ k * FileChunk \in Nat
           /\ k \in FileChunks <=> k * FileChunk < FileSize
           /\ k \in FileChunks => /\ USize(k) \in 1 .. FileChunk
                                  /\ k * FileChunk + USize(k) <= FileSize
                                  /\ USize(k) < FileChunk => k * FileChunk + USize(k) = FileSize
<1>1. k * FileChunk \in Nat
  BY Monotone
<1>2. (FileSize - 1) \div FileChunk \in Nat
  BY DivBounds
<1>3. k \in FileChunks <=> k * FileChunk < FileSize
  BY <1>2, MultipleBelow DEF FileChunks
<1>4. ASSUME NEW x \in Nat, x < FileSize
      PROVE  /\ Minimum(FileChunk, FileSize - x) \in 1 .. FileChunk
             /\ x + Minimum(FileChunk, FileSize - x) <= FileSize
             /\ Minimum(FileChunk, FileSize - x) < FileChunk
                  => x + Minimum(FileChunk, FileSize - x) = FileSize
  BY <1>4 DEF Minimum
<1> QED BY <1>1, <1>3, <1>4 DEF USize

(* The chunks of the blob start inside it. *)
LEMMA BlobChunkBounds ==
    ASSUME NEW i \in 0 .. (NChunks - 1)
    PROVE  /\ i * ChunkSize \in Nat /\ i * ChunkSize < ImageSize
           /\ ReadSize(i * ChunkSize) \in 1 .. ChunkSize
           /\ i * ChunkSize + ReadSize(i * ChunkSize) <= ImageSize
<1> DEFINE q == (ImageSize + ChunkSize - 1) \div ChunkSize
<1>1. /\ q \in Nat /\ q * ChunkSize <= ImageSize + ChunkSize - 1
  BY DivBounds
<1>2. i \in Nat /\ i + 1 <= q
  BY <1>1 DEF NChunks
<1> HIDE DEF q
<1>3. (i + 1) * ChunkSize <= q * ChunkSize /\ (i + 1) * ChunkSize = i * ChunkSize + ChunkSize
      /\ i * ChunkSize \in Nat
  BY <1>1, <1>2, Monotone
<1>4. i * ChunkSize < ImageSize
  BY <1>1, <1>3
<1>5. ASSUME NEW x \in Nat, x < ImageSize
      PROVE  ReadSize(x) \in 1 .. ChunkSize /\ x + ReadSize(x) <= ImageSize
  BY <1>5 DEF ReadSize, Minimum
<1> QED BY <1>3, <1>4, <1>5
-----------------------------------------------------------------------------
(* Folds *)

(* Every set of natural numbers has a least one. *)
LEMMA LeastNumber ==
    ASSUME NEW T, T \subseteq Nat, T # {}
    PROVE  \E x \in T : \A y \in T : x <= y
<1>1. IsWellFoundedOn(OpToRel(<, Nat), Nat)
  BY NatLessThanWellFounded, Zenon
<1>2. PICK x \in T : \A y \in T : <<y, x>> \notin OpToRel(<, Nat)
  BY <1>1, WFMin, Zenon
<1>3. OpToRel(<, Nat) = {p \in Nat \X Nat : p[1] < p[2]}
  BY Zenon DEF OpToRel
<1>4. \A y \in T : ~(y < x)
  <2> TAKE y \in T
  <2>1. <<y, x>> \notin {p \in Nat \X Nat : p[1] < p[2]}
    BY <1>2, <1>3, Zenon
  <2> QED BY <2>1
<1> QED BY <1>4

(* The greatest element of a set of indices that has the last one. *)
LEMMA MaxIsLast ==
    ASSUME NEW m \in Nat, NEW t \in SUBSET (1 .. m), m \in t
    PROVE  Max(t) = m
<1>1. m \in t /\ \A y \in t : m >= y
  OBVIOUS
<1>2. Max(t) \in t /\ \A y \in t : Max(t) >= y
  BY <1>1, Zenon DEF Max
<1> DEFINE x == Max(t)
<1>3. x \in t /\ x >= m /\ m >= x
  BY <1>1, <1>2, Zenon
<1> HIDE DEF x
<1>4. x \in Nat
  BY <1>3
<1> QED BY <1>3, <1>4 DEF x

\* The loop's state after the records of s.
Walked(b, s) == FoldLeft(WalkStep, b, s)

(* FoldLeft of the loop's body over n records is the n-th of the states     *)
(* that start with b and in which each record makes the next.               *)
LEMMA WalkFold ==
    ASSUME NEW n \in Nat, NEW s, DOMAIN s = 1 .. n, NEW b
    PROVE  \E acc : /\ acc[0] = b
                    /\ \A k \in 1 .. n : acc[k] = WalkStep(acc[k - 1], s[k])
                    /\ Walked(b, s) = acc[n]
<1> DEFINE Value(f, t) == IF t = {} THEN b ELSE WalkStep(f[t \ {Max(t)}], s[Max(t)])
           Solves(f, m) == f = [t \in SUBSET (1 .. m) |-> Value(f, t)]
           Bad == {m \in Nat : ~ \E f : Solves(f, m)}
<1>1. \E f : Solves(f, 0)
  <2> DEFINE f == [t \in SUBSET (1 .. 0) |-> b]
  <2>1. \A t \in SUBSET (1 .. 0) : t = {}
    OBVIOUS
  <2>2. \A t \in SUBSET (1 .. 0) : Value(f, t) = b
    BY <2>1, Zenon
  <2>3. Solves(f, 0)
    BY <2>2, Zenon
  <2> QED BY <2>3, Zenon
<1>2. ASSUME NEW m \in Nat, \E f : Solves(f, m)
      PROVE  \E f : Solves(f, m + 1)
  <2>1. PICK f : Solves(f, m)
    BY <1>2, Zenon
  <2> DEFINE g == [t \in SUBSET (1 .. m + 1) |->
                     IF m + 1 \in t THEN WalkStep(f[t \ {m + 1}], s[m + 1]) ELSE f[t]]
  <2>2. ASSUME NEW t \in SUBSET (1 .. m + 1) PROVE g[t] = Value(g, t)
    <3>1. CASE m + 1 \in t
      <4>1. Max(t) = m + 1 /\ t # {} /\ t \ {m + 1} \in SUBSET (1 .. m + 1) /\ m + 1 \notin t \ {m + 1}
        BY <3>1, MaxIsLast
      <4>2. g[t \ {m + 1}] = f[t \ {m + 1}]
        BY <4>1, Zenon
      <4>3. g[t] = WalkStep(f[t \ {m + 1}], s[m + 1])
        BY <3>1, Zenon
      <4> QED BY <4>1, <4>2, <4>3, Zenon
    <3>2. CASE m + 1 \notin t
      <4>1. /\ t \in SUBSET (1 .. m)
            /\ t \ {Max(t)} \in SUBSET (1 .. m + 1) /\ m + 1 \notin t \ {Max(t)}
        <5>1. \A i \in 1 .. m + 1 : i # m + 1 => i \in 1 .. m
          OBVIOUS
        <5> QED BY <3>2, <5>1, Zenon
      <4>2. g[t] = f[t] /\ g[t \ {Max(t)}] = f[t \ {Max(t)}]
        BY <3>2, <4>1, Zenon
      <4>3. f[t] = Value(f, t)
        BY <2>1, <4>1, Zenon
      <4> QED BY <4>2, <4>3, Zenon
    <3> QED BY <3>1, <3>2
  <2>3. g = [t \in SUBSET (1 .. m + 1) |-> Value(g, t)]
    <3>1. g = [t \in SUBSET (1 .. m + 1) |-> g[t]]
      BY Zenon
    <3> HIDE DEF g, Value
    <3> QED BY <2>2, <3>1, Zenon
  <2> QED BY <2>3, Zenon
<1>3. \E f : Solves(f, n)
  <2> SUFFICES ASSUME ~ \E f : Solves(f, n) PROVE FALSE
    OBVIOUS
  <2> HIDE DEF Solves
  <2>1. Bad # {} /\ Bad \subseteq Nat
    BY Zenon
  <2>2. PICK m \in Bad : \A y \in Bad : m <= y
    BY <2>1, LeastNumber
  <2>3. m \in Nat /\ m # 0
    BY <1>1, <2>2
  <2>4. m - 1 \in Nat /\ m - 1 \notin Bad /\ (m - 1) + 1 = m
    BY <2>2, <2>3
  <2>5. \E f : Solves(f, m - 1)
    BY <2>4, Zenon
  <2>6. \E f : Solves(f, (m - 1) + 1)
    BY <1>2, <2>4, <2>5
  <2>7. \E f : Solves(f, m)
    BY <2>4, <2>6
  <2> QED BY <2>2, <2>7, Zenon
<1> DEFINE iter == CHOOSE f : Solves(f, n)
<1>4. Solves(iter, n)
  <2> HIDE DEF Solves
  <2> QED BY <1>3, Zenon
<1>5. Walked(b, s) = iter[1 .. n]
  BY Zenon DEF Walked, FoldLeft, MapThenFoldSet
<1> DEFINE acc == [k \in 0 .. n |-> iter[1 .. k]]
<1> HIDE DEF iter
<1>6. \A t \in SUBSET (1 .. n) : iter[t] = Value(iter, t)
  BY <1>4, Zenon
<1>7. acc[0] = b
  <2>1. 1 .. 0 = {} /\ {} \in SUBSET (1 .. n) /\ 0 \in 0 .. n
    OBVIOUS
  <2>2. iter[{}] = b
    BY <1>6, <2>1, Zenon
  <2> QED BY <2>1, <2>2, Zenon
<1>8. ASSUME NEW k \in 1 .. n PROVE acc[k] = WalkStep(acc[k - 1], s[k])
  <2>1. /\ k \in 0 .. n /\ k - 1 \in 0 .. n /\ 1 .. k \in SUBSET (1 .. n) /\ 1 .. k # {}
        /\ (1 .. k) \ {k} = 1 .. (k - 1)
    <3>1. k \in 0 .. n /\ k - 1 \in 0 .. n /\ k \in 1 .. k
      OBVIOUS
    <3>2. \A i \in 1 .. k : i \in 1 .. n
      OBVIOUS
    <3>3. \A i : i \in (1 .. k) \ {k} <=> i \in 1 .. (k - 1)
      OBVIOUS
    <3> QED BY <3>1, <3>2, <3>3, Zenon
  <2>2. Max(1 .. k) = k
    BY MaxIsLast
  <2>3. iter[1 .. k] = WalkStep(iter[1 .. (k - 1)], s[k])
    BY <1>6, <2>1, <2>2, Zenon
  <2> QED BY <2>1, <2>3, Zenon
<1>9. acc[n] = iter[1 .. n]
  <2>1. n \in 0 .. n
    OBVIOUS
  <2> QED BY <2>1, Zenon
<1> QED BY <1>5, <1>7, <1>8, <1>9, Zenon

\* What the lengths of segments add up to.
Total(s) == FoldLeft(LAMBDA n, e : n + e[2], 0, s)

(* The lengths of n segments, added up one by one. *)
LEMMA TotalFold ==
    ASSUME NEW n \in Nat, NEW s, DOMAIN s = 1 .. n
    PROVE  \E acc : /\ acc[0] = 0
                    /\ \A k \in 1 .. n : acc[k] = acc[k - 1] + s[k][2]
                    /\ Total(s) = acc[n]
<1> DEFINE Value(f, t) == IF t = {} THEN 0 ELSE f[t \ {Max(t)}] + s[Max(t)][2]
           Solves(f, m) == f = [t \in SUBSET (1 .. m) |-> Value(f, t)]
           Bad == {m \in Nat : ~ \E f : Solves(f, m)}
<1>1. \E f : Solves(f, 0)
  <2> DEFINE f == [t \in SUBSET (1 .. 0) |-> 0]
  <2>1. \A t \in SUBSET (1 .. 0) : t = {}
    OBVIOUS
  <2>2. \A t \in SUBSET (1 .. 0) : Value(f, t) = 0
    BY <2>1, Zenon
  <2>3. Solves(f, 0)
    BY <2>2, Zenon
  <2> QED BY <2>3, Zenon
<1>2. ASSUME NEW m \in Nat, \E f : Solves(f, m)
      PROVE  \E f : Solves(f, m + 1)
  <2>1. PICK f : Solves(f, m)
    BY <1>2, Zenon
  <2> DEFINE g == [t \in SUBSET (1 .. m + 1) |->
                     IF m + 1 \in t THEN f[t \ {m + 1}] + s[m + 1][2] ELSE f[t]]
  <2>2. ASSUME NEW t \in SUBSET (1 .. m + 1) PROVE g[t] = Value(g, t)
    <3>1. CASE m + 1 \in t
      <4>1. Max(t) = m + 1 /\ t # {} /\ t \ {m + 1} \in SUBSET (1 .. m + 1) /\ m + 1 \notin t \ {m + 1}
        BY <3>1, MaxIsLast
      <4>2. g[t \ {m + 1}] = f[t \ {m + 1}]
        BY <4>1, Zenon
      <4>3. g[t] = f[t \ {m + 1}] + s[m + 1][2]
        BY <3>1, Zenon
      <4> QED BY <4>1, <4>2, <4>3, Zenon
    <3>2. CASE m + 1 \notin t
      <4>1. /\ t \in SUBSET (1 .. m)
            /\ t \ {Max(t)} \in SUBSET (1 .. m + 1) /\ m + 1 \notin t \ {Max(t)}
        <5>1. \A i \in 1 .. m + 1 : i # m + 1 => i \in 1 .. m
          OBVIOUS
        <5> QED BY <3>2, <5>1, Zenon
      <4>2. g[t] = f[t] /\ g[t \ {Max(t)}] = f[t \ {Max(t)}]
        BY <3>2, <4>1, Zenon
      <4>3. f[t] = Value(f, t)
        BY <2>1, <4>1, Zenon
      <4> QED BY <4>2, <4>3, Zenon
    <3> QED BY <3>1, <3>2
  <2>3. g = [t \in SUBSET (1 .. m + 1) |-> Value(g, t)]
    <3>1. g = [t \in SUBSET (1 .. m + 1) |-> g[t]]
      BY Zenon
    <3> HIDE DEF g, Value
    <3> QED BY <2>2, <3>1, Zenon
  <2> QED BY <2>3, Zenon
<1>3. \E f : Solves(f, n)
  <2> SUFFICES ASSUME ~ \E f : Solves(f, n) PROVE FALSE
    OBVIOUS
  <2> HIDE DEF Solves
  <2>1. Bad # {} /\ Bad \subseteq Nat
    BY Zenon
  <2>2. PICK m \in Bad : \A y \in Bad : m <= y
    BY <2>1, LeastNumber
  <2>3. m \in Nat /\ m # 0
    BY <1>1, <2>2
  <2>4. m - 1 \in Nat /\ m - 1 \notin Bad /\ (m - 1) + 1 = m
    BY <2>2, <2>3
  <2>5. \E f : Solves(f, m - 1)
    BY <2>4, Zenon
  <2>6. \E f : Solves(f, (m - 1) + 1)
    BY <1>2, <2>4, <2>5
  <2>7. \E f : Solves(f, m)
    BY <2>4, <2>6
  <2> QED BY <2>2, <2>7, Zenon
<1> DEFINE iter == CHOOSE f : Solves(f, n)
<1>4. Solves(iter, n)
  <2> HIDE DEF Solves
  <2> QED BY <1>3, Zenon
<1>5. Total(s) = iter[1 .. n]
  BY Zenon DEF Total, FoldLeft, MapThenFoldSet
<1> DEFINE acc == [k \in 0 .. n |-> iter[1 .. k]]
<1> HIDE DEF iter
<1>6. \A t \in SUBSET (1 .. n) : iter[t] = Value(iter, t)
  BY <1>4, Zenon
<1>7. acc[0] = 0
  <2>1. 1 .. 0 = {} /\ {} \in SUBSET (1 .. n) /\ 0 \in 0 .. n
    OBVIOUS
  <2>2. iter[{}] = 0
    BY <1>6, <2>1, Zenon
  <2> QED BY <2>1, <2>2, Zenon
<1>8. ASSUME NEW k \in 1 .. n PROVE acc[k] = acc[k - 1] + s[k][2]
  <2>1. /\ k \in 0 .. n /\ k - 1 \in 0 .. n /\ 1 .. k \in SUBSET (1 .. n) /\ 1 .. k # {}
        /\ (1 .. k) \ {k} = 1 .. (k - 1)
    <3>1. k \in 0 .. n /\ k - 1 \in 0 .. n /\ k \in 1 .. k
      OBVIOUS
    <3>2. \A i \in 1 .. k : i \in 1 .. n
      OBVIOUS
    <3>3. \A i : i \in (1 .. k) \ {k} <=> i \in 1 .. (k - 1)
      OBVIOUS
    <3> QED BY <3>1, <3>2, <3>3, Zenon
  <2>2. Max(1 .. k) = k
    BY MaxIsLast
  <2>3. iter[1 .. k] = iter[1 .. (k - 1)] + s[k][2]
    BY <1>6, <2>1, <2>2, Zenon
  <2> QED BY <2>1, <2>3, Zenon
<1>9. acc[n] = iter[1 .. n]
  <2>1. n \in 0 .. n
    OBVIOUS
  <2> QED BY <2>1, Zenon
<1> QED BY <1>5, <1>7, <1>8, <1>9, Zenon

\* Segments <<info, length>>.
Infos == [off : Nat, len : Nat, valid : BOOLEAN]
Segments == Infos \X Nat

(* One more segment adds its length. *)
LEMMA TotalAppend ==
    ASSUME NEW s \in Seq(Segments), NEW e \in Segments
    PROVE  /\ Total(s) \in Nat
           /\ Total(Append(s, e)) = Total(s) + e[2]
<1> DEFINE n == Len(s)
           u == Append(s, e)
<1>1. /\ n \in Nat /\ DOMAIN s = 1 .. n /\ DOMAIN u = 1 .. (n + 1)
      /\ \A k \in 1 .. n : u[k] = s[k] /\ s[k][2] \in Nat
      /\ u[n + 1] = e
  <2>1. s \in [1 .. n -> Segments] /\ n \in Nat /\ DOMAIN s = 1 .. n
    BY LenProperties
  <2>2. u \in Seq(Segments) /\ Len(u) = n + 1 /\ u[n + 1] = e /\ \A k \in 1 .. n : u[k] = s[k]
    BY AppendProperties
  <2>3. DOMAIN u = 1 .. (n + 1)
    BY <2>2, LenProperties
  <2>4. \A k \in 1 .. n : s[k] \in Segments
    BY <2>1
  <2>5. \A k \in 1 .. n : s[k][2] \in Nat
    BY <2>4 DEF Segments
  <2> QED BY <2>1, <2>2, <2>3, <2>5
<1>2. PICK a : a[0] = 0 /\ (\A k \in 1 .. n : a[k] = a[k - 1] + s[k][2]) /\ Total(s) = a[n]
  BY <1>1, TotalFold
<1>3. PICK c : /\ c[0] = 0 /\ (\A k \in 1 .. (n + 1) : c[k] = c[k - 1] + u[k][2])
               /\ Total(u) = c[n + 1]
  <2>1. n + 1 \in Nat
    BY <1>1
  <2> HIDE DEF n, u
  <2> QED BY <1>1, <2>1, TotalFold
<1> HIDE DEF n, u
<1> DEFINE Bad == {k \in 0 .. n : ~(c[k] = a[k] /\ a[k] \in Nat)}
<1>4. Bad = {}
  <2> SUFFICES ASSUME Bad # {} PROVE FALSE
    OBVIOUS
  <2>1. Bad \subseteq Nat
    BY <1>1
  <2>2. PICK k \in Bad : \A y \in Bad : k <= y
    BY <2>1, LeastNumber
  <2>3. k \in 1 .. n
    BY <1>1, <1>2, <1>3, <2>2
  <2>4. k - 1 \in 0 .. n /\ k - 1 \notin Bad /\ k \in 1 .. (n + 1)
    BY <1>1, <2>2, <2>3
  <2>5. c[k - 1] = a[k - 1] /\ a[k - 1] \in Nat
    BY <2>4
  <2>6. a[k] = a[k - 1] + s[k][2] /\ c[k] = c[k - 1] + s[k][2] /\ s[k][2] \in Nat
    BY <1>1, <1>2, <1>3, <2>3, <2>4
  <2> QED BY <2>2, <2>5, <2>6
<1>5. c[n] = a[n] /\ a[n] \in Nat
  <2>1. n \in 0 .. n
    BY <1>1
  <2> QED BY <1>4, <2>1
<1>6. n + 1 \in 1 .. (n + 1) /\ (n + 1) - 1 = n
  BY <1>1
<1>7. c[n + 1] = c[n] + e[2]
  <2>1. c[n + 1] = c[(n + 1) - 1] + u[n + 1][2]
    BY <1>3, <1>6
  <2> QED BY <1>1, <1>6, <2>1
<1> QED BY <1>2, <1>3, <1>5, <1>7 DEF u

(* No segments have no bytes. *)
LEMMA TotalEmpty == Total(<<>>) = 0
<1>1. DOMAIN <<>> = 1 .. 0
  OBVIOUS
<1> QED BY <1>1, TotalFold
-----------------------------------------------------------------------------
(* dedup_range *)

\* The segments s cut the len bytes from off on, each inside its info.
Tiles(off, len, s) ==
    /\ Total(s) = len
    /\ \A i \in 1 .. Len(s) :
         /\ s[i][1].off <= off + Total(SubSeq(s, 1, i - 1))
         /\ off + Total(SubSeq(s, 1, i - 1)) + s[i][2] <= End(s[i][1])

(* One more segment, where the others end. *)
LEMMA TilesAppend ==
    ASSUME NEW off \in Nat, NEW len \in Nat, NEW s \in Seq(Segments), NEW e \in Segments,
           Tiles(off, len, s), e[1].off <= off + len, off + len + e[2] <= End(e[1])
    PROVE  Tiles(off, len + e[2], Append(s, e))
<1> DEFINE u == Append(s, e)
<1>1. /\ Len(s) \in Nat /\ Len(u) = Len(s) + 1 /\ u[Len(s) + 1] = e
      /\ \A i \in 1 .. Len(s) : u[i] = s[i]
  BY AppendProperties, LenProperties
<1>2. Total(u) = len + e[2]
  BY TotalAppend DEF Tiles
<1>3. ASSUME NEW i \in 1 .. (Len(s) + 1) PROVE SubSeq(u, 1, i - 1) = SubSeq(s, 1, i - 1)
  <2>1. \A j \in 1 .. (i - 1) : u[j] = s[j]
    BY <1>1
  <2> HIDE DEF u
  <2> QED BY <1>1, <2>1
<1>4. SubSeq(s, 1, (Len(s) + 1) - 1) = s
  BY <1>1, SubSeqFull
<1> HIDE DEF u
<1>5. ASSUME NEW i \in 1 .. Len(u)
      PROVE  /\ u[i][1].off <= off + Total(SubSeq(u, 1, i - 1))
             /\ off + Total(SubSeq(u, 1, i - 1)) + u[i][2] <= End(u[i][1])
  <2>1. CASE i \in 1 .. Len(s)
    BY <1>1, <1>3, <2>1 DEF Tiles
  <2>2. CASE i = Len(s) + 1
    <3>1. SubSeq(u, 1, i - 1) = s /\ u[i] = e
      BY <1>1, <1>3, <1>4, <2>2
    <3> QED BY <3>1 DEF Tiles
  <2> QED BY <1>1, <2>1, <2>2
<1> QED BY <1>2, <1>5 DEF Tiles, u

(* No segments cut an empty request. *)
LEMMA TilesEmpty ==
    ASSUME NEW off \in Nat
    PROVE  Tiles(off, 0, <<>>)
  BY TotalEmpty DEF Tiles

\* The records there may be in IndexDB.
Recorded == [off : Nat, len : Nat, valid : {TRUE}]

(* The fields of a record. *)
LEMMA RecordedFields ==
    ASSUME NEW r \in Recorded
    PROVE  /\ r.off \in Nat /\ r.len \in Nat /\ r.valid = TRUE /\ End(r) \in Nat
           /\ r = [off |-> r.off, len |-> r.len, valid |-> r.valid]
<1>1. r \in [off : Nat, len : Nat, valid : {TRUE}]
  BY DEF Recorded
<1>2. r.off \in Nat /\ r.len \in Nat /\ r.valid \in {TRUE}
  BY <1>1, Zenon
<1>3. r = [off |-> r.off, len |-> r.len, valid |-> r.valid]
  BY <1>1
<1>4. End(r) \in Nat
  BY <1>2 DEF End
<1> QED BY <1>2, <1>3, <1>4, Zenon

(* Some record has a lower key than all the others. *)
LEMMA LeastKey ==
    ASSUME NEW R \in SUBSET Recorded, R # {}
    PROVE  \E r \in R : \A s \in R : s # r => KeyLess(Key(r), Key(s))
<1> DEFINE Ends == {End(r) : r \in R}
<1>1. \A r \in R : r.off \in Nat /\ r.len \in Nat /\ End(r) \in Nat
  BY RecordedFields
<1>2. Ends \subseteq Nat /\ Ends # {}
  BY <1>1
<1>3. PICK e \in Ends : \A y \in Ends : e <= y
  <2> HIDE DEF Ends
  <2> QED BY <1>2, LeastNumber
<1> DEFINE Starts == {r.off : r \in {q \in R : End(q) = e}}
<1>4. Starts \subseteq Nat /\ Starts # {}
  BY <1>1, <1>3
<1>5. PICK o \in Starts : \A y \in Starts : o <= y
  <2> HIDE DEF Starts
  <2> QED BY <1>4, LeastNumber
<1>6. PICK r \in R : End(r) = e /\ r.off = o
  BY <1>5
<1>7. ASSUME NEW s \in R, s # r PROVE KeyLess(Key(r), Key(s))
  <2>1. End(s) >= e /\ e \in Nat /\ o \in Nat
    BY <1>2, <1>3, <1>4, <1>5
  <2>2. CASE End(s) = e
    <3>1. s.off >= o
      BY <1>5, <2>2
    <3>2. s.off # o
      <4> SUFFICES ASSUME s.off = o PROVE FALSE
        OBVIOUS
      <4>1. s.len = r.len
        BY <1>1, <1>6, <2>2 DEF End
      <4>2. s.valid = r.valid
        BY RecordedFields
      <4>3. /\ s = [off |-> s.off, len |-> s.len, valid |-> s.valid]
            /\ r = [off |-> r.off, len |-> r.len, valid |-> r.valid]
        BY RecordedFields
      <4> QED BY <1>6, <1>7, <4>1, <4>2, <4>3, Zenon
    <3> QED BY <1>1, <1>6, <2>1, <2>2, <3>1, <3>2 DEF KeyLess, Key
  <2>3. CASE End(s) # e
    BY <1>1, <1>6, <2>1, <2>3 DEF KeyLess, Key
  <2> QED BY <2>2, <2>3
<1> QED BY <1>7

\* The n records of R in the order of their keys.
Sorts(w, n, R) ==
    /\ w \in [1 .. n -> R]
    /\ \A i, j \in 1 .. n : i < j => KeyLess(Key(w[i]), Key(w[j]))

(* A least record in front of the sorted others. *)
LEMMA SortedExtend ==
    ASSUME NEW R, NEW n \in Nat, NEW r \in R, NEW w, Sorts(w, n, R \ {r}),
           \A s \in R : s # r => KeyLess(Key(r), Key(s))
    PROVE  \E g : Sorts(g, n + 1, R)
<1> DEFINE g == [i \in 1 .. (n + 1) |-> IF i = 1 THEN r ELSE w[i - 1]]
<1>1. \A i \in 1 .. (n + 1) : i # 1 => i - 1 \in 1 .. n
  OBVIOUS
<1>2. \A i \in 1 .. n : w[i] \in R /\ w[i] # r
  BY DEF Sorts
<1>3. g \in [1 .. (n + 1) -> R]
  BY <1>1, <1>2
<1>4. ASSUME NEW i \in 1 .. (n + 1), NEW j \in 1 .. (n + 1), i < j
      PROVE  KeyLess(Key(g[i]), Key(g[j]))
  <2>1. j # 1 /\ g[j] = w[j - 1] /\ j - 1 \in 1 .. n
    BY <1>1, <1>4
  <2>2. CASE i = 1
    <3>1. g[i] = r
      BY <2>2
    <3> HIDE DEF g
    <3> QED BY <1>2, <2>1, <3>1
  <2>3. CASE i # 1
    <3>1. g[i] = w[i - 1] /\ i - 1 \in 1 .. n /\ i - 1 < j - 1
      BY <1>1, <1>4, <2>3
    <3> HIDE DEF g
    <3> QED BY <2>1, <3>1 DEF Sorts
  <2> QED BY <2>2, <2>3
<1>5. Sorts(g, n + 1, R)
  <2> HIDE DEF g
  <2> QED BY <1>3, <1>4 DEF Sorts
<1> QED BY <1>5

(* Every finite set of records can be sorted by key. *)
LEMMA SortedExists ==
    ASSUME NEW R \in SUBSET Recorded, IsFiniteSet(R)
    PROVE  \E w : Sorts(w, Cardinality(R), R)
<1> DEFINE Fails(n) == \E S \in SUBSET Recorded :
                          IsFiniteSet(S) /\ Cardinality(S) = n /\ ~ \E w : Sorts(w, n, S)
           Bad == {n \in Nat : Fails(n)}
<1> SUFFICES ASSUME ~ \E w : Sorts(w, Cardinality(R), R) PROVE FALSE
  OBVIOUS
<1>1. Cardinality(R) \in Nat
  BY FS_CardinalityType
<1>2. Bad \subseteq Nat /\ Bad # {}
  <2>1. Cardinality(R) \in Bad
    BY <1>1
  <2> QED BY <2>1
<1>3. PICK n \in Bad : \A y \in Bad : n <= y
  <2> HIDE DEF Bad
  <2> QED BY <1>2, LeastNumber
<1>4. PICK S \in SUBSET Recorded :
        IsFiniteSet(S) /\ Cardinality(S) = n /\ ~ \E w : Sorts(w, n, S)
  BY <1>3
<1>5. n \in Nat /\ n # 0
  <2>1. n \in Nat
    BY <1>3
  <2>2. ASSUME n = 0 PROVE FALSE
    <3>1. [i \in 1 .. 0 |-> i] \in [1 .. 0 -> S]
      OBVIOUS
    <3>2. Sorts([i \in 1 .. 0 |-> i], 0, S)
      BY <3>1 DEF Sorts
    <3> QED BY <1>4, <2>2, <3>2
  <2> QED BY <2>1, <2>2
<1>6. S # {}
  BY <1>4, <1>5, FS_EmptySet
<1>7. PICK r \in S : \A s \in S : s # r => KeyLess(Key(r), Key(s))
  BY <1>6, LeastKey
<1>8. IsFiniteSet(S \ {r}) /\ Cardinality(S \ {r}) = n - 1
  BY <1>4, <1>7, FS_RemoveElement
<1>9. n - 1 \in Nat /\ n - 1 \notin Bad /\ (n - 1) + 1 = n
  BY <1>3, <1>5
<1>10. ~Fails(n - 1)
  BY <1>9
<1>11. PICK w : Sorts(w, n - 1, S \ {r})
  <2>1. S \ {r} \in SUBSET Recorded
    OBVIOUS
  <2> QED BY <1>8, <1>10, <2>1
<1>12. \E g : Sorts(g, (n - 1) + 1, S)
  BY <1>7, <1>9, <1>11, SortedExtend
<1> QED BY <1>4, <1>9, <1>12

(* The walk is such a sequence. *)
LEMMA WalkSorts ==
    ASSUME NEW off \in Nat, records \in SUBSET Recorded, IsFiniteSet(records)
    PROVE  LET R == {r \in records : ~KeyLess(Key(r), LowerKey(off))}
           IN  Cardinality(R) \in Nat /\ Sorts(Walk(off), Cardinality(R), R)
<1> DEFINE R == {r \in records : ~KeyLess(Key(r), LowerKey(off))}
           n == Cardinality(R)
           InOrder(w) == \A i, j \in 1 .. Len(w) : i < j => KeyLess(Key(w[i]), Key(w[j]))
<1>1. R \in SUBSET Recorded /\ IsFiniteSet(R)
  BY FS_Subset
<1>2. n \in Nat
  BY <1>1, FS_CardinalityType
<1>3. PICK w : Sorts(w, n, R)
  <2> HIDE DEF R
  <2> QED BY <1>1, SortedExists
<1>4. Walk(off) = CHOOSE x \in SetToSeqs(R) : InOrder(x)
  BY DEF Walk
<1> HIDE DEF R
<1>5. \A r \in R : ~KeyLess(Key(r), Key(r))
  <2>1. \A r \in R : End(r) \in Nat /\ r.off \in Nat
    BY <1>1, RecordedFields
  <2> QED BY <2>1 DEF KeyLess, Key
<1>6. SetToSeqs(R) = {f \in [1 .. n -> R] : \A i, j \in 1 .. n : i # j => f[i] # f[j]}
  BY DEF SetToSeqs
<1> HIDE DEF n
<1>7. \A f \in [1 .. n -> R] : Len(f) = n
  BY <1>2
<1>8. w \in SetToSeqs(R) /\ InOrder(w)
  <2>1. w \in [1 .. n -> R] /\ Len(w) = n
    BY <1>3, <1>7 DEF Sorts
  <2>2. ASSUME NEW i \in 1 .. n, NEW j \in 1 .. n, i # j PROVE w[i] # w[j]
    <3>1. i < j \/ j < i
      BY <1>2, <2>2
    <3>2. KeyLess(Key(w[i]), Key(w[j])) \/ KeyLess(Key(w[j]), Key(w[i]))
      BY <1>3, <3>1 DEF Sorts
    <3>3. w[i] \in R /\ w[j] \in R
      BY <2>1
    <3> QED BY <1>5, <3>2, <3>3
  <2>3. w \in SetToSeqs(R)
    BY <1>6, <2>1, <2>2
  <2>4. InOrder(w)
    BY <1>3, <2>1 DEF Sorts
  <2> QED BY <2>3, <2>4
<1>9. Walk(off) \in SetToSeqs(R) /\ InOrder(Walk(off))
  <2> HIDE DEF InOrder
  <2> QED BY <1>4, <1>8, Zenon
<1>10. Sorts(Walk(off), n, R)
  <2> DEFINE v == Walk(off)
  <2>1. v \in [1 .. n -> R] /\ Len(v) = n
    BY <1>6, <1>7, <1>9
  <2> HIDE DEF v
  <2>2. InOrder(v)
    BY <1>9 DEF v
  <2>3. Sorts(v, n, R)
    BY <2>1, <2>2 DEF Sorts
  <2> QED BY <2>3 DEF v
<1> QED BY <1>2, <1>10 DEF R, n

\* The loop's state cuts what it has gone through of the request.
Cut(off, len, acc) ==
    /\ acc \in [off : Nat, len : Nat, infos : Seq(Segments), done : BOOLEAN]
    /\ acc.off >= off
    /\ acc.off + acc.len = off + len
    /\ Tiles(off, acc.off - off, acc.infos)

(* A segment of x bytes is added where the loop stands. *)
LEMMA CutAppend ==
    ASSUME NEW off \in Nat, NEW len \in Nat, NEW acc, Cut(off, len, acc),
           NEW x \in Nat, x <= acc.len, NEW info \in Infos,
           info.off <= acc.off, acc.off + x <= End(info), NEW d \in BOOLEAN
    PROVE  Cut(off, len, [off |-> acc.off + x, len |-> acc.len - x,
                          infos |-> Append(acc.infos, <<info, x>>), done |-> d])
<1>1. /\ acc.off \in Nat /\ acc.len \in Nat /\ acc.infos \in Seq(Segments)
      /\ acc.off >= off /\ acc.off + acc.len = off + len
      /\ Tiles(off, acc.off - off, acc.infos)
  BY DEF Cut
<1> DEFINE e == <<info, x>>
           next == [off |-> acc.off + x, len |-> acc.len - x,
                    infos |-> Append(acc.infos, e), done |-> d]
<1>2. e \in Segments /\ e[1] = info /\ e[2] = x
  BY DEF Segments
<1>3. acc.off - off \in Nat /\ off + (acc.off - off) = acc.off
  BY <1>1
<1>4. Tiles(off, (acc.off - off) + e[2], Append(acc.infos, e))
  <2>1. e[1].off <= off + (acc.off - off) /\ off + (acc.off - off) + e[2] <= End(e[1])
    BY <1>2, <1>3
  <2> HIDE DEF e
  <2> QED BY <1>1, <1>2, <1>3, <2>1, TilesAppend
<1>5. Append(acc.infos, e) \in Seq(Segments)
  <2> HIDE DEF e
  <2> QED BY <1>1, <1>2, AppendProperties
<1>6. (acc.off - off) + e[2] = (acc.off + x) - off
  BY <1>1, <1>2
<1> HIDE DEF e
<1>7. /\ next.off = acc.off + x /\ next.len = acc.len - x /\ next.infos = Append(acc.infos, e)
      /\ next.off \in Nat /\ next.len \in Nat /\ next.off >= off
      /\ next.off + next.len = off + len
  <2>1. /\ next.off = acc.off + x /\ next.len = acc.len - x /\ next.infos = Append(acc.infos, e)
    OBVIOUS
  <2>2. /\ acc.off + x \in Nat /\ acc.len - x \in Nat /\ acc.off + x >= off
        /\ (acc.off + x) + (acc.len - x) = off + len
    BY <1>1
  <2> HIDE DEF next
  <2> QED BY <2>1, <2>2
<1>8. next \in [off : Nat, len : Nat, infos : Seq(Segments), done : BOOLEAN]
  BY <1>1, <1>5
<1>9. Tiles(off, next.off - off, next.infos)
  BY <1>4, <1>6, <1>7
<1>10. Cut(off, len, next)
  <2> HIDE DEF next
  <2> QED BY <1>7, <1>8, <1>9 DEF Cut
<1> QED BY <1>10 DEF next, e

(* The loop's state with some of its fields changed. *)
LEMMA Changed ==
    ASSUME NEW acc \in [off : Nat, len : Nat, infos : Seq(Segments), done : BOOLEAN],
           NEW x, NEW e, NEW d
    PROVE  [[acc EXCEPT !.off = @ + x, !.len = @ - x, !.infos = Append(@, e)] EXCEPT !.done = d]
             = [off |-> acc.off + x, len |-> acc.len - x, infos |-> Append(acc.infos, e),
                done |-> d]
<1> DEFINE b == [acc EXCEPT !.off = @ + x, !.len = @ - x, !.infos = Append(@, e)]
           f == [off |-> acc.off + x, len |-> acc.len - x, infos |-> Append(acc.infos, e),
                 done |-> d]
           c == [b EXCEPT !.done = d]
<1>1. DOMAIN acc = {"off", "len", "infos", "done"}
  OBVIOUS
<1>2. DOMAIN c = {"off", "len", "infos", "done"} /\ DOMAIN f = {"off", "len", "infos", "done"}
  BY <1>1
<1>3. c.off = f.off /\ c.len = f.len /\ c.infos = f.infos /\ c.done = f.done
  BY <1>1
<1>4. c = [i \in DOMAIN c |-> c[i]] /\ f = [i \in DOMAIN f |-> f[i]]
  OBVIOUS
<1> HIDE DEF c, f
<1>5. c = f
  BY <1>2, <1>3, <1>4
<1> QED BY <1>5 DEF c, f

(* What one record does to the loop's state: nothing, a gap up to it, or    *)
(* what the request has of it.                                              *)
LEMMA WalkStepCases ==
    ASSUME NEW acc \in [off : Nat, len : Nat, infos : Seq(Segments), done : BOOLEAN],
           NEW v \in Recorded
    PROVE  \/ /\ acc.done \/ (v.off <= acc.off /\ End(v) <= acc.off)
              /\ WalkStep(acc, v) = acc
           \/ /\ ~acc.done /\ v.off > acc.off
              /\ \E x \in Nat, d \in BOOLEAN :
                   /\ x = Minimum(v.off - acc.off, acc.len)
                   /\ d = (acc.len - x = 0 \/ v.off >= acc.off + acc.len)
                   /\ WalkStep(acc, v) =
                        [off |-> acc.off + x, len |-> acc.len - x,
                         infos |-> Append(acc.infos, <<Gap(acc.off, x), x>>), done |-> d]
           \/ /\ ~acc.done /\ v.off <= acc.off /\ End(v) > acc.off
              /\ \E x \in Nat, d \in BOOLEAN :
                   /\ x = Minimum(End(v) - acc.off, acc.len)
                   /\ d = (acc.len - x = 0 \/ v.off >= acc.off + acc.len)
                   /\ WalkStep(acc, v) =
                        [off |-> acc.off + x, len |-> acc.len - x,
                         infos |-> Append(acc.infos, <<v, x>>), done |-> d]
<1>1. /\ acc.off \in Nat /\ acc.len \in Nat /\ acc.done \in BOOLEAN
      /\ v.off \in Nat /\ End(v) \in Nat
  BY RecordedFields
<1>2. CASE acc.done \/ (v.off <= acc.off /\ End(v) <= acc.off)
  BY <1>2 DEF WalkStep
<1>5. /\ v.off > acc.off => ~(v.off <= acc.off)
      /\ End(v) > acc.off => ~(End(v) <= acc.off)
      /\ v.off <= acc.off => ~(v.off > acc.off)
      /\ v.off > acc.off \/ v.off <= acc.off
      /\ End(v) > acc.off \/ End(v) <= acc.off
  BY <1>1
<1>3. CASE ~acc.done /\ v.off > acc.off
  <2> DEFINE x == Minimum(v.off - acc.off, acc.len)
             d == acc.len - x = 0 \/ v.off >= acc.off + acc.len
             b == [acc EXCEPT !.off = @ + x, !.len = @ - x, !.infos = Append(@, <<Gap(acc.off, x), x>>)]
  <2>1. x \in Nat /\ x <= acc.len
    BY <1>1, <1>3 DEF Minimum
  <2>2. WalkStep(acc, v) = [b EXCEPT !.done = b.len = 0 \/ v.off >= b.off + b.len]
    BY <1>3, <1>5 DEF WalkStep
  <2> HIDE DEF x
  <2>3. b.off = acc.off + x /\ b.len = acc.len - x
    OBVIOUS
  <2> HIDE DEF b
  <2>4. (b.len = 0 \/ v.off >= b.off + b.len) = d
    <3>1. b.off + b.len = acc.off + acc.len
      BY <1>1, <2>1, <2>3
    <3> QED BY <2>3, <3>1
  <2>5. WalkStep(acc, v) = [b EXCEPT !.done = d]
    BY <2>2, <2>4, Zenon
  <2>6. [b EXCEPT !.done = d] = [off |-> acc.off + x, len |-> acc.len - x,
                                 infos |-> Append(acc.infos, <<Gap(acc.off, x), x>>), done |-> d]
    <3> DEFINE e == <<Gap(acc.off, x), x>>
    <3> HIDE DEF d, e
    <3>1. [[acc EXCEPT !.off = @ + x, !.len = @ - x, !.infos = Append(@, e)] EXCEPT !.done = d]
            = [off |-> acc.off + x, len |-> acc.len - x, infos |-> Append(acc.infos, e), done |-> d]
      BY Changed
    <3> QED BY <3>1 DEF b, e
  <2>7. d \in BOOLEAN
    OBVIOUS
  <2> HIDE DEF d
  <2> QED BY <1>3, <2>1, <2>5, <2>6, <2>7, Zenon DEF x, d
<1>4. CASE ~acc.done /\ v.off <= acc.off /\ End(v) > acc.off
  <2> DEFINE x == Minimum(End(v) - acc.off, acc.len)
             d == acc.len - x = 0 \/ v.off >= acc.off + acc.len
             b == [acc EXCEPT !.off = @ + x, !.len = @ - x, !.infos = Append(@, <<v, x>>)]
  <2>1. x \in Nat /\ x <= acc.len
    BY <1>1, <1>4 DEF Minimum
  <2>2. WalkStep(acc, v) = [b EXCEPT !.done = b.len = 0 \/ v.off >= b.off + b.len]
    BY <1>4, <1>5 DEF WalkStep
  <2> HIDE DEF x
  <2>3. b.off = acc.off + x /\ b.len = acc.len - x
    OBVIOUS
  <2> HIDE DEF b
  <2>4. (b.len = 0 \/ v.off >= b.off + b.len) = d
    <3>1. b.off + b.len = acc.off + acc.len
      BY <1>1, <2>1, <2>3
    <3> QED BY <2>3, <3>1
  <2>5. WalkStep(acc, v) = [b EXCEPT !.done = d]
    BY <2>2, <2>4, Zenon
  <2>6. [b EXCEPT !.done = d] = [off |-> acc.off + x, len |-> acc.len - x,
                                 infos |-> Append(acc.infos, <<v, x>>), done |-> d]
    <3> DEFINE e == <<v, x>>
    <3> HIDE DEF d, e
    <3>1. [[acc EXCEPT !.off = @ + x, !.len = @ - x, !.infos = Append(@, e)] EXCEPT !.done = d]
            = [off |-> acc.off + x, len |-> acc.len - x, infos |-> Append(acc.infos, e), done |-> d]
      BY Changed
    <3> QED BY <3>1 DEF b, e
  <2>7. d \in BOOLEAN
    OBVIOUS
  <2> HIDE DEF d
  <2> QED BY <1>4, <2>1, <2>5, <2>6, <2>7, Zenon DEF x, d
<1> QED BY <1>2, <1>3, <1>4, <1>5, Zenon

(* Every turn of the loop goes on cutting. *)
LEMMA WalkStepCuts ==
    ASSUME NEW off \in Nat, NEW len \in Nat, NEW acc, Cut(off, len, acc), NEW v \in Recorded
    PROVE  Cut(off, len, WalkStep(acc, v))
<1>1. /\ acc \in [off : Nat, len : Nat, infos : Seq(Segments), done : BOOLEAN]
      /\ acc.off \in Nat /\ acc.len \in Nat
  BY DEF Cut
<1>2. v.off \in Nat /\ End(v) \in Nat /\ v \in Infos
  BY RecordedFields DEF Recorded, Infos
<1>3. ASSUME v.off > acc.off, NEW x \in Nat, NEW d \in BOOLEAN,
             x = Minimum(v.off - acc.off, acc.len),
             WalkStep(acc, v) = [off |-> acc.off + x, len |-> acc.len - x,
                                 infos |-> Append(acc.infos, <<Gap(acc.off, x), x>>), done |-> d]
      PROVE  Cut(off, len, WalkStep(acc, v))
  <2>1. x <= acc.len
    BY <1>1, <1>2, <1>3 DEF Minimum
  <2>2. /\ Gap(acc.off, x) \in Infos /\ Gap(acc.off, x).off = acc.off
        /\ End(Gap(acc.off, x)) = acc.off + x
    BY <1>1 DEF Gap, Infos, End
  <2>3. acc.off \in Nat /\ Gap(acc.off, x).off <= acc.off /\ acc.off + x <= End(Gap(acc.off, x))
    BY <1>1, <2>2
  <2>4. Cut(off, len, [off |-> acc.off + x, len |-> acc.len - x,
                       infos |-> Append(acc.infos, <<Gap(acc.off, x), x>>), done |-> d])
    BY <2>1, <2>2, <2>3, CutAppend, Zenon
  <2> QED BY <1>3, <2>4, Zenon
<1>4. ASSUME v.off <= acc.off, End(v) > acc.off, NEW x \in Nat, NEW d \in BOOLEAN,
             x = Minimum(End(v) - acc.off, acc.len),
             WalkStep(acc, v) = [off |-> acc.off + x, len |-> acc.len - x,
                                 infos |-> Append(acc.infos, <<v, x>>), done |-> d]
      PROVE  Cut(off, len, WalkStep(acc, v))
  <2>1. x <= acc.len /\ acc.off + x <= End(v)
    BY <1>1, <1>2, <1>4 DEF Minimum
  <2>2. Cut(off, len, [off |-> acc.off + x, len |-> acc.len - x,
                       infos |-> Append(acc.infos, <<v, x>>), done |-> d])
    BY <1>2, <1>4, <2>1, CutAppend, Zenon
  <2> QED BY <1>4, <2>2, Zenon
<1> QED BY <1>1, <1>3, <1>4, WalkStepCases

(* dedup_range returns segments that are the request. *)
LEMMA LookupTiles ==
    ASSUME NEW off \in Nat, NEW len \in Nat, records \in SUBSET Recorded, IsFiniteSet(records)
    PROVE  /\ LookupRange(off, len) \in Seq(Segments)
           /\ Tiles(off, len, LookupRange(off, len))
<1> DEFINE base == [off |-> off, len |-> len, infos |-> <<>>, done |-> len = 0]
           w == Walk(off)
           last == Walked(base, w)
           R == {r \in records : ~KeyLess(Key(r), LowerKey(off))}
           n == Cardinality(R)
<1>1. n \in Nat /\ Sorts(w, n, R)
  BY WalkSorts
<1> HIDE DEF w, n
<1>2. DOMAIN w = 1 .. n /\ \A k \in 1 .. n : w[k] \in Recorded
  BY <1>1 DEF Sorts
<1> HIDE DEF R
<1>3. PICK acc : /\ acc[0] = base
                 /\ \A k \in 1 .. n : acc[k] = WalkStep(acc[k - 1], w[k])
                 /\ last = acc[n]
  <2> HIDE DEF base
  <2> QED BY <1>1, <1>2, WalkFold
<1>4. Cut(off, len, base)
  <2>1. /\ base \in [off : Nat, len : Nat, infos : Seq(Segments), done : BOOLEAN]
        /\ base.off = off /\ base.len = len /\ base.infos = <<>>
    BY EmptySeq
  <2> HIDE DEF base
  <2>2. base.off - off = 0
    BY <2>1
  <2> QED BY <2>1, <2>2, TilesEmpty DEF Cut
<1> DEFINE Bad == {k \in 0 .. n : ~Cut(off, len, acc[k])}
<1>5. Bad = {}
  <2> SUFFICES ASSUME Bad # {} PROVE FALSE
    OBVIOUS
  <2> HIDE DEF base
  <2>1. Bad \subseteq Nat
    BY <1>1
  <2>2. PICK k \in Bad : \A y \in Bad : k <= y
    <3> HIDE DEF Bad
    <3> QED BY <2>1, LeastNumber
  <2>3. k \in 1 .. n
    BY <1>1, <1>3, <1>4, <2>2
  <2>4. k - 1 \in 0 .. n /\ k - 1 \notin Bad
    BY <1>1, <2>2, <2>3
  <2>5. Cut(off, len, acc[k - 1])
    BY <2>4
  <2>6. acc[k] = WalkStep(acc[k - 1], w[k]) /\ w[k] \in Recorded
    BY <1>2, <1>3, <2>3
  <2>7. Cut(off, len, acc[k])
    BY <2>5, <2>6, WalkStepCuts
  <2> QED BY <2>2, <2>7
<1>6. Cut(off, len, last)
  <2>1. n \in 0 .. n
    BY <1>1
  <2> HIDE DEF last
  <2> QED BY <1>3, <1>5, <2>1
<1>7. LookupRange(off, len) = last.infos \o Rest(last)
  BY Zenon DEF LookupRange, Walked, w
<1> HIDE DEF last, base
<1>8. /\ last.off \in Nat /\ last.len \in Nat /\ last.infos \in Seq(Segments)
      /\ last.off + last.len = off + len /\ Tiles(off, last.off - off, last.infos)
      /\ last.off >= off
  BY <1>6 DEF Cut
<1>9. CASE last.len = 0
  <2>1. LookupRange(off, len) = last.infos
    BY <1>7, <1>8, <1>9, ConcatEmptySeq DEF Rest
  <2>2. last.off - off = len
    BY <1>8, <1>9
  <2> QED BY <1>8, <2>1, <2>2
<1>10. CASE last.len # 0
  <2> DEFINE g == Gap(last.off, last.len)
             e == <<g, last.len>>
  <2>1. g \in Infos /\ g.off = last.off /\ End(g) = last.off + last.len
    BY <1>8 DEF Gap, Infos, End
  <2>2. e \in Segments /\ e[1] = g /\ e[2] = last.len
    BY <1>8, <2>1 DEF Segments
  <2>3. LookupRange(off, len) = last.infos \o <<e>>
    BY <1>7, <1>10 DEF Rest
  <2> HIDE DEF e, g
  <2>4. LookupRange(off, len) = Append(last.infos, e)
    BY <1>8, <2>2, <2>3, AppendIsConcat
  <2>5. last.off - off \in Nat /\ (last.off - off) + e[2] = len
        /\ e[1].off <= off + (last.off - off)
        /\ off + (last.off - off) + e[2] <= End(e[1])
    BY <1>8, <2>1, <2>2
  <2>6. Tiles(off, len, Append(last.infos, e))
    BY <1>8, <2>2, <2>5, TilesAppend
  <2>7. Append(last.infos, e) \in Seq(Segments)
    BY <1>8, <2>2, AppendProperties
  <2> QED BY <2>4, <2>6, <2>7
<1> QED BY <1>9, <1>10

(* SegmentsTile of a lookup's result. *)
LEMMA TilesTile ==
    ASSUME infos' \in Seq(Segments), Tiles(query'[1], query'[2], infos')
    PROVE  SegmentsTile'
<1>1. \A i : SegmentStart(i)' = query'[1] + Total(SubSeq(infos', 1, i - 1))
  BY DEF SegmentStart, Total, FoldLeft, MapThenFoldSet
<1>2. Len(infos') \in Nat /\ (Len(infos') + 1) - 1 = Len(infos') 
  BY LenProperties
<1>3. SubSeq(infos', 1, (Len(infos') + 1) - 1) = infos'
  BY <1>2, SubSeqFull
<1>4. SegmentStart(Len(infos) + 1)' = query'[1] + query'[2]
  BY <1>1, <1>3 DEF Tiles
<1> QED BY <1>1, <1>4 DEF SegmentsTile, Tiles
-----------------------------------------------------------------------------
(* What dedup_range finds *)

\* The records lie apart.
Disjoint ==
    /\ records \in SUBSET Recorded /\ IsFiniteSet(records)
    /\ \A r \in records : r.len > 0
    /\ \A r, s \in records : r # s => End(r) <= s.off \/ End(s) <= r.off

\* The bytes of the segments s that have a record, and those of one segment at off.
Bytes(off, e) == IF e[1].valid THEN off .. (off + e[2] - 1) ELSE {}
Found(off, s) == UNION {Bytes(off + Total(SubSeq(s, 1, i - 1)), s[i]) : i \in 1 .. Len(s)}

(* One more segment adds its bytes. *)
LEMMA FoundAppend ==
    ASSUME NEW off \in Nat, NEW s \in Seq(Segments), NEW e \in Segments
    PROVE  Found(off, Append(s, e)) = Found(off, s) \cup Bytes(off + Total(s), e)
<1> DEFINE u == Append(s, e)
           n == Len(s)
           At(i) == Bytes(off + Total(SubSeq(s, 1, i - 1)), s[i])
           Bt(i) == Bytes(off + Total(SubSeq(u, 1, i - 1)), u[i])
<1>1. /\ n \in Nat /\ Len(u) = n + 1 /\ u[n + 1] = e /\ \A i \in 1 .. n : u[i] = s[i]
  BY AppendProperties, LenProperties
<1>2. ASSUME NEW i \in 1 .. (n + 1) PROVE SubSeq(u, 1, i - 1) = SubSeq(s, 1, i - 1)
  <2>1. \A j \in 1 .. (i - 1) : u[j] = s[j]
    BY <1>1
  <2> HIDE DEF u, n
  <2> QED BY <1>1, <2>1
<1>3. SubSeq(s, 1, (n + 1) - 1) = s
  BY <1>1, SubSeqFull
<1> HIDE DEF u, n
<1>4. ASSUME NEW i \in 1 .. n PROVE Bt(i) = At(i)
  <2>1. i \in 1 .. (n + 1)
    BY <1>1
  <2>2. SubSeq(u, 1, i - 1) = SubSeq(s, 1, i - 1) /\ u[i] = s[i]
    BY <1>1, <1>2, <2>1
  <2> QED BY <2>2, Zenon
<1>5. Bt(n + 1) = Bytes(off + Total(s), e)
  <2>1. n + 1 \in 1 .. (n + 1)
    BY <1>1
  <2>2. SubSeq(u, 1, (n + 1) - 1) = s
    BY <1>2, <1>3, <2>1, Zenon
  <2> QED BY <1>1, <2>2, Zenon
<1>6. Found(off, u) = UNION {Bt(i) : i \in 1 .. (n + 1)} /\ Found(off, s) = UNION {At(i) : i \in 1 .. n}
  BY <1>1 DEF Found, n
<1>7. \A i : i \in 1 .. (n + 1) <=> i \in 1 .. n \/ i = n + 1
  BY <1>1
<1> HIDE DEF At, Bt
<1>8. UNION {Bt(i) : i \in 1 .. (n + 1)} = (UNION {Bt(i) : i \in 1 .. n}) \cup Bt(n + 1)
  BY <1>7
<1>9. UNION {Bt(i) : i \in 1 .. n} = UNION {At(i) : i \in 1 .. n}
  BY <1>4
<1> QED BY <1>5, <1>6, <1>8, <1>9 DEF u

\* A longer record ends with the byte at off.
Behind(off) == \E r \in records : End(r) = off + 1 /\ r.off < off

\* Up to g all bytes have a record, and the segments with a record are these bytes.
Prefix(off, len, s, g) ==
    /\ g \in off .. (off + len)
    /\ Found(off, s) = off .. (g - 1)
    /\ \A a \in off .. (g - 1) : Covered(a)
    /\ Behind(off) => g = off

\* The loop's state after the first k records of w: it has met no gap yet, ...
Unbroken(off, len, w, k, acc) ==
    /\ Prefix(off, len, acc.infos, acc.off)
    /\ ~acc.done => acc.len > 0 /\ \A j \in 1 .. k : End(w[j]) <= acc.off
    /\ acc.done => acc.len = 0

\* ... or the first one is at g.
Broken(off, len, w, k, acc) ==
    \E g \in off .. (off + len - 1) :
        /\ Prefix(off, len, acc.infos, g)
        /\ Covered(g) => Behind(off) /\ g = off
        /\ ~acc.done => k >= 1 /\ acc.off = w[k].off

\* w is the n records that are not below the lower key, from left to right.
Ordered(off, w, n) ==
    /\ DOMAIN w = 1 .. n
    /\ \A k \in 1 .. n : w[k] \in records /\ ~KeyLess(Key(w[k]), LowerKey(off))
    /\ \A i, j \in 1 .. n : i < j => End(w[i]) <= w[j].off
    /\ \A r \in records : (\E k \in 1 .. n : w[k] = r) \/ KeyLess(Key(r), LowerKey(off))

(* The order of the keys is that of the image, and the walk misses nothing. *)
LEMMA WalkOrdered ==
    ASSUME NEW off \in Nat, Disjoint
    PROVE  \E n \in Nat : Ordered(off, Walk(off), n)
<1> DEFINE R == {r \in records : ~KeyLess(Key(r), LowerKey(off))}
           w == Walk(off)
<1>1. R \in SUBSET Recorded /\ IsFiniteSet(R)
  BY FS_Subset DEF Disjoint
<1> DEFINE n == Cardinality(R)
<1>2. n \in Nat /\ Sorts(w, n, R)
  BY WalkSorts DEF Disjoint
<1>3. \A r \in R : r.off \in Nat /\ r.len \in Nat /\ End(r) \in Nat /\ r.off < End(r)
  <2>1. \A r \in R : r.off \in Nat /\ r.len \in Nat /\ End(r) \in Nat /\ r.len > 0
    BY <1>1, RecordedFields DEF Disjoint
  <2> QED BY <2>1 DEF End
<1> HIDE DEF w, n
<1>4. w \in [1 .. n -> R] /\ \A i, j \in 1 .. n : i < j => KeyLess(Key(w[i]), Key(w[j]))
  BY <1>2 DEF Sorts
<1>5. ASSUME NEW i \in 1 .. n, NEW j \in 1 .. n, i < j
      PROVE  End(w[i]) <= w[j].off /\ w[i] # w[j]
  <2>1. KeyLess(Key(w[i]), Key(w[j])) /\ w[i] \in R /\ w[j] \in R
    BY <1>4, <1>5
  <2>2. \/ End(w[i]) < End(w[j])
        \/ End(w[i]) = End(w[j]) /\ w[i].off < w[j].off
    BY <2>1 DEF KeyLess, Key
  <2>3. w[i] # w[j]
    BY <1>3, <2>1, <2>2
  <2>4. End(w[i]) <= w[j].off \/ End(w[j]) <= w[i].off
    BY <2>1, <2>3 DEF Disjoint
  <2>5. /\ w[i].off \in Nat /\ End(w[i]) \in Nat /\ w[i].off < End(w[i])
        /\ w[j].off \in Nat /\ End(w[j]) \in Nat /\ w[j].off < End(w[j])
    BY <1>3, <2>1
  <2> QED BY <2>2, <2>3, <2>4, <2>5
<1>6. w \in Injection(1 .. n, R)
  <2>1. \A i, j \in 1 .. n : w[i] = w[j] => i = j
    <3> TAKE i \in 1 .. n, j \in 1 .. n
    <3>1. i = j \/ i < j \/ j < i
      OBVIOUS
    <3> QED BY <1>5, <3>1
  <2> QED BY <1>4, <2>1 DEF Injection, IsInjective
<1>7. Cardinality(1 .. n) = Cardinality(R)
  BY <1>2, FS_Interval DEF n
<1>8. w \in Surjection(1 .. n, R)
  BY <1>1, <1>6, <1>7, FS_Injection
<1>9. \A r \in R : \E k \in 1 .. n : w[k] = r
  BY <1>8 DEF Surjection
<1>10. Ordered(off, w, n)
  BY <1>4, <1>5, <1>9 DEF Ordered
<1> QED BY <1>2, <1>10 DEF w

(* The extent of a record. *)
LEMMA Extent ==
    ASSUME Disjoint, NEW r \in records
    PROVE  /\ r.off \in Nat /\ r.len \in Nat /\ End(r) \in Nat /\ r.off < End(r)
           /\ r \in Recorded
<1>1. r \in Recorded /\ r.len > 0
  BY DEF Disjoint
<1>2. r.off \in Nat /\ r.len \in Nat /\ End(r) \in Nat
  BY <1>1, RecordedFields
<1> QED BY <1>1, <1>2 DEF End

(* Where the walk stands before a record that starts later, or at its end,  *)
(* no record is, but for one that the lower key has left out.               *)
LEMMA FirstGap ==
    ASSUME Disjoint, NEW off \in Nat, NEW n \in Nat, NEW w, Ordered(off, w, n),
           NEW k \in 0 .. n, NEW g \in Nat, g >= off,
           \A j \in 1 .. k : End(w[j]) <= g,
           k < n => w[k + 1].off > g,
           Covered(g)
    PROVE  Behind(off) /\ g = off
<1>1. PICK r \in records : r.off <= g /\ g < End(r)
  BY DEF Covered
<1>2. r.off \in Nat /\ End(r) \in Nat
  BY Extent
<1>3. ASSUME NEW j \in 1 .. n, w[j] = r PROVE FALSE
  <2>1. CASE j <= k
    <3>1. End(w[j]) <= g
      BY <2>1
    <3> QED BY <1>1, <1>2, <1>3, <3>1
  <2>2. CASE j = k + 1
    BY <1>1, <1>2, <1>3, <2>2
  <2>3. CASE j > k + 1
    <3>1. k + 1 \in 1 .. n /\ k < n
      BY <2>3
    <3>2. End(w[k + 1]) <= w[j].off /\ w[k + 1] \in records
      BY <2>3, <3>1 DEF Ordered
    <3>3. w[k + 1].off \in Nat /\ End(w[k + 1]) \in Nat /\ w[k + 1].off < End(w[k + 1])
      BY <3>2, Extent
    <3>4. w[k + 1].off > g
      BY <3>1
    <3> QED BY <1>1, <1>2, <1>3, <3>2, <3>3, <3>4
  <2> QED BY <2>1, <2>2, <2>3
<1>4. KeyLess(Key(r), LowerKey(off))
  BY <1>3 DEF Ordered
<1>5. End(r) < off + 1 \/ (End(r) = off + 1 /\ r.off < off)
  BY <1>4 DEF KeyLess, Key, LowerKey
<1>6. End(r) = off + 1 /\ r.off < off /\ g = off
  BY <1>1, <1>2, <1>5
<1> QED BY <1>6 DEF Behind

(* A record of the walk that has the byte at off is not hidden by another.  *)
LEMMA FirstRecord ==
    ASSUME Disjoint, NEW off \in Nat, NEW v \in records, ~KeyLess(Key(v), LowerKey(off)),
           v.off <= off, off < End(v)
    PROVE  ~Behind(off)
<1> SUFFICES ASSUME NEW r \in records, End(r) = off + 1, r.off < off PROVE FALSE
  BY DEF Behind
<1>1. KeyLess(Key(r), LowerKey(off))
  BY DEF KeyLess, Key, LowerKey
<1>2. v # r
  BY <1>1
<1>3. End(v) <= r.off \/ End(r) <= v.off
  BY <1>2 DEF Disjoint
<1>4. v.off \in Nat /\ End(v) \in Nat /\ r.off \in Nat /\ End(r) \in Nat
  BY Extent
<1> QED BY <1>3, <1>4

(* A gap adds nothing to what is found. *)
LEMMA PrefixGap ==
    ASSUME NEW off \in Nat, NEW len \in Nat, NEW s \in Seq(Segments), NEW g,
           Prefix(off, len, s, g), NEW o \in Nat, NEW x \in Nat
    PROVE  Prefix(off, len, Append(s, <<Gap(o, x), x>>), g)
<1> DEFINE e == <<Gap(o, x), x>>
<1>1. e \in Segments /\ e[1].valid = FALSE
  BY DEF Segments, Infos, Gap
<1>2. \A b : Bytes(b, e) = {}
  BY <1>1 DEF Bytes
<1> HIDE DEF e
<1>3. Found(off, Append(s, e)) = Found(off, s)
  <2>1. Found(off, Append(s, e)) = Found(off, s) \cup Bytes(off + Total(s), e)
    BY <1>1, FoundAppend
  <2>2. Bytes(off + Total(s), e) = {}
    BY <1>2, Zenon
  <2> QED BY <2>1, <2>2
<1>4. Prefix(off, len, Append(s, e), g)
  BY <1>3 DEF Prefix
<1> QED BY <1>4 DEF e

(* A segment with a record, where the bytes found so far end. *)
LEMMA PrefixGrows ==
    ASSUME NEW off \in Nat, NEW len \in Nat, NEW s \in Seq(Segments), NEW g \in Nat,
           Prefix(off, len, s, g), Total(s) = g - off, ~Behind(off),
           NEW v \in records, v \in Recorded, NEW x \in Nat,
           v.off <= g, g + x <= End(v), g + x <= off + len
    PROVE  Prefix(off, len, Append(s, <<v, x>>), g + x)
<1> DEFINE e == <<v, x>>
<1>1. v \in Infos /\ v.valid = TRUE /\ v.off \in Nat /\ End(v) \in Nat
  BY RecordedFields DEF Recorded, Infos
<1>2. e \in Segments /\ e[1] = v /\ e[2] = x
  BY <1>1 DEF Segments
<1>3. g >= off /\ off + Total(s) = g
  BY DEF Prefix
<1>4. Bytes(g, e) = g .. (g + x - 1)
  BY <1>1, <1>2 DEF Bytes
<1> HIDE DEF e
<1>5. Found(off, Append(s, e)) = Found(off, s) \cup (g .. (g + x - 1))
  BY <1>2, <1>3, <1>4, FoundAppend
<1>6. Found(off, s) = off .. (g - 1) /\ \A a \in off .. (g - 1) : Covered(a)
  BY DEF Prefix
<1>7. (off .. (g - 1)) \cup (g .. (g + x - 1)) = off .. ((g + x) - 1)
  BY <1>3
<1>8. ASSUME NEW a \in off .. ((g + x) - 1) PROVE Covered(a)
  <2>1. CASE a < g
    BY <1>3, <1>6, <2>1
  <2>2. CASE a >= g
    <3>1. v.off <= a /\ a < End(v)
      BY <1>1, <1>3, <2>2
    <3> QED BY <3>1 DEF Covered
  <2> QED BY <1>3, <2>1, <2>2
<1>9. g + x \in off .. (off + len)
  BY <1>3
<1>10. Prefix(off, len, Append(s, e), g + x)
  BY <1>5, <1>6, <1>7, <1>8, <1>9 DEF Prefix
<1> QED BY <1>10 DEF e

\* What holds of the loop's state after k of the n records.
Progress(off, len, w, k, acc) ==
    /\ Cut(off, len, acc)
    /\ Unbroken(off, len, w, k, acc) \/ Broken(off, len, w, k, acc)

(* The smaller of two numbers. *)
LEMMA MinimumIs ==
    ASSUME NEW a \in Int, NEW b \in Int
    PROVE  /\ Minimum(a, b) <= a /\ Minimum(a, b) <= b
           /\ Minimum(a, b) = a \/ Minimum(a, b) = b
  BY DEF Minimum

(* Once there is a gap the loop only makes gaps, since each record starts   *)
(* behind the one it has consumed.                                          *)
LEMMA StaysBroken ==
    ASSUME Disjoint, NEW off \in Nat, NEW len \in Nat, NEW n \in Nat, NEW w, Ordered(off, w, n),
           NEW k \in 1 .. n, NEW acc, Cut(off, len, acc), Broken(off, len, w, k - 1, acc)
    PROVE  Broken(off, len, w, k, WalkStep(acc, w[k]))
<1> DEFINE v == w[k]
           next == WalkStep(acc, v)
<1>1. v \in records /\ v \in Recorded /\ v.off \in Nat /\ End(v) \in Nat
  BY Extent DEF Ordered
<1>2. /\ acc \in [off : Nat, len : Nat, infos : Seq(Segments), done : BOOLEAN]
      /\ acc.off \in Nat /\ acc.len \in Nat /\ acc.infos \in Seq(Segments)
  BY DEF Cut
<1>3. PICK g \in off .. (off + len - 1) :
        /\ Prefix(off, len, acc.infos, g)
        /\ Covered(g) => Behind(off) /\ g = off
        /\ ~acc.done => k - 1 >= 1 /\ acc.off = w[k - 1].off
  BY DEF Broken
<1>4. ~acc.done => v.off > acc.off
  <2> SUFFICES ASSUME ~acc.done PROVE v.off > acc.off
    OBVIOUS
  <2>1. k - 1 \in 1 .. n /\ k - 1 < k /\ acc.off = w[k - 1].off
    BY <1>3
  <2>2. End(w[k - 1]) <= v.off /\ w[k - 1] \in records
    BY <2>1 DEF Ordered
  <2>3. w[k - 1].off \in Nat /\ End(w[k - 1]) \in Nat /\ w[k - 1].off < End(w[k - 1])
    BY <2>2, Extent
  <2> QED BY <1>1, <2>1, <2>2, <2>3
<1>5. CASE acc.done
  <2>1. next = acc
    BY <1>1, <1>2, <1>5, WalkStepCases
  <2> QED BY <1>3, <1>5, <2>1 DEF Broken
<1>6. CASE ~acc.done
  <2>1. PICK x \in Nat, d \in BOOLEAN :
          /\ x = Minimum(v.off - acc.off, acc.len)
          /\ d = (acc.len - x = 0 \/ v.off >= acc.off + acc.len)
          /\ next = [off |-> acc.off + x, len |-> acc.len - x,
                     infos |-> Append(acc.infos, <<Gap(acc.off, x), x>>), done |-> d]
    <3>1. ~(v.off <= acc.off)
      BY <1>1, <1>2, <1>4, <1>6
    <3> HIDE DEF v, next
    <3> QED BY <1>1, <1>2, <1>6, <3>1, WalkStepCases, Zenon DEF next
  <2> HIDE DEF next, v
  <2>2. /\ next.infos = Append(acc.infos, <<Gap(acc.off, x), x>>)
        /\ next.off = acc.off + x /\ next.done = d
    BY <2>1
  <2>3. Prefix(off, len, next.infos, g)
    BY <1>2, <1>3, <2>2, PrefixGap
  <2>4. ~d => next.off = v.off
    <3>1. ~d => acc.len - x # 0
      BY <2>1
    <3>2. acc.len - x # 0 => acc.off + x = v.off
      <4>1. x = Minimum(v.off - acc.off, acc.len)
        BY <2>1, Zenon
      <4>2. acc.off \in Nat /\ acc.len \in Nat /\ v.off \in Nat /\ v.off > acc.off
        BY <1>1, <1>2, <1>4, <1>6
      <4> HIDE DEF v
      <4> QED BY <4>1, <4>2 DEF Minimum
    <3> QED BY <2>2, <3>1, <3>2
  <2>5. ~next.done => k >= 1 /\ next.off = v.off
    BY <2>2, <2>4
  <2>6. Broken(off, len, w, k, next)
    BY <1>3, <2>3, <2>5 DEF Broken, v
  <2> QED BY <2>6 DEF next, v
<1> QED BY <1>5, <1>6

(* Without a gap so far the next record is behind the walk, makes a gap or  *)
(* goes on where the last one has ended.                                    *)
LEMMA StaysPrefix ==
    ASSUME Disjoint, NEW off \in Nat, NEW len \in Nat, NEW n \in Nat, NEW w, Ordered(off, w, n),
           NEW k \in 1 .. n, NEW acc, Cut(off, len, acc), Unbroken(off, len, w, k - 1, acc)
    PROVE  \/ Unbroken(off, len, w, k, WalkStep(acc, w[k]))
           \/ Broken(off, len, w, k, WalkStep(acc, w[k]))
<1> DEFINE v == w[k]
           next == WalkStep(acc, v)
<1>1. /\ v \in records /\ v \in Recorded /\ v.off \in Nat /\ End(v) \in Nat
      /\ ~KeyLess(Key(v), LowerKey(off))
  BY Extent DEF Ordered
<1>2. /\ acc \in [off : Nat, len : Nat, infos : Seq(Segments), done : BOOLEAN]
      /\ acc.off \in Nat /\ acc.len \in Nat /\ acc.infos \in Seq(Segments)
      /\ acc.off >= off /\ acc.off + acc.len = off + len
      /\ Total(acc.infos) = acc.off - off
  BY DEF Cut, Tiles
<1>3. /\ Prefix(off, len, acc.infos, acc.off)
      /\ ~acc.done => acc.len > 0 /\ \A j \in 1 .. (k - 1) : End(w[j]) <= acc.off
      /\ acc.done => acc.len = 0
  BY DEF Unbroken
<1>4. \A j \in 1 .. k : j \in 1 .. (k - 1) \/ j = k
  OBVIOUS
<1>5. CASE acc.done \/ (v.off <= acc.off /\ End(v) <= acc.off)
  <2>1. next = acc
    <3>1. acc.done \/ (~(v.off > acc.off) /\ ~(End(v) > acc.off))
      BY <1>1, <1>2, <1>5
    <3> HIDE DEF v, next
    <3> QED BY <1>1, <1>2, <3>1, WalkStepCases, Zenon DEF next
  <2>2. ~acc.done => \A j \in 1 .. k : End(w[j]) <= acc.off
    BY <1>3, <1>4, <1>5
  <2>3. Unbroken(off, len, w, k, acc)
    BY <1>3, <2>2 DEF Unbroken
  <2> QED BY <2>1, <2>3
<1>6. CASE ~acc.done /\ v.off > acc.off
  <2>1. PICK x \in Nat, d \in BOOLEAN :
          /\ x = Minimum(v.off - acc.off, acc.len)
          /\ d = (acc.len - x = 0 \/ v.off >= acc.off + acc.len)
          /\ next = [off |-> acc.off + x, len |-> acc.len - x,
                     infos |-> Append(acc.infos, <<Gap(acc.off, x), x>>), done |-> d]
    <3>1. ~(v.off <= acc.off)
      BY <1>1, <1>2, <1>6
    <3> HIDE DEF v, next
    <3> QED BY <1>1, <1>2, <1>6, <3>1, WalkStepCases, Zenon DEF next
  <2>2. Covered(acc.off) => Behind(off) /\ acc.off = off
    <3>1. k - 1 \in 0 .. n /\ (k - 1) + 1 = k
      OBVIOUS
    <3>2. w[(k - 1) + 1].off > acc.off
      BY <1>6, <3>1
    <3>3. \A j \in 1 .. (k - 1) : End(w[j]) <= acc.off
      BY <1>3, <1>6
    <3> HIDE DEF v, next
    <3> QED BY <1>2, <3>1, <3>2, <3>3, FirstGap
  <2> HIDE DEF next, v
  <2>3. /\ next.infos = Append(acc.infos, <<Gap(acc.off, x), x>>)
        /\ next.off = acc.off + x /\ next.done = d
    BY <2>1
  <2>4. Prefix(off, len, next.infos, acc.off)
    BY <1>2, <1>3, <2>3, PrefixGap
  <2>5. ~d => next.off = v.off
    <3>1. ~d => acc.len - x # 0
      BY <2>1
    <3>2. acc.len - x # 0 => acc.off + x = v.off
      <4>1. x = Minimum(v.off - acc.off, acc.len)
        BY <2>1, Zenon
      <4>2. acc.off \in Nat /\ acc.len \in Nat /\ v.off \in Nat /\ v.off > acc.off
        BY <1>1, <1>2, <1>6
      <4> HIDE DEF v
      <4> QED BY <4>1, <4>2 DEF Minimum
    <3> QED BY <2>3, <3>1, <3>2
  <2>6. acc.off \in off .. (off + len - 1)
    BY <1>2, <1>3, <1>6
  <2>7. ~next.done => k >= 1 /\ next.off = v.off
    BY <2>3, <2>5
  <2>8. Broken(off, len, w, k, next)
    BY <2>2, <2>4, <2>6, <2>7 DEF Broken, v
  <2> QED BY <2>8 DEF next, v
<1>7. CASE ~acc.done /\ v.off <= acc.off /\ End(v) > acc.off
  <2>1. PICK x \in Nat, d \in BOOLEAN :
          /\ x = Minimum(End(v) - acc.off, acc.len)
          /\ d = (acc.len - x = 0 \/ v.off >= acc.off + acc.len)
          /\ next = [off |-> acc.off + x, len |-> acc.len - x,
                     infos |-> Append(acc.infos, <<v, x>>), done |-> d]
    <3>1. ~(v.off > acc.off) /\ ~(End(v) <= acc.off)
      BY <1>1, <1>2, <1>7
    <3> HIDE DEF v, next
    <3> QED BY <1>1, <1>2, <1>7, <3>1, WalkStepCases, Zenon DEF next
  <2> HIDE DEF next, v
  <2>2. /\ next.infos = Append(acc.infos, <<v, x>>)
        /\ next.off = acc.off + x /\ next.len = acc.len - x /\ next.done = d
    BY <2>1
  <2>3. x <= acc.len /\ acc.off + x <= End(v) /\ (acc.len - x # 0 => acc.off + x = End(v))
    <3>3. x = Minimum(End(v) - acc.off, acc.len)
      BY <2>1, Zenon
    <3>4. acc.off \in Nat /\ acc.len \in Nat /\ End(v) \in Nat /\ End(v) > acc.off
      BY <1>1, <1>2, <1>7
    <3>1. acc.len - x # 0 => acc.off + x = End(v)
      BY <3>3, <3>4 DEF Minimum
    <3>2. x <= acc.len /\ x <= End(v) - acc.off
      <4>1. End(v) - acc.off \in Int /\ acc.len \in Int
        BY <3>4
      <4> QED BY <3>3, <4>1, MinimumIs
    <3> QED BY <1>1, <1>2, <3>1, <3>2
  <2>4. acc.len > 0
    BY <1>3, <1>7
  <2>5. ~Behind(off)
    <3> SUFFICES ASSUME Behind(off) PROVE FALSE
      OBVIOUS
    <3>1. acc.off = off
      BY <1>3 DEF Prefix
    <3> QED BY <1>1, <1>7, <3>1, FirstRecord
  <2>6. acc.off + x <= off + len
    BY <1>2, <2>3
  <2>7. Prefix(off, len, next.infos, next.off)
    BY <1>1, <1>2, <1>3, <1>7, <2>2, <2>3, <2>5, <2>6, PrefixGrows
  <2>8. d <=> next.len = 0
    <3>1. ~(v.off >= acc.off + acc.len)
      BY <1>1, <1>2, <1>7, <2>4
    <3>2. d <=> acc.len - x = 0
      BY <2>1, <3>1
    <3> QED BY <2>2, <3>2
  <2>9. ~next.done => next.len > 0 /\ \A j \in 1 .. k : End(w[j]) <= next.off
    <3> SUFFICES ASSUME ~next.done
                 PROVE  next.len > 0 /\ \A j \in 1 .. k : End(w[j]) <= next.off
      OBVIOUS
    <3>1. next.len > 0 /\ next.off = End(v)
      BY <1>2, <2>2, <2>3, <2>8
    <3>2. ASSUME NEW j \in 1 .. (k - 1) PROVE End(w[j]) <= next.off
      <4>1. End(w[j]) <= acc.off /\ j \in 1 .. n
        BY <1>3, <1>7
      <4>2. w[j] \in records
        BY <4>1 DEF Ordered
      <4>3. End(w[j]) \in Nat
        BY <4>2, Extent
      <4> QED BY <1>2, <2>2, <4>1, <4>3
    <3>3. End(w[k]) <= next.off
      BY <1>1, <3>1 DEF v
    <3> QED BY <1>4, <3>1, <3>2, <3>3
  <2>10. Unbroken(off, len, w, k, next)
    BY <2>2, <2>7, <2>8, <2>9 DEF Unbroken
  <2> QED BY <2>10 DEF next, v
<1>8. \/ acc.done \/ (v.off <= acc.off /\ End(v) <= acc.off)
      \/ ~acc.done /\ v.off > acc.off
      \/ ~acc.done /\ v.off <= acc.off /\ End(v) > acc.off
  BY <1>1, <1>2
<1> QED BY <1>5, <1>6, <1>7, <1>8

(* Between the first gap, at g, and the request's end nothing is found. *)
LEMMA PrefixIsAll ==
    ASSUME NEW off \in Nat, NEW len \in Nat, NEW s, NEW g, Prefix(off, len, s, g),
           g # off + len => (Covered(g) => Behind(off) /\ g = off)
    PROVE  Found(off, s) =
             {b \in off .. (off + len - 1) : ~Behind(off) /\ \A a \in off .. b : Covered(a)}
<1>1. /\ g \in off .. (off + len) /\ Found(off, s) = off .. (g - 1)
      /\ \A a \in off .. (g - 1) : Covered(a)
      /\ Behind(off) => g = off
  BY DEF Prefix
<1>2. CASE Behind(off)
  <2>1. off .. (g - 1) = {}
    BY <1>1, <1>2
  <2> QED BY <1>1, <1>2, <2>1
<1>3. CASE ~Behind(off)
  <2>1. ASSUME NEW b \in off .. (g - 1)
        PROVE  b \in off .. (off + len - 1) /\ \A a \in off .. b : Covered(a)
    <3>1. \A a \in off .. b : a \in off .. (g - 1)
      BY <1>1
    <3>2. b \in off .. (off + len - 1)
      BY <1>1
    <3> QED BY <1>1, <3>1, <3>2
  <2>2. ASSUME NEW b \in off .. (off + len - 1), \A a \in off .. b : Covered(a)
        PROVE  b \in off .. (g - 1)
    <3> SUFFICES ASSUME b >= g PROVE FALSE
      BY <1>1
    <3>1. g \in off .. b /\ g # off + len
      BY <1>1
    <3> QED BY <1>3, <2>2, <3>1
  <2> QED BY <1>1, <1>3, <2>1, <2>2
<1> QED BY <1>2, <1>3

(* dedup_range finds the bytes up to the first one without a record, or     *)
(* nothing when a longer record ends with the first byte.                   *)
LEMMA LookupFinds ==
    ASSUME Disjoint, NEW off \in Nat, NEW len \in Nat
    PROVE  Found(off, LookupRange(off, len)) =
             {b \in off .. (off + len - 1) : ~Behind(off) /\ \A a \in off .. b : Covered(a)}
<1> DEFINE base == [off |-> off, len |-> len, infos |-> <<>>, done |-> len = 0]
           w == Walk(off)
           last == Walked(base, w)
<1>1. PICK n \in Nat : Ordered(off, w, n)
  BY WalkOrdered
<1> HIDE DEF w
<1>2. DOMAIN w = 1 .. n /\ \A k \in 1 .. n : w[k] \in Recorded
  <2>1. DOMAIN w = 1 .. n /\ \A k \in 1 .. n : w[k] \in records
    BY <1>1 DEF Ordered
  <2> QED BY <2>1 DEF Disjoint
<1>3. PICK acc : /\ acc[0] = base
                 /\ \A k \in 1 .. n : acc[k] = WalkStep(acc[k - 1], w[k])
                 /\ last = acc[n]
  <2> HIDE DEF base
  <2> QED BY <1>2, WalkFold
<1>4. Progress(off, len, w, 0, base)
  <2>1. /\ base \in [off : Nat, len : Nat, infos : Seq(Segments), done : BOOLEAN]
        /\ base.off = off /\ base.len = len /\ base.infos = <<>> /\ base.done = (len = 0)
    BY EmptySeq
  <2> HIDE DEF base
  <2>2. base.off - off = 0
    BY <2>1
  <2>3. Cut(off, len, base)
    BY <2>1, <2>2, TilesEmpty DEF Cut
  <2>4. Found(off, <<>>) = {}
    <3>1. 1 .. Len(<<>>) = {}
      OBVIOUS
    <3> QED BY <3>1, Zenon DEF Found
  <2>5. off .. (off - 1) = {} /\ off \in off .. (off + len)
    OBVIOUS
  <2>6. Prefix(off, len, base.infos, base.off)
    BY <2>1, <2>4, <2>5 DEF Prefix
  <2>7. (~base.done => base.len > 0) /\ (base.done => base.len = 0)
    BY <2>1
  <2>8. 1 .. 0 = {}
    OBVIOUS
  <2>9. Unbroken(off, len, w, 0, base)
    BY <2>6, <2>7, <2>8 DEF Unbroken
  <2> QED BY <2>3, <2>9 DEF Progress
<1> DEFINE Bad == {k \in 0 .. n : ~Progress(off, len, w, k, acc[k])}
<1>5. Bad = {}
  <2> SUFFICES ASSUME Bad # {} PROVE FALSE
    OBVIOUS
  <2> HIDE DEF base
  <2>1. Bad \subseteq Nat
    OBVIOUS
  <2>2. PICK k \in Bad : \A y \in Bad : k <= y
    <3> HIDE DEF Bad
    <3> QED BY <2>1, LeastNumber
  <2>3. k \in 1 .. n
    BY <1>3, <1>4, <2>2
  <2>4. k - 1 \in 0 .. n /\ k - 1 \notin Bad
    BY <2>2, <2>3
  <2>5. Progress(off, len, w, k - 1, acc[k - 1])
    BY <2>4
  <2>6. acc[k] = WalkStep(acc[k - 1], w[k]) /\ w[k] \in Recorded
    BY <1>2, <1>3, <2>3
  <2>7. Cut(off, len, acc[k - 1])
    BY <2>5 DEF Progress
  <2>8. Cut(off, len, acc[k])
    BY <2>6, <2>7, WalkStepCuts
  <2>9. \/ Unbroken(off, len, w, k - 1, acc[k - 1])
        \/ Broken(off, len, w, k - 1, acc[k - 1])
    BY <2>5 DEF Progress
  <2> DEFINE a == acc[k - 1]
             v == w[k]
  <2>10. Cut(off, len, a) /\ v = w[k]
    BY <2>7
  <2>11. CASE Unbroken(off, len, w, k - 1, a)
    <3> HIDE DEF a
    <3>1. \/ Unbroken(off, len, w, k, WalkStep(a, w[k]))
          \/ Broken(off, len, w, k, WalkStep(a, w[k]))
      BY <1>1, <2>3, <2>10, <2>11, StaysPrefix
    <3> QED BY <2>6, <2>8, <2>2, <3>1 DEF Progress, a
  <2>12. CASE Broken(off, len, w, k - 1, a)
    <3> HIDE DEF a
    <3>1. Broken(off, len, w, k, WalkStep(a, w[k]))
      BY <1>1, <2>3, <2>10, <2>12, StaysBroken
    <3> QED BY <2>6, <2>8, <2>2, <3>1 DEF Progress, a
  <2> QED BY <2>9, <2>11, <2>12
<1>6. Progress(off, len, w, n, last)
  <2>1. n \in 0 .. n
    OBVIOUS
  <2> HIDE DEF last
  <2> QED BY <1>3, <1>5, <2>1
<1>7. LookupRange(off, len) = last.infos \o Rest(last)
  BY Zenon DEF LookupRange, Walked, w
<1> HIDE DEF last, base
<1>8. /\ last \in [off : Nat, len : Nat, infos : Seq(Segments), done : BOOLEAN]
      /\ last.off \in Nat /\ last.len \in Nat /\ last.infos \in Seq(Segments)
      /\ last.off + last.len = off + len /\ last.off >= off
  BY <1>6 DEF Progress, Cut
<1>9. PICK g : /\ Prefix(off, len, last.infos, g)
               /\ g # off + len => (Covered(g) => Behind(off) /\ g = off)
  <2>1. CASE Unbroken(off, len, w, n, last)
    <3>1. Prefix(off, len, last.infos, last.off)
      BY <2>1 DEF Unbroken
    <3>2. CASE last.done
      <4>1. last.len = 0
        BY <2>1, <3>2 DEF Unbroken
      <4>2. last.off = off + len
        BY <1>8, <4>1
      <4> QED BY <3>1, <4>2
    <3>3. CASE ~last.done
      <4>1. \A j \in 1 .. n : End(w[j]) <= last.off
        BY <2>1, <3>3 DEF Unbroken
      <4>2. n \in 0 .. n /\ ~(n < n)
        OBVIOUS
      <4>3. n < n => w[n + 1].off > last.off
        BY <4>2
      <4>4. Covered(last.off) => Behind(off) /\ last.off = off
        <5> DEFINE h == last.off
        <5>1. h \in Nat /\ h >= off /\ \A j \in 1 .. n : End(w[j]) <= h
          BY <1>8, <4>1
        <5>2. n < n => w[n + 1].off > h
          BY <4>3
        <5> HIDE DEF h
        <5>3. Covered(h) => Behind(off) /\ h = off
          BY <1>1, <4>2, <5>1, <5>2, FirstGap
        <5> QED BY <5>3 DEF h
      <4> QED BY <3>1, <4>4
    <3> QED BY <3>2, <3>3
  <2>2. CASE Broken(off, len, w, n, last)
    BY <2>2 DEF Broken
  <2> QED BY <1>6, <2>1, <2>2 DEF Progress
<1>10. Prefix(off, len, LookupRange(off, len), g)
  <2>1. CASE last.len = 0
    <3>1. LookupRange(off, len) = last.infos
      BY <1>7, <1>8, <2>1, ConcatEmptySeq DEF Rest
    <3> QED BY <1>9, <3>1
  <2>2. CASE last.len # 0
    <3> DEFINE e == <<Gap(last.off, last.len), last.len>>
    <3>1. LookupRange(off, len) = last.infos \o <<e>>
      BY <1>7, <2>2 DEF Rest
    <3>2. Gap(last.off, last.len) \in Infos
      BY <1>8 DEF Gap, Infos
    <3>3. e \in Segments
      BY <1>8, <3>2 DEF Segments
    <3>4. last.infos \o <<e>> = Append(last.infos, e)
      <4> HIDE DEF e
      <4> QED BY <1>8, <3>3, AppendIsConcat
    <3>5. Prefix(off, len, Append(last.infos, e), g)
      BY <1>8, <1>9, PrefixGap
    <3> QED BY <3>1, <3>4, <3>5
  <2> QED BY <2>1, <2>2
<1> DEFINE s == LookupRange(off, len)
<1>11. Prefix(off, len, s, g)
  BY <1>10
<1> HIDE DEF s
<1>12. Found(off, s) =
         {b \in off .. (off + len - 1) : ~Behind(off) /\ \A a \in off .. b : Covered(a)}
  BY <1>9, <1>11, PrefixIsAll
<1> QED BY <1>12 DEF s
-----------------------------------------------------------------------------
(* A read *)

(* Where the read stands: some bytes are left, they lie in the chunk, and   *)
(* if they are not the last of the request the chunk is read to its end.    *)
LEMMA WantedBounds ==
    ASSUME StateInv, PositionInv, ReadReturnsFile, Reading
    PROVE  /\ chunk \in FileChunks /\ chunk * FileChunk \in Nat
           /\ ChunkOffset \in Nat /\ Wanted \in 1 .. remaining
           /\ ChunkOffset + Wanted <= USize(chunk)
           /\ Wanted < remaining =>
                /\ chunk * FileChunk + ChunkOffset + Wanted = (chunk + 1) * FileChunk
                /\ request[1] <= (chunk + 1) * FileChunk
                /\ chunk + 1 \in FileChunks
<1> DEFINE x == chunk * FileChunk
           u == USize(chunk)
           o == ChunkOffset
           pos == request[1] + Len(out)
<1>1. /\ request[1] \in Nat /\ request[2] \in Nat /\ remaining \in Nat /\ Len(out) \in Nat
      /\ chunk \in Nat /\ chunk \in FileChunks /\ remaining > 0
  BY DEF StateInv, TypeOK, PositionInv
<1>2. /\ x \in Nat /\ u \in 1 .. FileChunk /\ x + u <= FileSize
      /\ u < FileChunk => x + u = FileSize
  BY <1>1, FileChunkBounds
<1>3. (chunk + 1) * FileChunk = x + FileChunk
  BY <1>1, Monotone
<1>4. chunk + 1 \in FileChunks <=> x + FileChunk < FileSize
  BY <1>1, <1>3, FileChunkBounds
<1>5. x + o = pos /\ o < FileChunk /\ request[1] + request[2] <= FileSize
  BY DEF PositionInv
<1>6. o \in Nat
  BY <1>1, <1>2 DEF ChunkOffset
<1>7. Len(out) + remaining = request[2]
  BY DEF ReadReturnsFile, Reading
<1>8. Wanted = Minimum(remaining, u - o)
  BY DEF Wanted
<1> HIDE DEF x, u, o
<1>9. o < u
  BY <1>1, <1>2, <1>5, <1>6, <1>7
<1>10. /\ Wanted \in 1 .. remaining /\ o + Wanted <= u
       /\ Wanted < remaining => o + Wanted = u
  BY <1>1, <1>2, <1>6, <1>8, <1>9 DEF Minimum
<1>11. Wanted < remaining => u = FileChunk /\ x + FileChunk < FileSize
  BY <1>1, <1>2, <1>5, <1>6, <1>7, <1>10
<1>12. request[1] <= x + FileChunk
  BY <1>1, <1>2, <1>5, <1>6
<1> QED BY <1>1, <1>2, <1>3, <1>4, <1>6, <1>10, <1>11, <1>12 DEF x, u, o

(* What the writer takes is the next piece of the file. *)
LEMMA WrittenStep ==
    ASSUME StateInv, PositionInv, ReadReturnsFile, Reading, Written, UNCHANGED request
    PROVE  /\ chunk' \in Nat /\ out' \in Seq(Nat)
           /\ remaining' \in 0 .. request'[2]
           /\ remaining' > 0 => chunk' \in FileChunks
           /\ step' \in {"chunk", "done"}
           /\ PositionInv' /\ ReadReturnsFile'
<1> DEFINE start == chunk * FileChunk + ChunkOffset
           piece == [i \in 1 .. Wanted |-> start + i - 1]
<1>1. /\ chunk \in FileChunks /\ chunk * FileChunk \in Nat
      /\ ChunkOffset \in Nat /\ Wanted \in 1 .. remaining
      /\ ChunkOffset + Wanted <= USize(chunk)
      /\ Wanted < remaining =>
           /\ start + Wanted = (chunk + 1) * FileChunk
           /\ request[1] <= (chunk + 1) * FileChunk
           /\ chunk + 1 \in FileChunks
  BY WantedBounds
<1>2. /\ request[1] \in Nat /\ request[2] \in Nat /\ remaining \in Nat /\ Len(out) \in Nat
      /\ chunk \in Nat /\ out \in Seq(Nat) /\ remaining <= request[2]
  BY DEF StateInv, TypeOK
<1>3. /\ request[1] + request[2] <= FileSize
      /\ start = request[1] + Len(out)
      /\ Len(out) + remaining = request[2]
      /\ \A i \in 1 .. Len(out) : out[i] = request[1] + i - 1
  BY DEF PositionInv, ReadReturnsFile, Reading
<1>4. piece \in Seq(Nat) /\ Len(piece) = Wanted
  <2>1. \A i \in 1 .. Wanted : start + i - 1 \in Nat
    BY <1>1
  <2>2. Wanted \in Nat
    BY <1>1, <1>2
  <2> HIDE DEF start
  <2>3. piece \in [1 .. Wanted -> Nat]
    BY <2>1
  <2> QED BY <2>2, <2>3
<1>5. out' = out \o piece /\ remaining' = remaining - Wanted /\ chunk' = chunk + 1
      /\ step' = IF remaining = Wanted THEN "done" ELSE "chunk"
  BY DEF Written
<1>6. out' \in Seq(Nat) /\ Len(out') = Len(out) + Wanted
  BY <1>2, <1>4, <1>5, ConcatProperties
<1>7. \A i \in 1 .. Len(out') : out'[i] = request[1] + i - 1
  <2> SUFFICES ASSUME NEW i \in 1 .. Len(out') PROVE out'[i] = request[1] + i - 1
    OBVIOUS
  <2>1. CASE i <= Len(out)
    BY <1>2, <1>3, <1>4, <1>5, <1>6, <2>1, ConcatProperties
  <2>2. CASE i > Len(out)
    <3>1. out'[i] = piece[i - Len(out)] /\ i - Len(out) \in 1 .. Wanted
      BY <1>1, <1>2, <1>4, <1>5, <1>6, <2>2, ConcatProperties
    <3>2. piece[i - Len(out)] = start + (i - Len(out)) - 1
      BY <3>1
    <3> QED BY <1>2, <1>3, <3>1, <3>2
  <2> QED BY <1>2, <1>6, <2>1, <2>2
<1>8. remaining' \in 0 .. request'[2] /\ chunk' \in Nat
  BY <1>1, <1>2, <1>5
<1>9. remaining' > 0 => Wanted < remaining
  BY <1>1, <1>2, <1>5
<1>10. step' \in {"chunk", "done"} /\ (step' = "chunk" <=> remaining' > 0)
  BY <1>1, <1>2, <1>5
<1>11. ReadReturnsFile'
  <2>1. Len(out') + remaining' = request'[2]
    BY <1>1, <1>2, <1>3, <1>5, <1>6
  <2>2. step' = "done" => remaining' = 0
    BY <1>8, <1>10
  <2> QED BY <1>7, <2>1, <2>2 DEF ReadReturnsFile
<1>12. ASSUME step' = "chunk" PROVE PositionInv'
  <2>1. Wanted < remaining /\ remaining' > 0
    BY <1>9, <1>10, <1>12
  <2>2. start + Wanted = chunk' * FileChunk /\ request'[1] <= chunk' * FileChunk
    BY <1>1, <1>5, <2>1
  <2>3. ChunkOffset' = 0
    BY <1>2, <2>2, <1>8, FileChunkBounds DEF ChunkOffset
  <2>4. chunk' * FileChunk = request'[1] + Len(out')
    <3>1. start + Wanted = request[1] + Len(out) + Wanted
      BY <1>3
    <3> HIDE DEF start
    <3> QED BY <1>1, <1>2, <1>6, <2>2, <3>1
  <2>5. chunk' * FileChunk \in Nat
    BY <1>8, FileChunkBounds
  <2> QED BY <1>3, <2>1, <2>3, <2>4, <2>5 DEF PositionInv
<1>13. PositionInv'
  BY <1>10, <1>12 DEF PositionInv, Reading
<1> QED BY <1>1, <1>5, <1>6, <1>8, <1>9, <1>10, <1>11, <1>13

(* A step that goes on with a read where it stands, or gives it up. *)
LEMMA SameRead ==
    ASSUME PositionInv, ReadReturnsFile, UNCHANGED <<request, chunk, remaining, out>>,
           step' = step \/ step' = "failed" \/ (Reading /\ Reading')
    PROVE  PositionInv' /\ ReadReturnsFile'
  BY DEF PositionInv, ReadReturnsFile, Reading, ChunkOffset

(* A step of a read leaves the channel and its worker alone. *)
LEMMA SameStore ==
    ASSUME DropInv, QueueIsStored, UNCHANGED <<store, mount>>,
           mount = "open" \/ ~Idle \/ Idle'
    PROVE  DropInv' /\ QueueIsStored'
  BY DEF DropInv, QueueIsStored, store

(* check_read_range leaves an offset and a size inside the file. *)
LEMMA ReadStarts ==
    ASSUME IInv, NEW off \in 0 .. MaxOffset, NEW size \in 0 .. MaxOffset, Read(off, size)
    PROVE  IInv'
<1> DEFINE n == IF off + size > MaxOffset THEN 0 ELSE CheckReadRange(off, size)
<1>1. /\ n \in 0 .. FileSize
      /\ n > 0 => off < FileSize /\ off + n <= FileSize
  BY DEF CheckReadRange, Minimum
<1>2. /\ mount = "open" /\ reads' = reads + 1 /\ reads < MaxReads
      /\ request' = <<off, n>> /\ remaining' = n /\ chunk' = off \div FileChunk /\ out' = <<>>
      /\ step' = IF off + size > MaxOffset THEN "failed" ELSE IF n = 0 THEN "done" ELSE "chunk"
      /\ UNCHANGED <<blob, chunkdb, data, store, mount>>
  BY DEF Read
<1>3. n = 0 => step' \in {"failed", "done"}
  BY <1>2
<1>4. n > 0 => step' = "chunk"
  BY <1>2
<1> HIDE DEF n
<1>5. /\ chunk' \in Nat /\ chunk' * FileChunk \in Nat
      /\ chunk' * FileChunk <= off /\ off < chunk' * FileChunk + FileChunk
  BY <1>2, DivBounds, Monotone
<1>6. n > 0 => chunk' \in FileChunks
  <2>1. chunk' \in FileChunks <=> chunk' * FileChunk < FileSize
    BY <1>5, FileChunkBounds
  <2> DEFINE x == chunk' * FileChunk
  <2>2. x \in Nat /\ x <= off /\ (chunk' \in FileChunks <=> x < FileSize)
    BY <1>5, <2>1
  <2> HIDE DEF x
  <2> QED BY <1>1, <2>2
<1>7. StateInv'
  <2>1. step' \in {"failed", "done", "chunk"} /\ n \in Nat
    BY <1>1, <1>3, <1>4
  <2>2. /\ request' \in (0 .. MaxOffset) \X (0 .. FileSize)
        /\ remaining' \in 0 .. request'[2]
        /\ remaining' > 0 => chunk' \in FileChunks
        /\ out' \in Seq(Nat)
    BY <1>1, <1>2, <1>6
  <2>3. UNCHANGED <<records, chunkdb, data, queue, batch, worker, sent, handed, mount>>
    BY <1>2 DEF blob, store
  <2>4. reads' \in 0 .. MaxReads
    BY <1>2 DEF IInv, StateInv, TypeOK
  <2> QED BY <1>5, <2>1, <2>2, <2>3, <2>4 DEF IInv, StateInv, TypeOK
<1>8. PositionInv'
  <2> SUFFICES ASSUME Reading' PROVE PositionInv'
    BY DEF PositionInv
  <2>1. n > 0
    BY <1>1, <1>3 DEF Reading
  <2>2. ChunkOffset' = off - chunk' * FileChunk
    BY <1>2, <1>5 DEF ChunkOffset
  <2> QED BY <1>1, <1>2, <1>5, <2>1, <2>2 DEF PositionInv
<1>9. ReadReturnsFile'
  <2>1. Len(out') = 0 /\ remaining' = n /\ request'[2] = n
    BY <1>2
  <2> QED BY <1>1, <1>3, <1>4, <2>1 DEF ReadReturnsFile
<1>10. DropInv' /\ QueueIsStored'
  BY <1>2, SameStore DEF IInv
<1> QED BY <1>7, <1>8, <1>9, <1>10 DEF IInv

(* The steps of a read up to the writer. *)
LEMMA ReadSteps ==
    ASSUME IInv,
           \/ ChunkDBMiss \/ ReadHole \/ ReadBlobFails \/ Decode \/ WriteFails
           \/ \E off \in 0 .. (ImageSize - 1), len \in 1 .. ImageSize : ReadBlobRange(off, len)
    PROVE  IInv'
<1>1. /\ UNCHANGED <<records, chunkdb, request, chunk, remaining, out, store, mount, reads>>
      /\ step' \in {"blob", "write", "decode", "failed"} /\ Reading
  BY DEF ChunkDBMiss, ReadHole, ReadBlobFails, Decode, WriteFails, ReadBlobRange, Fetch, blob, Reading
<1>2. data' = data \/ data' \in 0 .. USize(chunk)
  <2>1. chunk \in Nat /\ chunk \in FileChunks
    BY <1>1 DEF IInv, StateInv, TypeOK, PositionInv
  <2>2. USize(chunk) \in 1 .. FileChunk
    BY <2>1, FileChunkBounds
  <2> QED BY <2>2 DEF ChunkDBMiss, ReadHole, ReadBlobFails, Decode, WriteFails, ReadBlobRange
<1>3. data' \in 0 .. FileChunk
  <2>1. chunk \in Nat /\ chunk \in FileChunks
    BY <1>1 DEF IInv, StateInv, TypeOK, PositionInv
  <2>2. USize(chunk) \in 1 .. FileChunk
    BY <2>1, FileChunkBounds
  <2>3. data \in 0 .. FileChunk
    BY DEF IInv, StateInv, TypeOK
  <2> QED BY <1>2, <2>2, <2>3
<1>4. StateInv'
  BY <1>1, <1>3 DEF IInv, StateInv, TypeOK, store
<1>5. PositionInv' /\ ReadReturnsFile'
  BY <1>1, SameRead DEF IInv, Reading
<1>6. DropInv' /\ QueueIsStored'
  BY <1>1, SameStore DEF IInv, Reading, Idle
<1> QED BY <1>4, <1>5, <1>6 DEF IInv

(* A request joins the end of the queue. *)
LEMMA QueueGrows ==
    ASSUME NEW S, NEW h \in Seq(S), NEW b \in Seq(S), NEW q \in Seq(S), NEW x \in S
    PROVE  (h \o b) \o Append(q, x) = Append((h \o b) \o q, x)
<1>1. <<x>> \in Seq(S) /\ h \o b \in Seq(S) /\ (h \o b) \o q \in Seq(S)
  BY ConcatProperties
<1>2. Append(q, x) = q \o <<x>> /\ Append((h \o b) \o q, x) = ((h \o b) \o q) \o <<x>>
  BY <1>1, AppendIsConcat
<1> QED BY <1>1, <1>2, ConcatAssociative

(* The worker takes the first request of the queue. *)
LEMMA QueueMoves ==
    ASSUME NEW h \in Seq(Requests), NEW b \in Seq(Requests), NEW q \in Seq(Requests),
           q # <<>>
    PROVE  (h \o Append(b, Head(q))) \o Tail(q) = (h \o b) \o q
<1>1. Head(q) \in Requests /\ Tail(q) \in Seq(Requests) /\ <<Head(q)>> \in Seq(Requests) /\ h \o b \in Seq(Requests)
  BY HeadTailProperties, ConcatProperties
<1>2. Append(b, Head(q)) = b \o <<Head(q)>>
  BY <1>1, AppendIsConcat
<1>3. q = <<Head(q)>> \o Tail(q)
  BY <1>1, HeadTailProperties
<1>4. h \o (b \o <<Head(q)>>) = (h \o b) \o <<Head(q)>>
  BY <1>1, ConcatAssociative
<1>5. ((h \o b) \o <<Head(q)>>) \o Tail(q) = (h \o b) \o (<<Head(q)>> \o Tail(q))
  BY <1>1, ConcatAssociative
<1> QED BY <1>2, <1>3, <1>4, <1>5

(* The steps that write a piece of the reply. *)
LEMMA WriteSteps ==
    ASSUME IInv, ReadFromChunkDB \/ WriteData
    PROVE  IInv'
<1>1. /\ Reading /\ Written
      /\ UNCHANGED <<blob, chunkdb, request, data, batch, worker, handed, mount, reads>>
  BY DEF ReadFromChunkDB, WriteData, Reading, store
<1>2. /\ chunk' \in Nat /\ out' \in Seq(Nat)
      /\ remaining' \in 0 .. request'[2]
      /\ remaining' > 0 => chunk' \in FileChunks
      /\ step' \in {"chunk", "done"}
      /\ PositionInv' /\ ReadReturnsFile'
  BY <1>1, WrittenStep DEF IInv
<1>3. chunk \in FileChunks
  BY <1>1 DEF IInv, StateInv, TypeOK, PositionInv
<1>4. \/ UNCHANGED <<queue, sent>>
      \/ \E x \in Requests : /\ Len(queue) < QueueSize
                             /\ queue' = Append(queue, x) /\ sent' = Append(sent, x)
  <2>1. CASE ReadFromChunkDB
    BY <2>1 DEF ReadFromChunkDB, store
  <2>2. CASE WriteData
    <3>1. <<chunk, USize(chunk)>> \in Requests
      BY <1>3 DEF Requests
    <3> QED BY <2>2, <3>1 DEF WriteData, IsWhole, StoreChunkBg
  <2> QED BY <2>1, <2>2
<1>5. queue \in Seq(Requests) /\ sent \in Seq(Requests)
      /\ handed \in Seq(Requests) /\ batch \in Seq(Requests)
  BY DEF IInv, StateInv
<1>6. queue' \in Seq(Requests) /\ sent' \in Seq(Requests) /\ Len(queue') <= QueueSize
  <2>1. Len(queue) <= QueueSize
    BY DEF IInv, StateInv, TypeOK
  <2>2. ASSUME NEW x \in Requests, Len(queue) < QueueSize,
               queue' = Append(queue, x), sent' = Append(sent, x)
        PROVE  queue' \in Seq(Requests) /\ sent' \in Seq(Requests) /\ Len(queue') <= QueueSize
    BY <1>5, <2>2, AppendProperties
  <2> QED BY <1>4, <1>5, <2>1, <2>2
<1>7. StateInv'
  BY <1>1, <1>2, <1>6 DEF IInv, StateInv, TypeOK, blob
<1>8. mount = "open"
  BY <1>1 DEF IInv, DropInv, Reading, Idle
<1>9. DropInv'
  BY <1>1, <1>8 DEF IInv, DropInv
<1>10. QueueIsStored'
  <2>1. sent' = (handed \o batch) \o queue'
    <3>1. sent = (handed \o batch) \o queue
      BY DEF IInv, QueueIsStored
    <3>2. ASSUME NEW x \in Requests, queue' = Append(queue, x), sent' = Append(sent, x)
          PROVE  sent' = (handed \o batch) \o queue'
      <4>1. (handed \o batch) \o Append(queue, x) = Append((handed \o batch) \o queue, x)
        BY <1>5, QueueGrows
      <4> QED BY <3>1, <3>2, <4>1
    <3> QED BY <1>4, <3>1, <3>2
  <2> QED BY <1>1, <1>8, <2>1 DEF QueueIsStored
<1> QED BY <1>2, <1>7, <1>9, <1>10 DEF IInv
-----------------------------------------------------------------------------
(* The worker, the drop of the image and others *)

(* What add_chunks leaves of each chunk: nothing, or the whole of it. *)
LEMMA AddedWhole ==
    ASSUME NEW B \in Seq(Requests), NEW n \in 0 .. Len(B), NEW k \in FileChunks,
           {i \in 1 .. n : B[i][1] = k} # {}
    PROVE  B[CHOOSE i \in {i \in 1 .. n : B[i][1] = k} : TRUE][2] = USize(k)
<1> DEFINE new == {i \in 1 .. n : B[i][1] = k}
           j == CHOOSE i \in new : TRUE
<1>1. j \in new
  BY Zenon
<1>2. j \in 1 .. Len(B) /\ B[j][1] = k
  BY <1>1
<1>3. B[j] \in Requests
  BY <1>2, LenProperties
<1>4. B[j][2] = USize(B[j][1])
  BY <1>3 DEF Requests
<1> QED BY <1>2, <1>4

(* The worker's steps keep the order of the requests. *)
LEMMA WorkerSteps ==
    ASSUME IInv, WorkerStep
    PROVE  IInv'
<1>1. UNCHANGED <<blob, read, sent, mount, reads>>
  BY DEF WorkerStep, Recv, Collected, AddChunks, WorkerEnds
<1>2. /\ queue \in Seq(Requests) /\ batch \in Seq(Requests)
      /\ sent \in Seq(Requests) /\ handed \in Seq(Requests)
      /\ Len(queue) <= QueueSize /\ Len(batch) <= StoreBatch
      /\ sent = (handed \o batch) \o queue
      /\ chunkdb \in [FileChunks -> Nat]
      /\ \A k \in FileChunks : chunkdb[k] \in {0, USize(k)}
  BY DEF IInv, StateInv, TypeOK, QueueIsStored
<1>3. PositionInv' /\ ReadReturnsFile'
  BY <1>1, SameRead DEF IInv, read
<1>4. ASSUME /\ queue' \in Seq(Requests) /\ batch' \in Seq(Requests) /\ handed' \in Seq(Requests)
             /\ Len(queue') <= QueueSize /\ Len(batch') <= StoreBatch
             /\ worker' \in {"recv", "add", "ended"}
             /\ chunkdb' \in [FileChunks -> Nat]
             /\ \A k \in FileChunks : chunkdb'[k] \in {0, USize(k)}
      PROVE  StateInv'
  BY <1>1, <1>4 DEF IInv, StateInv, TypeOK, read, blob
<1>5. ASSUME worker = "recv" \/ worker = "add" PROVE mount # "closed"
  BY <1>5 DEF IInv, DropInv
<1>6. CASE Recv
  <2>1. /\ queue # <<>> /\ Len(batch) < StoreBatch /\ worker = "recv"
        /\ batch' = Append(batch, Head(queue)) /\ queue' = Tail(queue)
        /\ UNCHANGED <<chunkdb, worker, handed>>
    BY <1>6 DEF Recv
  <2>2. /\ Head(queue) \in Requests /\ queue' \in Seq(Requests)
        /\ Len(queue') = Len(queue) - 1
    BY <1>2, <2>1, HeadTailProperties
  <2>3. batch' \in Seq(Requests) /\ Len(batch') = Len(batch) + 1
    BY <1>2, <2>1, <2>2, AppendProperties
  <2>4. Len(queue') <= QueueSize /\ Len(batch') <= StoreBatch
    BY <1>2, <2>1, <2>2, <2>3
  <2>5. (handed \o batch') \o queue' = sent
    <3>1. (handed \o Append(batch, Head(queue))) \o Tail(queue) = (handed \o batch) \o queue
      <4>1. /\ handed \in Seq(Requests) /\ batch \in Seq(Requests) /\ queue \in Seq(Requests)
            /\ queue # <<>>
        BY <1>2, <2>1
      <4> QED BY <4>1, QueueMoves
    <3> QED BY <1>2, <2>1, <3>1
  <2>6. QueueIsStored' /\ DropInv'
    BY <1>1, <1>5, <2>1, <2>5 DEF QueueIsStored, DropInv, IInv, Idle, read
  <2> QED BY <1>2, <1>3, <1>4, <2>1, <2>2, <2>3, <2>4, <2>6 DEF IInv
<1>7. CASE Collected \/ WorkerEnds
  <2>1. /\ worker = "recv" /\ worker' \in {"add", "ended"}
        /\ worker' = "ended" => batch = <<>> /\ queue = <<>> /\ mount # "open"
        /\ UNCHANGED <<chunkdb, queue, batch, handed>>
    BY <1>7 DEF Collected, WorkerEnds
  <2>2. QueueIsStored' /\ DropInv'
    BY <1>1, <1>2, <1>5, <2>1 DEF QueueIsStored, DropInv, IInv, Idle, read
  <2> QED BY <1>2, <1>3, <1>4, <2>1, <2>2 DEF IInv
<1>8. CASE AddChunks
  <2>1. /\ worker = "add" /\ worker' = "recv" /\ batch' = <<>> /\ handed' = handed \o batch
        /\ UNCHANGED queue
    BY <1>8 DEF AddChunks
  <2>2. PICK n \in 0 .. Len(batch) :
          chunkdb' = [k \in FileChunks |->
                        IF {i \in 1 .. n : batch[i][1] = k} = {} \/ chunkdb[k] > 0
                          THEN chunkdb[k]
                          ELSE batch[CHOOSE i \in {i \in 1 .. n : batch[i][1] = k} : TRUE][2]]
    BY <1>8 DEF AddChunks
  <2>3. \A k \in FileChunks : chunkdb'[k] = chunkdb[k] \/ chunkdb'[k] = USize(k)
    BY <1>2, <2>2, AddedWhole
  <2>4. \A k \in FileChunks : k \in Nat /\ USize(k) \in Nat
    BY FileChunkBounds, DivBounds DEF FileChunks
  <2>5. /\ chunkdb' \in [FileChunks -> Nat]
        /\ \A k \in FileChunks : chunkdb'[k] \in {0, USize(k)}
    <3>1. DOMAIN chunkdb' = FileChunks /\ chunkdb' = [k \in DOMAIN chunkdb' |-> chunkdb'[k]]
      BY <2>2
    <3>2. \A k \in FileChunks : chunkdb'[k] \in Nat /\ chunkdb'[k] \in {0, USize(k)}
      BY <1>2, <2>3, <2>4
    <3> QED BY <3>1, <3>2
  <2>6. handed' \in Seq(Requests) /\ <<>> \in Seq(Requests) /\ Len(<<>>) <= StoreBatch
    BY <1>2, <2>1, ConcatProperties, EmptySeq
  <2>7. (handed' \o batch') = handed \o batch
    BY <2>1, <2>6, ConcatEmptySeq
  <2>8. QueueIsStored' /\ DropInv'
    BY <1>1, <1>2, <1>5, <2>1, <2>7 DEF QueueIsStored, DropInv, IInv, Idle, read
  <2> QED BY <1>2, <1>3, <1>4, <2>1, <2>5, <2>6, <2>8 DEF IInv
<1> QED BY <1>6, <1>7, <1>8 DEF WorkerStep

(* Dropping the image, and joining the worker: when it has ended nothing is *)
(* left in the channel or in its batch.                                     *)
LEMMA DropSteps ==
    ASSUME IInv, DropImage \/ Joined
    PROVE  IInv'
<1>1. UNCHANGED <<blob, chunkdb, read, store, reads>>
  BY DEF DropImage, Joined
<1>2. StateInv'
  BY <1>1 DEF IInv, StateInv, TypeOK, blob, read, store, DropImage, Joined
<1>3. PositionInv' /\ ReadReturnsFile'
  BY <1>1, SameRead DEF IInv, read
<1>4. DropInv'
  BY <1>1 DEF IInv, DropInv, DropImage, Joined, Idle, read, store
<1>5. sent' = (handed' \o batch') \o queue'
  BY <1>1 DEF IInv, QueueIsStored, store
<1>6. ASSUME mount' = "closed" PROVE handed' = sent'
  <2>1. batch' = <<>> /\ queue' = <<>> /\ handed' \in Seq(Requests)
    BY <1>2, <1>4, <1>6 DEF DropInv, StateInv
  <2> QED BY <1>5, <2>1, ConcatEmptySeq
<1> QED BY <1>2, <1>3, <1>4, <1>5, <1>6 DEF IInv, QueueIsStored

(* The dedup worker of the blob, other mounts and the collector. *)
LEMMA OtherSteps ==
    ASSUME IInv,
           \/ \E i \in 0 .. (NChunks - 1) : Dedups(i)
           \/ \E k \in FileChunks : OtherAdds(k) \/ Collect(k)
           \/ UNCHANGED vars
    PROVE  IInv'
<1>1. UNCHANGED <<read, store, mount, reads>>
  BY DEF Dedups, OtherAdds, Collect, vars
<1>2. /\ records' \in SUBSET [off : 0 .. ImageSize, len : 1 .. ChunkSize, valid : {TRUE}]
      /\ \A r \in records' : End(r) <= ImageSize
  <2>1. /\ records \in SUBSET [off : 0 .. ImageSize, len : 1 .. ChunkSize, valid : {TRUE}]
        /\ \A r \in records : End(r) <= ImageSize
    BY DEF IInv, StateInv, TypeOK
  <2>2. ASSUME NEW i \in 0 .. (NChunks - 1), Dedups(i)
        PROVE  records' = records \cup {Record(i * ChunkSize, ReadSize(i * ChunkSize))}
    BY <2>2 DEF Dedups, DedupChunk
  <2>3. ASSUME NEW x \in Nat, NEW y \in 1 .. ChunkSize, x < ImageSize, x + y <= ImageSize
        PROVE  /\ Record(x, y) \in [off : 0 .. ImageSize, len : 1 .. ChunkSize, valid : {TRUE}]
               /\ End(Record(x, y)) <= ImageSize
    BY <2>3 DEF Record, End
  <2>4. ASSUME NEW i \in 0 .. (NChunks - 1), Dedups(i)
        PROVE  /\ records' \in SUBSET [off : 0 .. ImageSize, len : 1 .. ChunkSize, valid : {TRUE}]
               /\ \A r \in records' : End(r) <= ImageSize
    <3>1. /\ Record(i * ChunkSize, ReadSize(i * ChunkSize))
               \in [off : 0 .. ImageSize, len : 1 .. ChunkSize, valid : {TRUE}]
          /\ End(Record(i * ChunkSize, ReadSize(i * ChunkSize))) <= ImageSize
      BY <2>3, BlobChunkBounds
    <3> HIDE DEF Record, End
    <3> QED BY <2>1, <2>2, <2>4, <3>1
  <2>5. ASSUME UNCHANGED records
        PROVE  /\ records' \in SUBSET [off : 0 .. ImageSize, len : 1 .. ChunkSize, valid : {TRUE}]
               /\ \A r \in records' : End(r) <= ImageSize
    BY <2>1, <2>5
  <2> QED BY <2>4, <2>5 DEF OtherAdds, Collect, vars, blob
<1>3. /\ chunkdb' \in [FileChunks -> Nat]
      /\ \A k \in FileChunks : chunkdb'[k] \in {0, USize(k)}
  <2>1. /\ chunkdb \in [FileChunks -> Nat]
        /\ \A k \in FileChunks : chunkdb[k] \in {0, USize(k)}
    BY DEF IInv, StateInv, TypeOK
  <2>2. \A k \in FileChunks : USize(k) \in Nat
    BY FileChunkBounds, DivBounds DEF FileChunks
  <2>3. ASSUME NEW k \in FileChunks, OtherAdds(k) \/ Collect(k)
        PROVE  chunkdb' = [chunkdb EXCEPT ![k] = USize(k)] \/ chunkdb' = [chunkdb EXCEPT ![k] = 0]
    BY <2>3 DEF OtherAdds, Collect
  <2> QED BY <2>1, <2>2, <2>3 DEF Dedups, vars
<1>4. StateInv'
  BY <1>1, <1>2, <1>3 DEF IInv, StateInv, TypeOK, read, store
<1>5. PositionInv' /\ ReadReturnsFile'
  BY <1>1, SameRead DEF IInv, read
<1>6. DropInv' /\ QueueIsStored'
  BY <1>1, SameStore DEF IInv, read, Idle
<1> QED BY <1>4, <1>5, <1>6 DEF IInv
-----------------------------------------------------------------------------
(* The blob *)

(* The records of whole chunks lie apart. *)
LEMMA BlobDisjoint ==
    ASSUME TypeOK, BlobInv
    PROVE  Disjoint
<1>1. records \in SUBSET Recorded /\ \A r \in records : r.len > 0
  <2> SUFFICES ASSUME NEW r \in records PROVE r \in Recorded /\ r.len > 0
    BY Zenon
  <2>1. r \in [off : 0 .. ImageSize, len : 1 .. ChunkSize, valid : {TRUE}]
    BY DEF TypeOK
  <2>2. /\ r.off \in 0 .. ImageSize /\ r.len \in 1 .. ChunkSize /\ r.valid \in {TRUE}
        /\ r = [off |-> r.off, len |-> r.len, valid |-> r.valid]
    BY <2>1
  <2>3. r.off \in Nat /\ r.len \in Nat /\ r.len > 0
    BY <2>2
  <2>4. [off |-> r.off, len |-> r.len, valid |-> r.valid] \in Recorded
    BY <2>2, <2>3, Zenon DEF Recorded
  <2> QED BY <2>2, <2>3, <2>4, Zenon
<1>2. ASSUME NEW r \in records, NEW s \in records, r # s
      PROVE  End(r) <= s.off \/ End(s) <= r.off
  <2>1. PICK i \in 0 .. (NChunks - 1) : r = Record(i * ChunkSize, ReadSize(i * ChunkSize))
    BY DEF BlobInv
  <2>2. PICK j \in 0 .. (NChunks - 1) : s = Record(j * ChunkSize, ReadSize(j * ChunkSize))
    BY DEF BlobInv
  <2>3. /\ i \in Nat /\ r.off = i * ChunkSize /\ r.off \in Nat /\ End(r) <= r.off + ChunkSize
        /\ End(r) \in Nat
    BY <2>1, BlobChunkBounds DEF Record, End
  <2>4. /\ j \in Nat /\ s.off = j * ChunkSize /\ s.off \in Nat /\ End(s) <= s.off + ChunkSize
        /\ End(s) \in Nat
    BY <2>2, BlobChunkBounds DEF Record, End
  <2>5. i # j
    BY <1>2, <2>1, <2>2
  <2>6. CASE i + 1 <= j
    <3>1. (i + 1) * ChunkSize <= j * ChunkSize /\ (i + 1) * ChunkSize = i * ChunkSize + ChunkSize
      BY <2>3, <2>4, <2>6, Monotone
    <3> QED BY <2>3, <2>4, <3>1
  <2>7. CASE j + 1 <= i
    <3>1. (j + 1) * ChunkSize <= i * ChunkSize /\ (j + 1) * ChunkSize = j * ChunkSize + ChunkSize
      BY <2>3, <2>4, <2>7, Monotone
    <3> QED BY <2>3, <2>4, <3>1
  <2> QED BY <2>3, <2>4, <2>5, <2>6, <2>7
<1> QED BY <1>1, <1>2 DEF Disjoint, BlobInv

(* SegmentsTile says of the last lookup what Tiles does. *)
LEMMA SameTiles ==
    ASSUME infos \in Seq(Segments), Tiles(query[1], query[2], infos)
    PROVE  SegmentsTile
<1>1. \A i : SegmentStart(i) = query[1] + Total(SubSeq(infos, 1, i - 1))
  BY DEF SegmentStart, Total, FoldLeft, MapThenFoldSet
<1>2. Len(infos) \in Nat /\ (Len(infos) + 1) - 1 = Len(infos)
  BY LenProperties
<1>3. SubSeq(infos, 1, (Len(infos) + 1) - 1) = infos
  BY <1>2, SubSeqFull
<1>4. SegmentStart(Len(infos) + 1) = query[1] + query[2]
  BY <1>1, <1>3 DEF Tiles
<1> QED BY <1>1, <1>4 DEF SegmentsTile, Tiles

(* The bytes of the last lookup are those of its segments. *)
LEMMA SameFound ==
    ASSUME infos' \in Seq(Segments), query'[1] \in Nat
    PROVE  FoundBytes' = Found(query'[1], infos')
<1> DEFINE At(i) == SegmentStart(i)' .. (SegmentStart(i)' + infos'[i][2] - 1)
           Bt(i) == Bytes(query'[1] + Total(SubSeq(infos', 1, i - 1)), infos'[i])
           J == {j \in 1 .. Len(infos') : infos'[j][1].valid}
<1>1. \A i : SegmentStart(i)' = query'[1] + Total(SubSeq(infos', 1, i - 1))
  BY DEF SegmentStart, Total, FoldLeft, MapThenFoldSet
<1>2. FoundBytes' = UNION {At(i) : i \in J}
  BY DEF FoundBytes
<1>3. ASSUME NEW i \in 1 .. Len(infos')
      PROVE  Bt(i) = IF i \in J THEN At(i) ELSE {}
  BY <1>1 DEF Bytes
<1>4. Found(query'[1], infos') = UNION {Bt(i) : i \in 1 .. Len(infos')}
  BY DEF Found
<1>5. J \subseteq 1 .. Len(infos')
  OBVIOUS
<1> HIDE DEF At, Bt, J
<1>6. UNION {Bt(i) : i \in 1 .. Len(infos')} = UNION {At(i) : i \in J}
  BY <1>3, <1>5
<1> QED BY <1>2, <1>4, <1>6

(* A blob without records. *)
LEMMA InitBlob == Init => BlobInv
<1> SUFFICES ASSUME Init PROVE BlobInv
  OBVIOUS
<1>1. records = {} /\ query = <<0, 0>> /\ infos = <<>>
  BY DEF Init, BlobInit
<1>2. IsFiniteSet(records)
  BY <1>1, FS_EmptySet
<1>3. infos \in Seq(Segments) /\ Tiles(query[1], query[2], infos)
  BY <1>1, EmptySeq, TilesEmpty
<1> QED BY <1>1, <1>2, <1>3, SameTiles DEF BlobInv

(* What Fetch returns: the whole request in segments, and of the recorded   *)
(* bytes those before the first gap.                                        *)
LEMMA Fetched ==
    ASSUME TypeOK, BlobInv, NEW off \in Nat, NEW len \in Nat, Fetch(off, len)
    PROVE  /\ SegmentsTile'
           /\ FoundBytes' = {b \in QueryBytes' :
                               ~AtLastByte' /\ \A a \in query'[1] .. b : Covered(a)}
<1> DEFINE n == Minimum(len, ImageSize - off)
<1>1. n \in Nat
  BY DEF Fetch, Minimum
<1>2. /\ query' = <<off, n>> /\ infos' = LookupRange(off, n) /\ records' = records
  BY DEF Fetch
<1> HIDE DEF n
<1>3. query'[1] = off /\ query'[2] = n
  BY <1>2
<1>4. Disjoint
  BY BlobDisjoint
<1>5. infos' \in Seq(Segments) /\ Tiles(off, n, infos')
  BY <1>1, <1>2, <1>4, LookupTiles DEF Disjoint
<1>6. SegmentsTile'
  BY <1>3, <1>5, TilesTile
<1>7. Found(off, infos') =
        {b \in off .. (off + n - 1) : ~Behind(off) /\ \A a \in off .. b : Covered(a)}
  BY <1>1, <1>2, <1>4, LookupFinds
<1>8. FoundBytes' = Found(off, infos')
  BY <1>3, <1>5, SameFound
<1>9. AtLastByte' <=> Behind(off)
  BY <1>2, <1>3 DEF AtLastByte, Behind, End
<1>10. QueryBytes' = off .. (off + n - 1)
  BY <1>3 DEF QueryBytes
<1> QED BY <1>3, <1>6, <1>7, <1>8, <1>9, <1>10

(* The buffer that is dropped: an empty request. *)
LEMMA Dropped ==
    ASSUME query' = <<0, 0>>, infos' = <<>>
    PROVE  /\ SegmentsTile'
           /\ FoundBytes' = {b \in QueryBytes' :
                               ~AtLastByte' /\ \A a \in query'[1] .. b : Covered(a)}
<1>1. query'[1] = 0 /\ query'[2] = 0 /\ infos' \in Seq(Segments) /\ Len(infos') = 0
  BY EmptySeq
<1>2. SegmentsTile'
  BY <1>1, TilesEmpty, TilesTile
<1>3. FoundBytes' = {}
  BY <1>1 DEF FoundBytes
<1>4. QueryBytes' = {}
  BY <1>1 DEF QueryBytes
<1> QED BY <1>2, <1>3, <1>4

(* Nothing is looked up. *)
LEMMA SameLookup ==
    ASSUME query' = query, infos' = infos, SegmentsTile
    PROVE  SegmentsTile'
<1>1. \A i : SegmentStart(i)' = SegmentStart(i)
  BY DEF SegmentStart, FoldLeft, MapThenFoldSet
<1> QED BY <1>1 DEF SegmentsTile

(* What a step does to the blob. *)
LEMMA BlobCases ==
    ASSUME [Next]_vars
    PROVE  \/ UNCHANGED blob
           \/ \E off, len \in Nat : Fetch(off, len)
           \/ query' = <<0, 0>> /\ infos' = <<>> /\ records' = records
           \/ \E i \in 0 .. (NChunks - 1) : DedupChunk(i)
<1>1. \A off \in 0 .. (ImageSize - 1), len \in 1 .. ImageSize : off \in Nat /\ len \in Nat
  OBVIOUS
<1>2. CASE \E off \in 0 .. (ImageSize - 1), len \in 1 .. ImageSize : ReadBlobRange(off, len)
  BY <1>1, <1>2 DEF ReadBlobRange
<1>3. CASE Decode
  BY <1>3 DEF Decode
<1>4. CASE \E i \in 0 .. (NChunks - 1) : Dedups(i)
  BY <1>4 DEF Dedups
<1>5. CASE \E off, size \in 0 .. MaxOffset : Read(off, size)
  BY <1>5 DEF Read
<1>6. CASE ReadFromChunkDB \/ ChunkDBMiss \/ ReadHole \/ ReadBlobFails \/ WriteData \/ WriteFails
  BY <1>6 DEF ReadFromChunkDB, ChunkDBMiss, ReadHole, ReadBlobFails, WriteData, WriteFails
<1>7. CASE WorkerStep \/ DropImage \/ Joined
  BY <1>7 DEF WorkerStep, Recv, Collected, AddChunks, WorkerEnds, DropImage, Joined
<1>8. CASE \E k \in FileChunks : OtherAdds(k) \/ Collect(k)
  BY <1>8 DEF OtherAdds, Collect
<1>9. CASE UNCHANGED vars
  BY <1>9 DEF vars
<1> QED BY <1>2, <1>3, <1>4, <1>5, <1>6, <1>7, <1>8, <1>9 DEF Next, ReadStep

(* Records stay those of whole chunks, and every lookup's segments tile. *)
LEMMA BlobStep ==
    ASSUME TypeOK, BlobInv, [Next]_vars
    PROVE  BlobInv'
<1>1. CASE UNCHANGED blob
  BY <1>1, SameLookup DEF BlobInv, blob
<1>2. ASSUME NEW off \in Nat, NEW len \in Nat, Fetch(off, len) PROVE BlobInv'
  <2>1. SegmentsTile' /\ records' = records
    BY <1>2, Fetched DEF Fetch
  <2> QED BY <2>1 DEF BlobInv
<1>3. CASE query' = <<0, 0>> /\ infos' = <<>> /\ records' = records
  BY <1>3, Dropped DEF BlobInv
<1>4. ASSUME NEW i \in 0 .. (NChunks - 1), DedupChunk(i) PROVE BlobInv'
  <2> DEFINE x == Record(i * ChunkSize, ReadSize(i * ChunkSize))
  <2>1. records' = records \cup {x} /\ query' = query /\ infos' = infos
    BY <1>4 DEF DedupChunk
  <2>2. SegmentsTile'
    BY <2>1, SameLookup DEF BlobInv
  <2>3. IsFiniteSet(records')
    <3> HIDE DEF x
    <3> QED BY <2>1, FS_AddElement DEF BlobInv
  <2> QED BY <2>1, <2>2, <2>3 DEF BlobInv
<1> QED BY <1>1, <1>2, <1>3, <1>4, BlobCases

(* What dedup_range finds, step by step. *)
LEMMA FindsStep ==
    ASSUME TypeOK, BlobInv, [Next]_vars
    PROVE  [records' = records =>
              FoundBytes' = {b \in QueryBytes' :
                               ~AtLastByte' /\ \A a \in query'[1] .. b : Covered(a)}]_blob
<1> DEFINE Finds == FoundBytes' = {b \in QueryBytes' :
                                     ~AtLastByte' /\ \A a \in query'[1] .. b : Covered(a)}
<1> SUFFICES ASSUME records' = records, ~UNCHANGED blob PROVE Finds
  BY Zenon
<1>1. ASSUME NEW off \in Nat, NEW len \in Nat, Fetch(off, len) PROVE Finds
  BY <1>1, Fetched, Zenon
<1>2. CASE query' = <<0, 0>> /\ infos' = <<>> /\ records' = records
  BY <1>2, Dropped, Zenon
<1>3. ASSUME NEW i \in 0 .. (NChunks - 1), DedupChunk(i) PROVE FALSE
  BY <1>3 DEF DedupChunk, blob
<1> HIDE DEF Finds
<1> QED BY <1>1, <1>2, <1>3, BlobCases
-----------------------------------------------------------------------------
(* Lookups by chunk *)

\* Chunk i of the blob has its record.
HasRecord(i) == Record(i * ChunkSize, ReadSize(i * ChunkSize)) \in records

(* A byte has a record when its chunk has. *)
LEMMA CoveredChunk ==
    ASSUME BlobInv, NEW b \in Nat, b < ImageSize
    PROVE  Covered(b) <=> HasRecord(b \div ChunkSize)
<1> DEFINE q == b \div ChunkSize
           x == q * ChunkSize
<1>1. q \in Nat /\ x <= b /\ b < x + ChunkSize
  BY DivBounds
<1> HIDE DEF q
<1>2. x \in Nat
  BY <1>1, Monotone
<1>3. ASSUME NEW r \in records, r.off <= b, b < End(r) PROVE HasRecord(q)
  <2>1. PICK i \in 0 .. (NChunks - 1) : r = Record(i * ChunkSize, ReadSize(i * ChunkSize))
    BY DEF BlobInv
  <2>2. /\ i \in Nat /\ r.off = i * ChunkSize /\ i * ChunkSize \in Nat
        /\ End(r) <= i * ChunkSize + ChunkSize /\ End(r) \in Nat
    BY <2>1, BlobChunkBounds DEF Record, End
  <2>3. b \div ChunkSize = i
    BY <1>3, <2>2, DivIs
  <2> QED BY <2>1, <2>3 DEF HasRecord, q
<1>4. ASSUME HasRecord(q) PROVE Covered(b)
  <2> HIDE DEF x
  <2>1. Record(x, ReadSize(x)) \in records
    BY <1>4 DEF HasRecord, x
  <2>2. Record(x, ReadSize(x)).off = x /\ End(Record(x, ReadSize(x))) = x + ReadSize(x)
    BY DEF Record, End
  <2>3. b < x + ReadSize(x)
    BY <1>1, <1>2 DEF ReadSize, Minimum
  <2> QED BY <1>1, <2>1, <2>2, <2>3 DEF Covered
<1> QED BY <1>3, <1>4 DEF Covered, q

(* A range of bytes has records when the chunks that it touches have. *)
LEMMA CoveredChunks ==
    ASSUME BlobInv, NEW off \in Nat, NEW b \in Nat, off <= b, b < ImageSize
    PROVE  (\A a \in off .. b : Covered(a))
             <=> (\A k \in (off \div ChunkSize) .. (b \div ChunkSize) : HasRecord(k))
<1> DEFINE p == off \div ChunkSize
           q == b \div ChunkSize
<1>1. /\ p \in Nat /\ p * ChunkSize <= off /\ off < p * ChunkSize + ChunkSize
      /\ q \in Nat /\ q * ChunkSize <= b
  BY DivBounds
<1>2. ASSUME \A a \in off .. b : Covered(a), NEW k \in p .. q PROVE HasRecord(k)
  <2> HIDE DEF p, q
  <2>1. k \in Nat /\ k * ChunkSize \in Nat /\ k * ChunkSize <= b
    BY <1>1, Monotone
  <2>2. CASE k = p
    <3>1. Covered(off)
      BY <1>2
    <3> QED BY <2>2, <3>1, CoveredChunk DEF p
  <2>3. CASE p + 1 <= k
    <3>1. off <= k * ChunkSize
      <4>1. (p + 1) * ChunkSize <= k * ChunkSize /\ (p + 1) * ChunkSize = p * ChunkSize + ChunkSize
        BY <1>1, <2>1, <2>3, Monotone
      <4> QED BY <1>1, <2>1, <4>1
    <3>2. Covered(k * ChunkSize)
      BY <1>2, <2>1, <3>1
    <3>3. (k * ChunkSize) \div ChunkSize = k
      BY <2>1, DivIs
    <3> DEFINE y == k * ChunkSize
    <3>4. y \in Nat /\ y < ImageSize /\ Covered(y) /\ y \div ChunkSize = k
      BY <2>1, <3>2, <3>3
    <3> HIDE DEF y
    <3> QED BY <3>4, CoveredChunk
  <2> QED BY <1>1, <2>2, <2>3
<1>3. ASSUME \A k \in p .. q : HasRecord(k), NEW a \in off .. b PROVE Covered(a)
  <2>1. a \in Nat /\ a < ImageSize /\ off <= a /\ a <= b
    OBVIOUS
  <2>2. p <= a \div ChunkSize /\ a \div ChunkSize <= q /\ a \div ChunkSize \in Nat
    BY <2>1, DivMonotone, DivBounds
  <2>3. a \div ChunkSize \in p .. q
    <3> DEFINE z == a \div ChunkSize
    <3> HIDE DEF p, q, z
    <3>1. p <= z /\ z <= q /\ z \in Nat
      BY <2>2 DEF z
    <3>2. z \in p .. q
      BY <1>1, <3>1
    <3> QED BY <3>2 DEF z
  <2>4. HasRecord(a \div ChunkSize)
    BY <1>3, <2>3
  <2> QED BY <2>1, <2>4, CoveredChunk
<1> QED BY <1>2, <1>3

\* The chunks from a to b up to the first without a record: what Dedup takes a lookup to find.
ChunkLookup(a, b) == {c \in a .. b : \A k \in a .. c : HasRecord(k)}

\* A lookup of len bytes at off finds what the chunks' records say.
LookupIsByChunk ==
    \A off \in 0 .. (ImageSize - 1), len \in 1 .. ImageSize :
        off + len <= ImageSize =>
            Found(off, LookupRange(off, len)) =
              {b \in off .. (off + len - 1) :
                 /\ ~Behind(off)
                 /\ b \div ChunkSize
                      \in ChunkLookup(off \div ChunkSize, (off + len - 1) \div ChunkSize)}

(* From bytes to chunks. *)
LEMMA ByChunk ==
    ASSUME TypeOK, BlobInv
    PROVE  LookupIsByChunk
<1> SUFFICES ASSUME NEW off \in 0 .. (ImageSize - 1), NEW len \in 1 .. ImageSize,
                    off + len <= ImageSize
             PROVE  Found(off, LookupRange(off, len)) =
                      {b \in off .. (off + len - 1) :
                         /\ ~Behind(off)
                         /\ b \div ChunkSize
                              \in ChunkLookup(off \div ChunkSize, (off + len - 1) \div ChunkSize)}
  BY DEF LookupIsByChunk
<1> DEFINE p == off \div ChunkSize
           q == (off + len - 1) \div ChunkSize
           F == Found(off, LookupRange(off, len))
<1>1. F = {b \in off .. (off + len - 1) : ~Behind(off) /\ \A a \in off .. b : Covered(a)}
  <2>1. off \in Nat /\ len \in Nat
    OBVIOUS
  <2> QED BY <2>1, BlobDisjoint, LookupFinds
<1>2. ASSUME NEW b \in off .. (off + len - 1)
      PROVE  (\A a \in off .. b : Covered(a)) <=> b \div ChunkSize \in ChunkLookup(p, q)
  <2>1. off \in Nat /\ b \in Nat /\ off <= b /\ b < ImageSize /\ b <= off + len - 1
        /\ off + len - 1 \in Nat
    OBVIOUS
  <2>2. /\ p \in Nat /\ q \in Nat /\ b \div ChunkSize \in Nat
        /\ p <= b \div ChunkSize /\ b \div ChunkSize <= q
    BY <2>1, DivMonotone, DivBounds
  <2> DEFINE z == b \div ChunkSize
  <2>3. z \in p .. q
    <3>1. p \in Nat /\ q \in Nat /\ z \in Nat /\ p <= z /\ z <= q
      BY <2>2
    <3> HIDE DEF p, q, z
    <3> QED BY <3>1
  <2>4. (\A a \in off .. b : Covered(a)) <=> (\A k \in p .. z : HasRecord(k))
    BY <2>1, CoveredChunks
  <2> HIDE DEF p, q, z
  <2>5. z \in ChunkLookup(p, q) <=> (\A k \in p .. z : HasRecord(k))
    BY <2>3 DEF ChunkLookup
  <2> QED BY <2>4, <2>5 DEF z
<1> HIDE DEF p, q, F
<1>3. F = {b \in off .. (off + len - 1) :
             ~Behind(off) /\ b \div ChunkSize \in ChunkLookup(p, q)}
  BY <1>1, <1>2
<1> QED BY <1>3 DEF F, p, q

\* dedup_check_range of chunk i: one segment without a record, one with it, or for a
\* shorter last chunk that has one its record and what lies behind the image.
CheckSeesChunk ==
    \A i \in 0 .. (NChunks - 1) :
        LET off == i * ChunkSize
            size == ReadSize(off)
        IN LookupRange(off, ChunkSize) =
             IF ~HasRecord(i) THEN << <<Gap(off, ChunkSize), ChunkSize>> >>
             ELSE IF size = ChunkSize THEN << <<Record(off, size), size>> >>
             ELSE << <<Record(off, size), size>>,
                     <<Gap(off + size, ChunkSize - size), ChunkSize - size>> >>

(* Once the loop is done, the records that are left change nothing. *)
LEMMA DoneStays ==
    ASSUME NEW n \in Nat, 1 <= n, NEW w, NEW acc, acc[1].done,
           \A k \in 1 .. n : acc[k] = WalkStep(acc[k - 1], w[k])
    PROVE  acc[n] = acc[1]
<1> DEFINE Bad == {k \in 1 .. n : acc[k] # acc[1]}
<1>1. Bad = {}
  <2> SUFFICES ASSUME Bad # {} PROVE FALSE
    OBVIOUS
  <2>1. Bad \subseteq Nat
    OBVIOUS
  <2>2. PICK k \in Bad : \A y \in Bad : k <= y
    <3> HIDE DEF Bad
    <3> QED BY <2>1, LeastNumber
  <2>3. k \in 1 .. n /\ k # 1 /\ k - 1 \in 1 .. n /\ k - 1 \notin Bad
    BY <2>2
  <2>4. acc[k - 1] = acc[1] /\ acc[k] = WalkStep(acc[k - 1], w[k])
    BY <2>3
  <2>5. WalkStep(acc[1], w[k]) = acc[1]
    BY Zenon DEF WalkStep
  <2> QED BY <2>2, <2>4, <2>5
<1>2. n \in 1 .. n
  OBVIOUS
<1> QED BY <1>1, <1>2

(* The records that the walk from a chunk's start meets: the chunk's own    *)
(* first, if it has one, and those of later chunks.                         *)
LEMMA WalkFromChunk ==
    ASSUME TypeOK, BlobInv, NEW i \in 0 .. (NChunks - 1), NEW off, off = i * ChunkSize,
           NEW n \in Nat, NEW w, Ordered(off, w, n)
    PROVE  /\ \A k \in 1 .. n : \/ w[k] = Record(off, ReadSize(off))
                                \/ w[k].off >= off + ChunkSize
           /\ HasRecord(i) => n >= 1 /\ w[1] = Record(off, ReadSize(off))
           /\ HasRecord(i) /\ ReadSize(off) < ChunkSize => n = 1
<1>1. Disjoint
  BY BlobDisjoint
<1>2. /\ i \in Nat /\ off \in Nat /\ off < ImageSize /\ ReadSize(off) \in 1 .. ChunkSize
      /\ off + ReadSize(off) <= ImageSize
  BY BlobChunkBounds
<1>3. ASSUME NEW k \in 1 .. n
      PROVE  /\ w[k] = Record(off, ReadSize(off)) \/ w[k].off >= off + ChunkSize
             /\ End(w[k]) > off /\ End(w[k]) \in Nat /\ w[k].off \in Nat /\ w[k].off < ImageSize
             /\ w[k] \in records
  <2>1. w[k] \in records /\ ~KeyLess(Key(w[k]), LowerKey(off))
    BY DEF Ordered
  <2>2. End(w[k]) \in Nat /\ w[k].off \in Nat
    BY <1>1, <2>1, Extent
  <2>3. End(w[k]) > off
    BY <1>2, <2>1, <2>2 DEF KeyLess, Key, LowerKey
  <2>4. PICK j \in 0 .. (NChunks - 1) : w[k] = Record(j * ChunkSize, ReadSize(j * ChunkSize))
    BY <2>1 DEF BlobInv
  <2>5. /\ j \in Nat /\ w[k].off = j * ChunkSize /\ j * ChunkSize \in Nat
        /\ End(w[k]) <= j * ChunkSize + ChunkSize /\ j * ChunkSize < ImageSize
    BY <2>4, BlobChunkBounds DEF Record, End
  <2>6. CASE j + 1 <= i
    <3>1. (j + 1) * ChunkSize <= i * ChunkSize /\ (j + 1) * ChunkSize = j * ChunkSize + ChunkSize
      BY <1>2, <2>5, <2>6, Monotone
    <3> QED BY <1>2, <2>2, <2>3, <2>5, <3>1
  <2>7. CASE j = i
    BY <2>1, <2>2, <2>3, <2>4, <2>5, <2>7
  <2>8. CASE i + 1 <= j
    <3>1. (i + 1) * ChunkSize <= j * ChunkSize /\ (i + 1) * ChunkSize = i * ChunkSize + ChunkSize
      BY <1>2, <2>5, <2>8, Monotone
    <3>2. w[k].off >= off + ChunkSize
      BY <2>5, <3>1
    <3> QED BY <2>1, <2>2, <2>3, <2>5, <3>2
  <2> QED BY <1>2, <2>5, <2>6, <2>7, <2>8
<1>4. ASSUME HasRecord(i) PROVE n >= 1 /\ w[1] = Record(off, ReadSize(off))
  <2> DEFINE r == Record(off, ReadSize(off))
  <2>1. r \in records /\ r.off = off /\ End(r) = off + ReadSize(off)
    BY <1>4 DEF HasRecord, Record, End
  <2> HIDE DEF r
  <2>2. ~KeyLess(Key(r), LowerKey(off))
    BY <1>2, <2>1 DEF KeyLess, Key, LowerKey
  <2>3. PICK k \in 1 .. n : w[k] = r
    BY <2>1, <2>2 DEF Ordered
  <2>4. CASE k = 1
    BY <2>3, <2>4 DEF r
  <2>5. CASE 1 < k
    <3>1. 1 \in 1 .. n
      BY <2>5
    <3>2. End(w[1]) <= off
      BY <2>1, <2>3, <2>5, <3>1 DEF Ordered
    <3> QED BY <1>2, <1>3, <3>1, <3>2
  <2> QED BY <2>4, <2>5
<1>5. ASSUME HasRecord(i), ReadSize(off) < ChunkSize PROVE n = 1
  <2>1. n >= 1 /\ w[1] = Record(off, ReadSize(off))
    BY <1>4, <1>5
  <2>2. off + ReadSize(off) = ImageSize
    BY <1>2, <1>5 DEF ReadSize, Minimum
  <2>3. End(w[1]) = ImageSize
    BY <2>1, <2>2 DEF Record, End
  <2>4. ASSUME 2 <= n PROVE FALSE
    <3>1. 1 \in 1 .. n /\ 2 \in 1 .. n /\ 1 < 2
      BY <2>4
    <3>2. End(w[1]) <= w[2].off
      BY <3>1 DEF Ordered
    <3>3. w[2].off \in Nat /\ w[2].off < ImageSize
      BY <1>3, <3>1
    <3> QED BY <2>3, <3>2, <3>3
  <2> QED BY <2>1, <2>4
<1> QED BY <1>3, <1>4, <1>5

(* Two segments in a row. *)
LEMMA Pair ==
    ASSUME NEW e, NEW g
    PROVE  <<e>> \o <<g>> = <<e, g>>
<1> DEFINE s == <<e>> \o <<g>>
           t == <<e, g>>
           S == {e, g}
<1>1. <<e>> \in Seq(S) /\ <<g>> \in Seq(S) /\ Len(<<e>>) = 1 /\ Len(<<g>>) = 1
  OBVIOUS
<1>2. s \in Seq(S) /\ Len(s) = 2 /\ s[1] = e /\ s[2] = g
  BY <1>1, ConcatProperties
<1>3. t \in Seq(S) /\ Len(t) = 2 /\ t[1] = e /\ t[2] = g
  OBVIOUS
<1> HIDE DEF s, t
<1>4. \A k \in 1 .. Len(s) : s[k] = t[k]
  BY <1>2, <1>3
<1>5. s = t
  BY <1>2, <1>3, <1>4, SeqEqual
<1> QED BY <1>5 DEF s, t

\* What the walk from off meets when size bytes lie there: their record first.
Meets(off, size, w, n) ==
    /\ \A k \in 1 .. n : w[k] = Record(off, size) \/ w[k].off >= off + ChunkSize
    /\ Record(off, size) \in records => n >= 1 /\ w[1] = Record(off, size)
    /\ Record(off, size) \in records /\ size < ChunkSize => n = 1

(* What a lookup of CHUNK_SIZE bytes returns then. *)
LEMMA CheckAt ==
    ASSUME Disjoint, NEW off \in Nat, NEW size \in 1 .. ChunkSize,
           \A w : \A n \in Nat : Ordered(off, w, n) => Meets(off, size, w, n)
    PROVE  LookupRange(off, ChunkSize) =
             IF Record(off, size) \notin records THEN << <<Gap(off, ChunkSize), ChunkSize>> >>
             ELSE IF size = ChunkSize THEN << <<Record(off, size), size>> >>
             ELSE << <<Record(off, size), size>>,
                     <<Gap(off + size, ChunkSize - size), ChunkSize - size>> >>
<1> DEFINE base == [off |-> off, len |-> ChunkSize, infos |-> <<>>, done |-> ChunkSize = 0]
           w == Walk(off)
           last == Walked(base, w)
<1>1. off \in Nat /\ size \in Nat /\ 1 <= size /\ size <= ChunkSize
  OBVIOUS
<1>2. PICK n \in Nat : Ordered(off, w, n)
  BY WalkOrdered
<1> HIDE DEF w
<1>3. DOMAIN w = 1 .. n /\ \A k \in 1 .. n : w[k] \in Recorded
  <2>1. DOMAIN w = 1 .. n /\ \A k \in 1 .. n : w[k] \in records
    BY <1>2 DEF Ordered
  <2> QED BY <2>1 DEF Disjoint
<1>4. PICK acc : /\ acc[0] = base
                 /\ \A k \in 1 .. n : acc[k] = WalkStep(acc[k - 1], w[k])
                 /\ last = acc[n]
  <2> HIDE DEF base
  <2> QED BY <1>3, WalkFold
<1>5. LookupRange(off, ChunkSize) = last.infos \o Rest(last)
  BY Zenon DEF LookupRange, Walked, w
<1>6. /\ base \in [off : Nat, len : Nat, infos : Seq(Segments), done : BOOLEAN]
      /\ base.off = off /\ base.len = ChunkSize /\ base.infos = <<>>
      /\ base.done = FALSE
  BY <1>1, EmptySeq
<1> HIDE DEF base, last
<1>7. 1 <= n => acc[1] = WalkStep(base, w[1]) /\ w[1] \in Recorded
  <2>1. 1 <= n => 1 \in 1 .. n /\ 1 - 1 = 0
    OBVIOUS
  <2> QED BY <1>3, <1>4, <2>1
<1>8. /\ \A k \in 1 .. n : w[k] = Record(off, size) \/ w[k].off >= off + ChunkSize
      /\ Record(off, size) \in records => n >= 1 /\ w[1] = Record(off, size)
      /\ Record(off, size) \in records /\ size < ChunkSize => n = 1
  BY <1>2 DEF Meets
<1>9. CASE Record(off, size) \notin records
  <2> DEFINE e == <<Gap(off, ChunkSize), ChunkSize>>
  <2>1. CASE n = 0
    <3>1. last = base
      BY <1>4, <2>1
    <3>2. Rest(last) = <<e>>
      BY <1>6, <3>1 DEF Rest
    <3> HIDE DEF e
    <3>3. <<>> \o <<e>> = <<e>>
      OBVIOUS
    <3>4. LookupRange(off, ChunkSize) = <<e>>
      BY <1>5, <1>6, <3>1, <3>2, <3>3
    <3> QED BY <1>9, <3>4 DEF e
  <2>2. CASE n >= 1
    <3>1. w[1].off >= off + ChunkSize /\ w[1].off \in Nat /\ w[1] \in Recorded
      <4>1. 1 \in 1 .. n
        BY <2>2
      <4>2. w[1] \in records
        BY <1>2, <4>1 DEF Ordered
      <4>3. w[1] # Record(off, size)
        BY <1>9, <4>2
      <4> QED BY <1>3, <1>8, <4>1, <4>3, RecordedFields
    <3>2. w[1].off > base.off /\ ~(w[1].off <= base.off)
      BY <1>1, <1>6, <3>1
    <3>3. PICK x \in Nat, d \in BOOLEAN :
            /\ x = Minimum(w[1].off - base.off, base.len)
            /\ d = (base.len - x = 0 \/ w[1].off >= base.off + base.len)
            /\ WalkStep(base, w[1]) =
                 [off |-> base.off + x, len |-> base.len - x,
                  infos |-> Append(base.infos, <<Gap(base.off, x), x>>), done |-> d]
      BY <1>6, <3>1, <3>2, WalkStepCases, Zenon
    <3>4. x = ChunkSize
      BY <1>1, <1>6, <3>1, <3>3 DEF Minimum
    <3>5. base.len - x = 0
      BY <1>6, <3>4
    <3>6. d = TRUE
      BY <3>3, <3>5
    <3>7. /\ acc[1].len = 0 /\ acc[1].done = TRUE
          /\ acc[1].infos = Append(<<>>, <<Gap(off, ChunkSize), ChunkSize>>)
      <4>1. acc[1] = [off |-> base.off + x, len |-> base.len - x,
                      infos |-> Append(base.infos, <<Gap(base.off, x), x>>), done |-> d]
        BY <1>7, <2>2, <3>3, Zenon
      <4>2. /\ acc[1].len = base.len - x /\ acc[1].done = d
            /\ acc[1].infos = Append(base.infos, <<Gap(base.off, x), x>>)
        BY <4>1
      <4> QED BY <1>6, <3>4, <3>5, <3>6, <4>2, Zenon
    <3>8. last = acc[1]
      <4>1. acc[1].done
        BY <3>7
      <4> QED BY <1>4, <2>2, <4>1, DoneStays
    <3> HIDE DEF e
    <3>9. last.infos = <<e>> /\ Rest(last) = <<>>
      BY <3>7, <3>8 DEF Rest, e
    <3>10. <<e>> \o <<>> = <<e>>
      OBVIOUS
    <3>11. LookupRange(off, ChunkSize) = <<e>>
      BY <1>5, <3>9, <3>10
    <3> QED BY <1>9, <3>11 DEF e
  <2> QED BY <2>1, <2>2
<1>10. CASE Record(off, size) \in records
  <2> DEFINE r == Record(off, size)
             e == <<r, size>>
  <2>1. n >= 1 /\ w[1] = r /\ w[1] \in Recorded
    BY <1>7, <1>8, <1>10
  <2>2. r.off = off /\ End(r) = off + size
    BY DEF Record, End
  <2> HIDE DEF r
  <2>3. r.off <= base.off /\ End(r) > base.off /\ ~(r.off > base.off) /\ ~(End(r) <= base.off)
    BY <1>1, <1>6, <2>2
  <2>4. PICK x \in Nat, d \in BOOLEAN :
          /\ x = Minimum(End(r) - base.off, base.len)
          /\ d = (base.len - x = 0 \/ r.off >= base.off + base.len)
          /\ WalkStep(base, r) =
               [off |-> base.off + x, len |-> base.len - x,
                infos |-> Append(base.infos, <<r, x>>), done |-> d]
    <3>1. r \in Recorded
      BY <2>1
    <3> QED BY <1>6, <2>3, <3>1, WalkStepCases, Zenon
  <2>5. x = size
    BY <1>1, <1>6, <2>2, <2>4 DEF Minimum
  <2>6. /\ acc[1].off = off + size /\ acc[1].len = ChunkSize - size /\ acc[1].done = d
        /\ acc[1].infos = Append(<<>>, <<r, size>>)
    <3>1. acc[1] = [off |-> base.off + x, len |-> base.len - x,
                    infos |-> Append(base.infos, <<r, x>>), done |-> d]
      BY <1>7, <2>1, <2>4, Zenon
    <3>2. /\ acc[1].off = base.off + x /\ acc[1].len = base.len - x /\ acc[1].done = d
          /\ acc[1].infos = Append(base.infos, <<r, x>>)
      BY <3>1
    <3> QED BY <1>6, <2>5, <3>2, Zenon
  <2> HIDE DEF e
  <2>7. acc[1].infos = <<e>>
    BY <2>6 DEF e
  <2>8. CASE size = ChunkSize
    <3>1. ChunkSize - size = 0
      BY <1>1, <2>8
    <3>2. d = TRUE
      BY <1>6, <2>4, <2>5, <3>1
    <3>3. last = acc[1]
      <4>1. acc[1].done
        BY <2>6, <3>2
      <4> QED BY <1>4, <2>1, <4>1, DoneStays
    <3>4. last.infos = <<e>> /\ Rest(last) = <<>>
      BY <2>6, <2>7, <3>1, <3>3 DEF Rest
    <3>5. <<e>> \o <<>> = <<e>>
      OBVIOUS
    <3>6. LookupRange(off, ChunkSize) = <<e>>
      BY <1>5, <3>4, <3>5
    <3> QED BY <1>10, <2>8, <3>6 DEF e, r
  <2>9. CASE size # ChunkSize
    <3> DEFINE g == <<Gap(off + size, ChunkSize - size), ChunkSize - size>>
    <3>1. size < ChunkSize /\ ChunkSize - size # 0
      BY <1>1, <2>9
    <3>2. n = 1
      BY <1>8, <1>10, <3>1
    <3>3. last = acc[1]
      BY <1>4, <3>2
    <3>4. last.infos = <<e>> /\ Rest(last) = <<g>>
      BY <2>6, <2>7, <3>1, <3>3 DEF Rest
    <3> HIDE DEF g
    <3>5. <<e>> \o <<g>> = <<e, g>>
      BY Pair, Zenon
    <3>6. LookupRange(off, ChunkSize) = <<e, g>>
      BY <1>5, <3>4, <3>5
    <3> QED BY <1>10, <2>9, <3>6 DEF e, r, g
  <2> QED BY <2>8, <2>9
<1> QED BY <1>9, <1>10

(* What dedup_check_range sees of a chunk. *)
LEMMA ChunkCheck == TypeOK /\ BlobInv => CheckSeesChunk
<1> SUFFICES ASSUME TypeOK, BlobInv, NEW i \in 0 .. (NChunks - 1), NEW off, off = i * ChunkSize,
                    NEW size, size = ReadSize(off)
             PROVE  LookupRange(off, ChunkSize) =
                      IF ~HasRecord(i) THEN << <<Gap(off, ChunkSize), ChunkSize>> >>
                      ELSE IF size = ChunkSize THEN << <<Record(off, size), size>> >>
                      ELSE << <<Record(off, size), size>>,
                              <<Gap(off + size, ChunkSize - size), ChunkSize - size>> >>
  BY DEF CheckSeesChunk
<1>1. off \in Nat /\ size \in 1 .. ChunkSize
  BY BlobChunkBounds
<1>2. HasRecord(i) <=> Record(off, size) \in records
  BY DEF HasRecord
<1>3. \A w : \A n \in Nat : Ordered(off, w, n) => Meets(off, size, w, n)
  BY WalkFromChunk, <1>2 DEF Meets
<1>4. Disjoint
  BY BlobDisjoint
<1> QED BY <1>1, <1>2, <1>3, <1>4, CheckAt
-----------------------------------------------------------------------------
(* The theorems *)

(* A new image satisfies the invariant. *)
LEMMA InitIInv == Init => IInv
<1> SUFFICES ASSUME Init PROVE IInv
  OBVIOUS
<1>1. <<>> \in Seq(Requests) /\ <<>> \in Seq(Nat)
  BY EmptySeq
<1>2. 0 \in FileChunks /\ \A k \in FileChunks : chunkdb[k] = 0
  BY DivBounds DEF Init, FileChunks
<1>3. TypeOK
  BY <1>2 DEF Init, BlobInit, TypeOK
<1>4. StateInv
  BY <1>1, <1>3 DEF Init, StateInv
<1>5. PositionInv /\ ReadReturnsFile /\ DropInv
  BY DEF Init, PositionInv, Reading, ReadReturnsFile, DropInv
<1>6. (<<>> \o <<>>) \o <<>> = <<>>
  BY <1>1, ConcatEmptySeq
<1>7. QueueIsStored
  BY <1>6 DEF Init, QueueIsStored
<1> QED BY <1>4, <1>5, <1>7 DEF IInv

(* The inductive invariant holds in every reachable state. *)
THEOREM Invariance == Spec => []IInv
<1>1. IInv /\ [Next]_vars => IInv'
  BY ReadStarts, ReadSteps, WriteSteps, WorkerSteps, DropSteps, OtherSteps DEF Next, ReadStep
<1> QED BY <1>1, InitIInv, PTL DEF Spec

(* Type correctness: records stay inside the blob, ChunkDB holds a chunk    *)
(* whole or not at all, and the queue and the batch keep their bounds.      *)
THEOREM TypeCorrect == Spec => []TypeOK
<1>1. IInv => TypeOK BY DEF IInv, StateInv
<1> QED BY <1>1, Invariance, PTL

(* A read returns the file from its offset on, for every size of the file   *)
(* and of its chunks and whatever happens to ChunkDB meanwhile.             *)
THEOREM ReadsReturnTheFile == Spec => []ReadReturnsFile
<1>1. IInv => ReadReturnsFile BY DEF IInv
<1> QED BY <1>1, Invariance, PTL

(* The worker hands on what the channel took, once and in order, and all of *)
(* it before the image is gone.                                             *)
THEOREM QueuesAreStored == Spec => []QueueIsStored
<1>1. IInv => QueueIsStored BY DEF IInv
<1> QED BY <1>1, Invariance, PTL

(* What the blob's part of the invariant adds to it. *)
THEOREM BlobInvariance == Spec => []BlobInv
<1>1. IInv => TypeOK BY DEF IInv, StateInv
<1> QED BY <1>1, InitBlob, BlobStep, Invariance, PTL DEF Spec

(* dedup_range returns the request, cut without gap or overlap, and every   *)
(* segment lies inside its info, whatever is recorded.                      *)
THEOREM LookupsTileRequests == Spec => []SegmentsTile
<1>1. BlobInv => SegmentsTile BY DEF BlobInv
<1> QED BY <1>1, BlobInvariance, PTL

(* dedup_range finds the recorded bytes up to the first gap, or nothing at  *)
(* the last byte of a longer record: no more and no less.                   *)
THEOREM LookupsFindThePrefix == Spec => FindsPrefix
<1>1. IInv => TypeOK BY DEF IInv, StateInv
<1> QED BY <1>1, FindsStep, Invariance, BlobInvariance, PTL DEF Spec, FindsPrefix

(* dedup_range works by chunks: from the offset's chunk on it finds the     *)
(* chunks that have a record, up to the first that has none, whatever the   *)
(* order in which their records came.  Dedup's Lookup is this.              *)
THEOREM LookupsGoByChunk == Spec => []LookupIsByChunk
<1>1. IInv => TypeOK BY DEF IInv, StateInv
<1> QED BY <1>1, ByChunk, Invariance, BlobInvariance, PTL

(* What dedup_check_range sees of every chunk, whatever is recorded: a      *)
(* chunk without a record always gets one, a whole one that has its record  *)
(* is left to gc_chunk, and a shorter last one that has it is refused.      *)
THEOREM ChecksSeeTheirChunk == Spec => []CheckSeesChunk
<1>1. IInv => TypeOK BY DEF IInv, StateInv
<1> QED BY <1>1, ChunkCheck, Invariance, BlobInvariance, PTL
=============================================================================
