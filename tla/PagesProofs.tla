---------------------------- MODULE PagesProofs ----------------------------
(***************************************************************************)
(* Proofs about the pages of the bitmap build, for words, pages and        *)
(* objects of any sizes: the bits that are set are those of the objects,   *)
(* and what heap_alloc hands out and the sweep finalizes is as ObjectStore *)
(* says.                                                                   *)
(***************************************************************************)
EXTENDS BitmapPages, FiniteSetTheorems, WellFoundedInduction, TLAPS

-----------------------------------------------------------------------------
(* Numbers.                                                                *)

(* A set of numbers that has a member has a least one.                     *)
LEMMA LeastNumber ==
  ASSUME NEW S \in SUBSET Nat, S # {}
  PROVE  \E n \in S : \A m \in S : n <= m
<1> DEFINE T == {1 .. n : n \in S}
<1>1. T \subseteq FiniteSubsetsOf(Nat)
  BY FS_Interval DEF FiniteSubsetsOf
<1>2. PICK x \in T : \A y \in T : <<y, x>> \notin StrictSubsetOrdering(Nat)
  <2>1. T # {}
    OBVIOUS
  <2>. QED
    BY <1>1, <2>1, WFMin, FS_StrictSubsetOrderingWellFounded
<1>3. PICK n \in S : x = 1 .. n
  OBVIOUS
<1>4. ASSUME NEW m \in S, m < n
      PROVE  FALSE
  <2>1. 1 .. m \subseteq 1 .. n /\ n \in 1 .. n /\ n \notin 1 .. m
    BY <1>4
  <2>2. <<1 .. m, x>> \in StrictSubsetOrdering(Nat)
    BY <1>3, <2>1 DEF StrictSubsetOrdering
  <2>. QED
    BY <1>2, <2>2
<1>. QED
  BY <1>4

(* What is so at first and stays so at every step is so at the last.       *)
LEMMA StepByStep ==
  ASSUME NEW m \in Nat, NEW P, 0 \in P, \A k \in 1 .. m : k - 1 \in P => k \in P
  PROVE  \A k \in 0 .. m : k \in P
<1> DEFINE S == {k \in 0 .. m : k \notin P}
<1>1. SUFFICES ASSUME S # {}
               PROVE  FALSE
  OBVIOUS
<1>2. PICK c \in S : \A e \in S : c <= e
  <2>1. S \in SUBSET Nat
    OBVIOUS
  <2>. HIDE DEF S
  <2>. QED
    BY <1>1, <2>1, LeastNumber
<1>3. c \in 0 .. m /\ c \notin P /\ c # 0
  BY <1>2
<1>4. c \in 1 .. m /\ c - 1 \in 0 .. m /\ c - 1 \notin S
  BY <1>2, <1>3
<1>. QED
  BY <1>3, <1>4

(* Iterating a function.                                                   *)
Iterates(g, x, m, f) ==
  f = [k \in 0 .. m |-> IF k = 0 THEN x ELSE g[f[k - 1]]]

LEMMA IteratesExist ==
  ASSUME NEW g, NEW x, NEW m \in Nat
  PROVE  \E f : Iterates(g, x, m, f)
<1> DEFINE S == {c \in Nat : ~ \E f : Iterates(g, x, c, f)}
<1>1. SUFFICES ASSUME S # {}
               PROVE  FALSE
  OBVIOUS
<1>2. PICK c \in S : \A e \in S : c <= e
  <2>1. S \in SUBSET Nat
    OBVIOUS
  <2>. HIDE DEF S
  <2>. QED
    BY <1>1, <2>1, LeastNumber
<1>3. c \in Nat /\ ~ \E f : Iterates(g, x, c, f)
  BY <1>2
<1>4. CASE c = 0
  <2> DEFINE f == [k \in 0 .. c |-> x]
  <2>1. f = [k \in 0 .. c |-> IF k = 0 THEN x ELSE g[f[k - 1]]]
    BY <1>4
  <2>. HIDE DEF f
  <2>2. Iterates(g, x, c, f)
    BY <2>1 DEF Iterates
  <2>. QED
    BY <1>3, <2>2
<1>5. CASE c # 0
  <2>1. c - 1 \in Nat /\ c - 1 \notin S
    BY <1>2, <1>3, <1>5
  <2>2. PICK h : Iterates(g, x, c - 1, h)
    BY <2>1
  <2>3. h = [k \in 0 .. c - 1 |-> IF k = 0 THEN x ELSE g[h[k - 1]]]
    BY <2>2 DEF Iterates
  <2> DEFINE f == [k \in 0 .. c |-> IF k = c THEN g[h[c - 1]] ELSE h[k]]
  <2>4. \A k \in 0 .. c : f[k] = IF k = 0 THEN x ELSE g[f[k - 1]]
    <3>1. SUFFICES ASSUME NEW k \in 0 .. c
                   PROVE  f[k] = IF k = 0 THEN x ELSE g[f[k - 1]]
      OBVIOUS
    <3>2. CASE k = c
      <4>1. f[k] = g[h[c - 1]] /\ f[k - 1] = h[c - 1]
        BY <1>3, <1>5, <3>2
      <4>. QED
        BY <1>5, <3>2, <4>1
    <3>3. CASE k # c
      <4>1. k \in 0 .. c - 1
        BY <1>3, <3>3
      <4>2. h[k] = IF k = 0 THEN x ELSE g[h[k - 1]]
        BY <2>3, <4>1
      <4>3. f[k] = h[k]
        BY <3>3
      <4>4. k # 0 => f[k - 1] = h[k - 1]
        BY <1>3, <4>1
      <4>. HIDE DEF f
      <4>. QED
        BY <4>2, <4>3, <4>4
    <3>. QED
      BY <3>2, <3>3
  <2>5. f = [k \in 0 .. c |-> f[k]]
    OBVIOUS
  <2>. HIDE DEF f
  <2>6. Iterates(g, x, c, f)
    BY <2>4, <2>5 DEF Iterates
  <2>. QED
    BY <1>3, <2>6
<1>. QED
  BY <1>4, <1>5

LEMMA LeastIsMin ==
  ASSUME NEW S \in SUBSET Nat, S # {}
  PROVE  Min(S) \in S
<1>1. PICK m \in S : \A x \in S : m <= x
  BY LeastNumber
<1>. QED
  BY <1>1 DEF Min

LEMMA GreatestIsMax ==
  ASSUME NEW n \in Nat, NEW S \in SUBSET (1 .. n), S # {}
  PROVE  Max(S) \in S
<1> DEFINE T == {n - x : x \in S}
<1>1. T \in SUBSET Nat /\ T # {}
  <2>1. \A x \in S : n - x \in Nat
    OBVIOUS
  <2>2. PICK x \in S : TRUE
    OBVIOUS
  <2>3. n - x \in T
    OBVIOUS
  <2>. QED
    BY <2>1, <2>3
<1>2. PICK t \in T : \A u \in T : t <= u
  <2>. HIDE DEF T
  <2>. QED
    BY <1>1, LeastNumber
<1>3. PICK m \in S : t = n - m
  BY <1>2
<1>4. \A x \in S : m >= x
  BY <1>2, <1>3
<1>. QED
  BY <1>3, <1>4 DEF Max

LEMMA NoMultipleBetween ==
  ASSUME NEW c \in Int, NEW m \in Int, m > 0, 0 < c * m, c * m < m
  PROVE  FALSE
<1>1. CASE c >= 1
  BY <1>1
<1>2. CASE c <= 0
  BY <1>2
<1>. QED
  BY <1>1, <1>2

LEMMA Divided ==
  ASSUME NEW n \in Nat, n > 0, NEW a \in Nat
  PROVE  /\ a \div n \in Nat /\ a % n \in 0 .. n - 1
         /\ a = (a \div n) * n + (a % n)
<1> DEFINE q == a \div n
           r == a % n
<1>1. r = a - n * q /\ q \in Int
  BY Z3
<1>2. r \in 0 .. n - 1
  OBVIOUS
<1>3. q \in Nat
  OBVIOUS
<1>. HIDE DEF q, r
<1>4. n * q = q * n /\ n * q \in Int
  BY <1>1
<1>5. a = q * n + r
  BY <1>1, <1>2, <1>4
<1>6. q \in Nat /\ r \in 0 .. n - 1 /\ a = q * n + r
  BY <1>2, <1>3, <1>5
<1>. QED
  BY <1>6 DEF q, r

(* The only quotient and remainder there are.                              *)
LEMMA DividedOnce ==
  ASSUME NEW n \in Nat, n > 0, NEW q \in Nat, NEW r \in 0 .. n - 1
  PROVE  (q * n + r) \div n = q /\ (q * n + r) % n = r
<1> DEFINE a == q * n + r
           p == a \div n
           s == a % n
<1>1. a \in Nat
  BY DEF a
<1>2. p \in Nat /\ s \in 0 .. n - 1 /\ a = p * n + s
  <2>. HIDE DEF a
  <2>. QED
    BY <1>1, Divided
<1>. HIDE DEF p, s
<1>3. p * n - q * n = r - s
  BY <1>2
<1>4. (p - q) * n = p * n - q * n /\ (q - p) * n = q * n - p * n
  BY <1>2
<1>5. CASE p = q
  BY <1>2, <1>3, <1>5 DEF p, s
<1>6. CASE p > q
  <2>1. 0 < (p - q) * n
    BY <1>2, <1>6
  <2>2. (p - q) * n < n
    BY <1>2, <1>3, <1>4
  <2>. QED
    BY <1>2, <2>1, <2>2, NoMultipleBetween
<1>7. CASE p < q
  <2>1. 0 < (q - p) * n
    BY <1>2, <1>7
  <2>2. (q - p) * n < n
    BY <1>2, <1>3, <1>4
  <2>. QED
    BY <1>2, <2>1, <2>2, NoMultipleBetween
<1>. QED
  BY <1>2, <1>5, <1>6, <1>7

-----------------------------------------------------------------------------
(* The bits of a range of units.                                           *)

ChunkSet == [word : Nat, bits : SUBSET (0 .. UNIT_SIZE - 1)]

\* The bit of unit u is in a part of a word.
Covered(chunks, u) ==
  \E c \in chunks : c.word = u \div UNIT_SIZE /\ u % UNIT_SIZE \in c.bits

\* The loop through n units from i on after k rounds, or sooner.
Cutting(i, n, k) ==
  {s \in [index : Nat, size : Nat, chunks : SUBSET ChunkSet] :
     /\ i <= s.index /\ s.index + s.size = i + n /\ s.size <= n - k
     /\ \A u \in Nat : Covered(s.chunks, u) <=> i <= u /\ u < s.index}

LEMMA WordAndBit ==
  /\ UNIT_SIZE \in Nat /\ UNIT_SIZE > 0
  /\ \A u \in Nat : /\ u \div UNIT_SIZE \in Nat /\ u % UNIT_SIZE \in 0 .. UNIT_SIZE - 1
                    /\ u = (u \div UNIT_SIZE) * UNIT_SIZE + (u % UNIT_SIZE)
<1>1. UNIT_SIZE \in Nat /\ UNIT_SIZE > 0
  BY BitmapAssumption
<1>. QED
  BY <1>1, Divided

(* Units in one word are apart by as much as their bits; those that are    *)
(* not that far apart are in one word.                                     *)
LEMMA SameWord ==
  ASSUME NEW x \in Nat, NEW u \in Nat, NEW m \in Nat, (x % UNIT_SIZE) + m <= UNIT_SIZE
  PROVE  (u \div UNIT_SIZE = x \div UNIT_SIZE
            /\ u % UNIT_SIZE \in x % UNIT_SIZE .. (x % UNIT_SIZE) + m - 1)
           <=> (x <= u /\ u < x + m)
<1> DEFINE q == x \div UNIT_SIZE
           r == x % UNIT_SIZE
           v == u \div UNIT_SIZE
           w == u % UNIT_SIZE
           U == UNIT_SIZE
<1>1. /\ U \in Nat /\ U > 0 /\ q \in Nat /\ v \in Nat /\ r \in 0 .. U - 1 /\ w \in 0 .. U - 1
      /\ x = q * U + r /\ u = v * U + w /\ r + m <= U
  BY WordAndBit
<1>. HIDE DEF q, r, v, w, U
<1>2. ASSUME v = q, w \in r .. r + m - 1
      PROVE  x <= u /\ u < x + m
  <2>1. q * U \in Nat
    BY <1>1
  <2>. QED
    BY <1>1, <1>2, <2>1
<1>3. ASSUME x <= u, u < x + m
      PROVE  v = q /\ w \in r .. r + m - 1
  <2>1. q * U \in Nat
    BY <1>1
  <2>2. u = q * U + (u - x + r) /\ u - x + r \in 0 .. U - 1
    BY <1>1, <1>3, <2>1
  <2>3. v = q /\ w = u - x + r
    <3>1. u \div U = q /\ u % U = u - x + r
      <4> DEFINE d == u - x + r
      <4>1. d \in 0 .. U - 1 /\ u = q * U + d
        BY <2>2
      <4>. HIDE DEF d
      <4>2. (q * U + d) \div U = q /\ (q * U + d) % U = d
        BY <1>1, <4>1, DividedOnce
      <4>3. u \div U = q /\ u % U = d
        BY <4>1, <4>2
      <4>. QED
        BY <4>3 DEF d
    <3>. QED
      BY <3>1 DEF v, w, U
  <2>. QED
    BY <1>1, <1>3, <2>3
<1>. QED
  BY <1>2, <1>3 DEF q, r, v, w, U

LEMMA ChunkCuts ==
  ASSUME NEW i \in Nat, NEW n \in Nat, NEW k \in 1 .. n, NEW s \in Cutting(i, n, k - 1)
  PROVE  Chunk(s) \in Cutting(i, n, k)
<1>1. /\ s \in [index : Nat, size : Nat, chunks : SUBSET ChunkSet]
      /\ i <= s.index /\ s.index + s.size = i + n /\ s.size <= n - (k - 1)
      /\ \A u \in Nat : Covered(s.chunks, u) <=> i <= u /\ u < s.index
  BY DEF Cutting
<1>2. CASE s.size = 0
  BY <1>1, <1>2 DEF Chunk, Cutting
<1>3. CASE s.size # 0
  <2> DEFINE x == s.index
             bit == x % UNIT_SIZE
             some == IF s.size <= UNIT_SIZE - bit THEN s.size ELSE UNIT_SIZE - bit
             c == [word |-> x \div UNIT_SIZE, bits |-> bit .. bit + some - 1]
             t == [index |-> x + some, size |-> s.size - some, chunks |-> s.chunks \cup {c}]
  <2>1. Chunk(s) = t
    BY <1>3 DEF Chunk
  <2>2. /\ x \in Nat /\ bit \in 0 .. UNIT_SIZE - 1 /\ x \div UNIT_SIZE \in Nat
        /\ UNIT_SIZE \in Nat
    BY <1>1, WordAndBit
  <2>3. some \in Nat /\ some > 0 /\ some <= s.size /\ bit + some <= UNIT_SIZE
    BY <1>1, <1>3, <2>2
  <2>4. c \in ChunkSet
    BY <2>2, <2>3 DEF ChunkSet
  <2>5. \A u \in Nat : Covered(t.chunks, u) <=> i <= u /\ u < t.index
    <3>1. SUFFICES ASSUME NEW u \in Nat
                   PROVE  Covered(t.chunks, u) <=> i <= u /\ u < t.index
      OBVIOUS
    <3>2. Covered(t.chunks, u) <=> Covered(s.chunks, u)
            \/ (c.word = u \div UNIT_SIZE /\ u % UNIT_SIZE \in c.bits)
      BY DEF Covered
    <3>3. (c.word = u \div UNIT_SIZE /\ u % UNIT_SIZE \in c.bits) <=> (x <= u /\ u < x + some)
      <4>. HIDE DEF some
      <4>. QED
        BY <2>2, <2>3, SameWord
    <3>4. Covered(s.chunks, u) <=> i <= u /\ u < x
      BY <1>1
    <3>. HIDE DEF some, c, bit
    <3>. QED
      BY <1>1, <2>2, <2>3, <3>2, <3>3, <3>4
  <2>. HIDE DEF some, c, bit
  <2>6. /\ t \in [index : Nat, size : Nat, chunks : SUBSET ChunkSet]
        /\ i <= t.index /\ t.index + t.size = i + n /\ t.size <= n - k
    BY <1>1, <2>2, <2>3, <2>4
  <2>. QED
    BY <2>1, <2>5, <2>6 DEF Cutting
<1>. QED
  BY <1>2, <1>3

(* The parts cover the units of the range and no other.                    *)
LEMMA ChunksCover ==
  ASSUME NEW i \in Nat, NEW n \in Nat
  PROVE  /\ Chunks(i, n) \subseteq ChunkSet
         /\ \A u \in Nat : Covered(Chunks(i, n), u) <=> i <= u /\ u < i + n
<1> DEFINE States == UNION {Cutting(i, n, k) : k \in 0 .. n}
           x == [index |-> i, size |-> n, chunks |-> {}]
           g == [s \in States |-> Chunk(s)]
           Rounds(f) == f = [k \in 0 .. n |-> IF k = 0 THEN x ELSE Chunk(f[k - 1])]
<1>1. x \in Cutting(i, n, 0)
  BY DEF Cutting, Covered
<1>2. ASSUME NEW f, Rounds(f)
      PROVE  f[n] \in Cutting(i, n, n)
  <2> DEFINE P == {k \in 0 .. n : f[k] \in Cutting(i, n, k)}
  <2>1. 0 \in P
    BY <1>1, <1>2
  <2>2. ASSUME NEW k \in 1 .. n, k - 1 \in P
        PROVE  k \in P
    <3>1. f[k - 1] \in Cutting(i, n, k - 1)
      BY <2>2
    <3>2. f[k] = Chunk(f[k - 1])
      <4>. HIDE DEF x
      <4>. QED
        BY <1>2
    <3>. QED
      BY <3>1, <3>2, ChunkCuts
  <2>3. n \in P
    <3>. HIDE DEF P
    <3>. QED
      BY <2>1, <2>2, StepByStep
  <2>. QED
    BY <2>3
<1>3. \E f : Rounds(f)
  <2>1. PICK f : Iterates(g, x, n, f)
    <3>. HIDE DEF g, x
    <3>. QED
      BY IteratesExist
  <2>2. f = [k \in 0 .. n |-> IF k = 0 THEN x ELSE g[f[k - 1]]]
    BY <2>1 DEF Iterates
  <2> DEFINE P == {k \in 0 .. n : f[k] \in Cutting(i, n, k)}
  <2>3. 0 \in P
    <3>. HIDE DEF g, x
    <3>. QED
      BY <1>1, <2>2
  <2>4. ASSUME NEW k \in 0 .. n, f[k] \in Cutting(i, n, k)
        PROVE  g[f[k]] = Chunk(f[k])
    <3>1. f[k] \in States
      BY <2>4
    <3>. HIDE DEF States
    <3>. QED
      BY <3>1
  <2>5. ASSUME NEW k \in 1 .. n, k - 1 \in P
        PROVE  k \in P
    <3>1. k - 1 \in 0 .. n /\ f[k - 1] \in Cutting(i, n, k - 1)
      BY <2>5
    <3>2. f[k] = g[f[k - 1]]
      <4>. HIDE DEF g, x
      <4>. QED
        BY <2>2
    <3>3. f[k] = Chunk(f[k - 1])
      BY <2>4, <3>1, <3>2, Zenon
    <3>. HIDE DEF g
    <3>. QED
      BY <3>1, <3>3, ChunkCuts
  <2>6. \A k \in 0 .. n : k \in P
    <3>. HIDE DEF P
    <3>. QED
      BY <2>3, <2>5, StepByStep
  <2>7. \A k \in 0 .. n : f[k] = IF k = 0 THEN x ELSE Chunk(f[k - 1])
    <3>1. SUFFICES ASSUME NEW k \in 0 .. n
                   PROVE  f[k] = IF k = 0 THEN x ELSE Chunk(f[k - 1])
      OBVIOUS
    <3>2. f[k] = IF k = 0 THEN x ELSE g[f[k - 1]]
      <4>. HIDE DEF g, x
      <4>. QED
        BY <2>2
    <3>3. CASE k = 0
      BY <3>2, <3>3
    <3>4. CASE k # 0
      <4>1. k - 1 \in 0 .. n
        BY <3>4
      <4>2. g[f[k - 1]] = Chunk(f[k - 1])
        <5>. HIDE DEF g
        <5>. QED
          BY <2>4, <2>6, <4>1
      <4>. HIDE DEF g, x
      <4>. QED
        BY <3>2, <3>4, <4>2
    <3>. QED
      BY <3>3, <3>4
  <2>8. f = [k \in 0 .. n |-> f[k]]
    <3>. HIDE DEF g, x
    <3>. QED
      BY <2>2
  <2>. HIDE DEF x, g
  <2>9. Rounds(f)
    BY <2>7, <2>8
  <2>. HIDE DEF Rounds
  <2>. QED
    BY <2>9
<1> DEFINE round == CHOOSE f : Rounds(f)
<1>4. Rounds(round)
  <2>. HIDE DEF Rounds
  <2>. QED
    BY <1>3
<1>5. Chunks(i, n) = round[n].chunks
  BY DEF Chunks
<1>. HIDE DEF round
<1>6. round[n] \in Cutting(i, n, n)
  <2>. HIDE DEF Rounds
  <2>. QED
    BY <1>2, <1>4
<1>. QED
  BY <1>5, <1>6 DEF Cutting

LEMMA WordOfUnit ==
  ASSUME NEW u \in 0 .. PAGE_UNITS - 1
  PROVE  u \div UNIT_SIZE \in Words
<1>1. u \in Nat /\ PAGE_UNITS - 1 \in Nat /\ u <= PAGE_UNITS - 1
  BY BitmapAssumption
<1>2. UNIT_SIZE \in Nat /\ UNIT_SIZE > 0
  BY BitmapAssumption
<1>3. u \div UNIT_SIZE <= (PAGE_UNITS - 1) \div UNIT_SIZE
  BY <1>1, <1>2
<1>4. u \div UNIT_SIZE \in Nat /\ (PAGE_UNITS - 1) \div UNIT_SIZE \in Nat
  BY <1>1, WordAndBit
<1>. QED
  BY <1>1, <1>3, <1>4 DEF Words

(* Marking sets the bits of the units and no other.                        *)
LEMMA MarkSets ==
  ASSUME NEW b, NEW i \in Nat, NEW n \in Nat, NEW u \in 0 .. PAGE_UNITS - 1
  PROVE  HasBit(mark_at(b, i, n), u) <=> HasBit(b, u) \/ (i <= u /\ u < i + n)
<1>1. u \in Nat /\ u \div UNIT_SIZE \in Words
  BY WordOfUnit
<1>2. Covered(Chunks(i, n), u) <=> i <= u /\ u < i + n
  BY <1>1, ChunksCover
<1>3. HasBit(mark_at(b, i, n), u) <=> HasBit(b, u) \/ Covered(Chunks(i, n), u)
  BY <1>1 DEF HasBit, mark_at, Covered
<1>. QED
  BY <1>2, <1>3

(* The test finds whether one of the units has its bit set.                *)
LEMMA MarkTests ==
  ASSUME NEW b, NEW i \in Nat, NEW n \in Nat
  PROVE  is_marked_at(b, i, n) <=> \E u \in i .. i + n - 1 : HasBit(b, u)
<1>1. ASSUME is_marked_at(b, i, n)
      PROVE  \E u \in i .. i + n - 1 : HasBit(b, u)
  <2>1. PICK c \in Chunks(i, n) : \E x \in c.bits : x \in b[c.word]
    BY <1>1 DEF is_marked_at
  <2>2. PICK x \in c.bits : x \in b[c.word]
    BY <2>1
  <2>3. c.word \in Nat /\ x \in 0 .. UNIT_SIZE - 1
    BY ChunksCover DEF ChunkSet
  <2> DEFINE u == c.word * UNIT_SIZE + x
  <2>4. u \in Nat
    BY <2>3, WordAndBit
  <2>5. u \div UNIT_SIZE = c.word /\ u % UNIT_SIZE = x
    BY <2>3, WordAndBit, DividedOnce
  <2>. HIDE DEF u
  <2>6. Covered(Chunks(i, n), u) /\ HasBit(b, u)
    BY <2>2, <2>5 DEF Covered, HasBit
  <2>7. u \in i .. i + n - 1
    BY <2>4, <2>6, ChunksCover
  <2>. QED
    BY <2>6, <2>7
<1>2. ASSUME NEW u \in i .. i + n - 1, HasBit(b, u)
      PROVE  is_marked_at(b, i, n)
  <2>1. Covered(Chunks(i, n), u)
    BY ChunksCover
  <2>. QED
    BY <1>2, <2>1 DEF Covered, HasBit, is_marked_at
<1>. QED
  BY <1>1, <1>2

-----------------------------------------------------------------------------
(* Objects in pages.                                                       *)

ObjectSet == [at : Nat, size : Sizes]
PageSet   == [freep : Nat, bitmap : [Words -> SUBSET (0 .. UNIT_SIZE - 1)]]

InPage(ps, o) == PageOf(o) \in DOMAIN ps /\ IndexOf(o) + o.size <= PAGE_UNITS

\* Unit u of a page is one of the object's.
Has(o, u) == IndexOf(o) <= u /\ u < IndexOf(o) + o.size

\* Two objects of one page are one below the other.
Apart(os) ==
  \A a, b \in os :
    a # b /\ PageOf(a) = PageOf(b)
      => IndexOf(a) + a.size <= IndexOf(b) \/ IndexOf(b) + b.size <= IndexOf(a)

\* The bits that are set are those of the objects.
Match(ps, os) ==
  \A p \in DOMAIN ps, u \in 0 .. PAGE_UNITS - 1 :
    HasBit(ps[p].bitmap, u) <=> \E o \in os : PageOf(o) = p /\ Has(o, u)

(* What holds of the pages and their objects in every state.               *)
PagesInv ==
  /\ pages \in Seq(PageSet) /\ Len(pages) <= MaxPages
  /\ objs \in SUBSET ObjectSet /\ \A o \in objs : InPage(pages, o)
  /\ Apart(objs) /\ Match(pages, objs)
  /\ stage \in {"first", "second", "last"} => need \in Sizes

LEMMA SizesFit ==
  /\ PAGE_UNITS \in Nat /\ PAGE_UNITS >= 2 /\ Span \in Nat /\ PAGE_UNITS <= Span
  /\ \A n \in Sizes : n \in Nat /\ n > 0 /\ n <= PAGE_UNITS
BY BitmapAssumption

LEMMA WhereObjects ==
  ASSUME NEW o \in ObjectSet
  PROVE  /\ PageOf(o) \in Nat /\ IndexOf(o) \in 0 .. Span - 1
         /\ o.at = PageOf(o) * Span + IndexOf(o)
         /\ o.size \in Nat /\ o.size > 0
<1>1. o.at \in Nat /\ o.size \in Sizes
  BY DEF ObjectSet
<1>2. Span \in Nat /\ Span > 0
  BY SizesFit
<1>. QED
  BY <1>1, <1>2, Divided, SizesFit DEF PageOf, IndexOf

LEMMA ObjectThere ==
  ASSUME NEW p \in Nat, NEW i \in 0 .. PAGE_UNITS - 1, NEW n \in Sizes
  PROVE  LET o == [at |-> p * Span + i, size |-> n]
         IN  /\ o \in ObjectSet /\ PageOf(o) = p /\ IndexOf(o) = i
             /\ o.at = p * Span + i /\ o.size = n
<1> DEFINE at == p * Span + i
<1>1. Span \in Nat /\ Span > 0 /\ i \in 0 .. Span - 1
  BY SizesFit
<1>2. at \div Span = p /\ at % Span = i
  BY <1>1, DividedOnce
<1>3. at \in Nat
  <2>1. p * Span \in Nat
    BY <1>1
  <2>. QED
    BY <1>1, <2>1
<1>. HIDE DEF at
<1>4. [at |-> at, size |-> n] \in ObjectSet
  BY <1>3 DEF ObjectSet
<1>. QED
  BY <1>2, <1>4 DEF PageOf, IndexOf, at

(* The header that is found at an object's first unit is the object's.     *)
LEMMA HeaderFound ==
  ASSUME objs \in SUBSET ObjectSet, Apart(objs), NEW o \in objs
  PROVE  ObjectAt(PageOf(o), IndexOf(o)) = o
<1>1. o.at = PageOf(o) * Span + IndexOf(o)
  BY WhereObjects
<1>2. ASSUME NEW q \in objs, q.at = PageOf(o) * Span + IndexOf(o)
      PROVE  q = o
  <2>1. PageOf(q) = PageOf(o) /\ IndexOf(q) = IndexOf(o)
    BY <1>1, <1>2 DEF PageOf, IndexOf
  <2>2. /\ IndexOf(o) \in Int /\ o.size \in Nat /\ o.size > 0
        /\ q.size \in Nat /\ q.size > 0
    BY WhereObjects
  <2>. QED
    BY <2>1, <2>2 DEF Apart
<1>. QED
  BY <1>1, <1>2 DEF ObjectAt

LEMMA ChunksTyped ==
  ASSUME NEW b \in [Words -> SUBSET (0 .. UNIT_SIZE - 1)], NEW i \in Nat, NEW n \in Nat
  PROVE  mark_at(b, i, n) \in [Words -> SUBSET (0 .. UNIT_SIZE - 1)]
<1>1. \A w \in Words : mark_at(b, i, n)[w] \in SUBSET (0 .. UNIT_SIZE - 1)
  BY ChunksCover DEF mark_at, ChunkSet
<1>. QED
  BY <1>1 DEF mark_at

LEMMA NewPageEmpty ==
  /\ NewPage \in PageSet
  /\ \A u \in 0 .. PAGE_UNITS - 1 : ~HasBit(NewPage.bitmap, u)
<1>1. NewPage \in PageSet
  BY DEF NewPage, PageSet
<1>2. ASSUME NEW u \in 0 .. PAGE_UNITS - 1
      PROVE  ~HasBit(NewPage.bitmap, u)
  <2>1. u \div UNIT_SIZE \in Words
    BY WordOfUnit
  <2>. QED
    BY <2>1 DEF NewPage, HasBit
<1>. QED
  BY <1>1, <1>2

(* After the marking the bits are those of the objects that live on.       *)
LEMMA MarkingMatches ==
  ASSUME PagesInv, NEW live \in SUBSET objs
  PROVE  LET marked == [p \in DOMAIN pages |->
                          MarkAll(ClearBits(pages[p]), {o \in live : PageOf(o) = p})]
         IN  /\ marked \in Seq(PageSet) /\ Len(marked) = Len(pages)
             /\ Match(marked, live)
<1> DEFINE Os(p) == {o \in live : PageOf(o) = p}
           Marked(p) == MarkAll(ClearBits(pages[p]), Os(p))
           marked == [p \in DOMAIN pages |-> Marked(p)]
           b == NewPage.bitmap
           bits(p) == [w \in Words |-> b[w] \cup UNION {mark_at(b, IndexOf(o), o.size)[w] : o \in Os(p)}]
<1>1. /\ pages \in Seq(PageSet) /\ live \subseteq ObjectSet
      /\ DOMAIN pages = 1 .. Len(pages) /\ Len(pages) \in Nat
  BY DEF PagesInv
<1>2. b \in [Words -> SUBSET (0 .. UNIT_SIZE - 1)]
  BY NewPageEmpty DEF PageSet
<1>3. ASSUME NEW p \in DOMAIN pages
      PROVE  Marked(p) \in PageSet /\ Marked(p).bitmap = bits(p)
  <2>1. pages[p] \in PageSet
    BY <1>1, <1>3
  <2>2. ClearBits(pages[p]) = [freep |-> 0, bitmap |-> b]
    <3>1. DOMAIN pages[p].bitmap = Words
      BY <2>1 DEF PageSet
    <3>2. b = [w \in Words |-> {}]
      BY DEF NewPage
    <3>. HIDE DEF b
    <3>. QED
      BY <3>1, <3>2 DEF ClearBits
  <2>3. Marked(p) = [freep |-> 0, bitmap |-> bits(p)]
    <3>1. MarkAll([freep |-> 0, bitmap |-> b], Os(p)) = [freep |-> 0, bitmap |-> bits(p)]
      <4>. HIDE DEF b, Os
      <4>. QED
        BY DEF MarkAll
    <3>. HIDE DEF b, Os, bits
    <3>. QED
      BY <2>2, <3>1, Zenon
  <2>4. bits(p) \in [Words -> SUBSET (0 .. UNIT_SIZE - 1)]
    <3>1. ASSUME NEW o \in Os(p), NEW w \in Words
          PROVE  mark_at(b, IndexOf(o), o.size)[w] \in SUBSET (0 .. UNIT_SIZE - 1)
      <4>1. IndexOf(o) \in Nat /\ o.size \in Nat
        BY <1>1, WhereObjects
      <4>2. mark_at(b, IndexOf(o), o.size) \in [Words -> SUBSET (0 .. UNIT_SIZE - 1)]
        <5>. HIDE DEF b
        <5>. QED
          BY <1>2, <4>1, ChunksTyped
      <4>. HIDE DEF b
      <4>. QED
        BY <4>2
    <3>. HIDE DEF b, Os
    <3>2. ASSUME NEW w \in Words
          PROVE  b[w] \cup UNION {mark_at(b, IndexOf(o), o.size)[w] : o \in Os(p)}
                   \in SUBSET (0 .. UNIT_SIZE - 1)
      BY <1>2, <3>1
    <3>. QED
      BY <3>2
  <2>. HIDE DEF bits, b, Os
  <2>. QED
    BY <2>3, <2>4 DEF PageSet
<1>4. marked \in Seq(PageSet) /\ Len(marked) = Len(pages) /\ DOMAIN marked = DOMAIN pages
  <2>1. \A p \in 1 .. Len(pages) : Marked(p) \in PageSet
    BY <1>1, <1>3
  <2>. HIDE DEF Marked
  <2>. QED
    BY <1>1, <2>1
<1>5. ASSUME NEW p \in DOMAIN pages, NEW u \in 0 .. PAGE_UNITS - 1
      PROVE  HasBit(marked[p].bitmap, u) <=> \E o \in live : PageOf(o) = p /\ Has(o, u)
  <2>1. marked[p].bitmap = bits(p)
    BY <1>3
  <2>2. u \div UNIT_SIZE \in Words
    BY WordOfUnit
  <2>3. HasBit(bits(p), u)
          <=> HasBit(b, u) \/ \E o \in Os(p) : HasBit(mark_at(b, IndexOf(o), o.size), u)
    <3>. HIDE DEF b, Os
    <3>. QED
      BY <2>2 DEF HasBit
  <2>4. ~HasBit(b, u)
    BY NewPageEmpty
  <2>5. ASSUME NEW o \in Os(p)
        PROVE  HasBit(mark_at(b, IndexOf(o), o.size), u) <=> Has(o, u)
    <3>1. IndexOf(o) \in Nat /\ o.size \in Nat
      BY <1>1, WhereObjects
    <3>. HIDE DEF b
    <3>. QED
      BY <2>4, <3>1, MarkSets DEF Has
  <2>6. HasBit(bits(p), u) <=> \E o \in Os(p) : Has(o, u)
    <3>. HIDE DEF b, Os, bits
    <3>. QED
      BY <2>3, <2>4, <2>5
  <2>. HIDE DEF bits, marked
  <2>. QED
    BY <2>1, <2>6
<1>6. Match(marked, live)
  <2>. HIDE DEF marked
  <2>. QED
    BY <1>4, <1>5 DEF Match
<1>. QED
  BY <1>4, <1>6

-----------------------------------------------------------------------------
(* The sweep.                                                              *)

Elements(s) == {s[i] : i \in DOMAIN s}

\* The dead in pages after p, and in page p before unit i.
Gone(live, p, i) ==
  {o \in objs \ live : PageOf(o) > p \/ (PageOf(o) = p /\ IndexOf(o) < i)}

\* No dead object begins before unit i of page p and ends behind it.
Between(live, p, i) ==
  \A o \in objs \ live : PageOf(o) = p => i <= IndexOf(o) \/ IndexOf(o) + o.size <= i

\* The sweep after k rounds, or at its end.
Sweeping(live, k) ==
  {s \in [page : 0 .. Len(pages), index : 0 .. PAGE_UNITS, dead : Seq(objs)] :
     /\ s.page = 0 \/ (Len(pages) - s.page) * (PAGE_UNITS + 1) + s.index >= k
     /\ Elements(s.dead) = Gone(live, s.page, s.index) /\ Between(live, s.page, s.index)
     /\ IsFiniteSet(Elements(s.dead)) /\ Cardinality(Elements(s.dead)) = Len(s.dead)}

LEMMA ElementAdded ==
  ASSUME NEW S, NEW s \in Seq(S), NEW e \in S
  PROVE  /\ Append(s, e) \in Seq(S) /\ Len(Append(s, e)) = Len(s) + 1
         /\ Elements(Append(s, e)) = Elements(s) \cup {e}
<1>1. Append(s, e) \in Seq(S) /\ Len(Append(s, e)) = Len(s) + 1 /\ Len(s) \in Nat
  OBVIOUS
<1>2. ASSUME NEW i \in 1 .. Len(s)
      PROVE  Append(s, e)[i] = s[i] /\ i \in 1 .. Len(s) + 1
  OBVIOUS
<1>3. Append(s, e)[Len(s) + 1] = e /\ Len(s) + 1 \in 1 .. Len(s) + 1
  BY <1>1
<1>4. \A i \in 1 .. Len(s) + 1 : i \in 1 .. Len(s) \/ i = Len(s) + 1
  BY <1>1
<1>5. DOMAIN s = 1 .. Len(s) /\ DOMAIN Append(s, e) = 1 .. Len(s) + 1
  BY <1>1
<1>6. Elements(Append(s, e)) \subseteq Elements(s) \cup {e}
  BY <1>2, <1>3, <1>4, <1>5 DEF Elements
<1>7. Elements(s) \subseteq Elements(Append(s, e)) /\ e \in Elements(Append(s, e))
  BY <1>2, <1>3, <1>5 DEF Elements
<1>. QED
  BY <1>1, <1>6, <1>7

\* What there is to know of the objects of one page.
LEMMA OnOnePage ==
  ASSUME PagesInv, NEW o \in objs
  PROVE  /\ PageOf(o) \in 1 .. Len(pages) /\ IndexOf(o) \in Nat /\ IndexOf(o) < PAGE_UNITS
         /\ o.size \in Nat /\ o.size > 0 /\ IndexOf(o) + o.size <= PAGE_UNITS
         /\ \A q \in objs : q # o /\ PageOf(q) = PageOf(o)
              => IndexOf(o) + o.size <= IndexOf(q) \/ IndexOf(q) + q.size <= IndexOf(o)
<1>1. /\ o \in ObjectSet /\ InPage(pages, o) /\ Apart(objs) /\ pages \in Seq(PageSet)
  BY DEF PagesInv
<1>2. IndexOf(o) \in Nat /\ o.size \in Nat /\ o.size > 0
  BY <1>1, WhereObjects
<1>3. PageOf(o) \in 1 .. Len(pages) /\ IndexOf(o) + o.size <= PAGE_UNITS
  BY <1>1 DEF InPage
<1>4. IndexOf(o) < PAGE_UNITS
  BY <1>2, <1>3, SizesFit
<1>. QED
  BY <1>1, <1>2, <1>3, <1>4 DEF Apart

LEMMA PageSwept ==
  ASSUME PagesInv, NEW live \in SUBSET objs, NEW k \in Nat, NEW s \in Sweeping(live, k),
         s.page # 0, s.index = PAGE_UNITS
  PROVE  [page |-> s.page - 1, index |-> 0, dead |-> s.dead] \in Sweeping(live, k + 1)
<1> DEFINE t == [page |-> s.page - 1, index |-> 0, dead |-> s.dead]
           L == Len(pages)
           p == s.page
<1>1. /\ s \in [page : 0 .. L, index : 0 .. PAGE_UNITS, dead : Seq(objs)]
      /\ (L - p) * (PAGE_UNITS + 1) + s.index >= k
      /\ Elements(s.dead) = Gone(live, p, s.index)
      /\ IsFiniteSet(Elements(s.dead)) /\ Cardinality(Elements(s.dead)) = Len(s.dead)
  BY DEF Sweeping
<1>2. L \in Nat /\ PAGE_UNITS \in Nat /\ p \in 1 .. L
  BY <1>1, SizesFit DEF PagesInv
<1>3. t = [page |-> p - 1, index |-> 0, dead |-> s.dead]
  BY <1>1
<1>4. t \in [page : 0 .. L, index : 0 .. PAGE_UNITS, dead : Seq(objs)]
  BY <1>1, <1>2, <1>3
<1>5. (L - t.page) * (PAGE_UNITS + 1) + t.index >= k + 1
  <2>1. L - t.page = (L - p) + 1 /\ t.index = 0
    BY <1>2, <1>3
  <2>2. ((L - p) + 1) * (PAGE_UNITS + 1) = (L - p) * (PAGE_UNITS + 1) + (PAGE_UNITS + 1)
    BY <1>2
  <2>3. (L - p) * (PAGE_UNITS + 1) \in Int
    BY <1>2
  <2>. QED
    BY <1>1, <1>2, <2>1, <2>2, <2>3
<1>6. Gone(live, p, PAGE_UNITS) = Gone(live, p - 1, 0)
  <2>1. ASSUME NEW o \in objs
        PROVE  (PageOf(o) > p \/ (PageOf(o) = p /\ IndexOf(o) < PAGE_UNITS))
                 <=> (PageOf(o) > p - 1 \/ (PageOf(o) = p - 1 /\ IndexOf(o) < 0))
    <3>1. /\ PageOf(o) \in 1 .. L /\ IndexOf(o) \in Nat /\ IndexOf(o) < PAGE_UNITS
      BY OnOnePage
    <3>. QED
      BY <1>2, <3>1
  <2>. QED
    BY <2>1 DEF Gone
<1>7. Between(live, p - 1, 0)
  <2>1. \A o \in objs : IndexOf(o) \in Nat
    BY OnOnePage
  <2>. QED
    BY <2>1 DEF Between
<1>. HIDE DEF t, p, L
<1>8. t \in Sweeping(live, k + 1)
  BY <1>1, <1>3, <1>4, <1>5, <1>6, <1>7 DEF Sweeping, L
<1>. QED
  BY <1>8 DEF t

LEMMA UnitPassed ==
  ASSUME PagesInv, NEW live \in SUBSET objs, NEW k \in Nat, NEW s \in Sweeping(live, k),
         s.page # 0, s.index # PAGE_UNITS,
         \A o \in objs \ live : PageOf(o) = s.page => IndexOf(o) # s.index
  PROVE  [s EXCEPT !.index = @ + 1] \in Sweeping(live, k + 1)
<1> DEFINE t == [s EXCEPT !.index = @ + 1]
           L == Len(pages)
           p == s.page
           i == s.index
<1>1. /\ s \in [page : 0 .. L, index : 0 .. PAGE_UNITS, dead : Seq(objs)]
      /\ (L - p) * (PAGE_UNITS + 1) + i >= k
      /\ Elements(s.dead) = Gone(live, p, i) /\ Between(live, p, i)
      /\ IsFiniteSet(Elements(s.dead)) /\ Cardinality(Elements(s.dead)) = Len(s.dead)
  BY DEF Sweeping
<1>2. L \in Nat /\ PAGE_UNITS \in Nat /\ p \in 1 .. L /\ i \in 0 .. PAGE_UNITS - 1
  BY <1>1, SizesFit DEF PagesInv
<1>3. t = [page |-> p, index |-> i + 1, dead |-> s.dead]
  BY <1>1
<1>4. t \in [page : 0 .. L, index : 0 .. PAGE_UNITS, dead : Seq(objs)]
  BY <1>1, <1>2, <1>3
<1>5. (L - t.page) * (PAGE_UNITS + 1) + t.index >= k + 1
  <2>1. (L - p) * (PAGE_UNITS + 1) \in Int
    BY <1>2
  <2>. QED
    BY <1>1, <1>2, <1>3, <2>1
<1>6. ASSUME NEW o \in objs \ live, PageOf(o) = p
      PROVE  /\ IndexOf(o) < i <=> IndexOf(o) < i + 1
             /\ i + 1 <= IndexOf(o) \/ IndexOf(o) + o.size <= i + 1
  <2>1. IndexOf(o) \in Nat /\ o.size \in Nat /\ o.size > 0
    BY OnOnePage
  <2>2. IndexOf(o) # i
    BY <1>6
  <2>3. i <= IndexOf(o) \/ IndexOf(o) + o.size <= i
    BY <1>1, <1>6 DEF Between
  <2>. QED
    BY <1>2, <2>1, <2>2, <2>3
<1>7. Gone(live, p, i) = Gone(live, p, i + 1)
  <2>. HIDE DEF p, i
  <2>. QED
    BY <1>6 DEF Gone
<1>8. Between(live, p, i + 1)
  <2>. HIDE DEF p, i
  <2>. QED
    BY <1>6 DEF Between
<1>. HIDE DEF t, p, L, i
<1>9. t \in Sweeping(live, k + 1)
  BY <1>1, <1>3, <1>4, <1>5, <1>7, <1>8 DEF Sweeping, L
<1>. QED
  BY <1>9 DEF t

LEMMA ObjectFinalized ==
  ASSUME PagesInv, NEW live \in SUBSET objs, NEW k \in Nat, NEW s \in Sweeping(live, k),
         NEW o \in objs \ live, PageOf(o) = s.page, IndexOf(o) = s.index
  PROVE  [page |-> s.page, index |-> s.index + o.size, dead |-> Append(s.dead, o)] \in Sweeping(live, k + 1)
<1> DEFINE t == [page |-> s.page, index |-> s.index + o.size, dead |-> Append(s.dead, o)]
           L == Len(pages)
           p == s.page
           i == s.index
           j == i + o.size
<1>1. /\ s \in [page : 0 .. L, index : 0 .. PAGE_UNITS, dead : Seq(objs)]
      /\ p = 0 \/ (L - p) * (PAGE_UNITS + 1) + i >= k
      /\ Elements(s.dead) = Gone(live, p, i) /\ Between(live, p, i)
      /\ IsFiniteSet(Elements(s.dead)) /\ Cardinality(Elements(s.dead)) = Len(s.dead)
  BY DEF Sweeping
<1>2. /\ L \in Nat /\ PAGE_UNITS \in Nat /\ p \in 1 .. L /\ i \in Nat
      /\ o.size \in Nat /\ o.size > 0 /\ j <= PAGE_UNITS
  BY <1>1, SizesFit, OnOnePage DEF PagesInv
<1>3. t = [page |-> p, index |-> j, dead |-> Append(s.dead, o)]
  BY <1>1
<1>4. t \in [page : 0 .. L, index : 0 .. PAGE_UNITS, dead : Seq(objs)]
  <2>1. Append(s.dead, o) \in Seq(objs)
    BY <1>1, ElementAdded
  <2>. HIDE DEF t, i
  <2>. QED
    BY <1>1, <1>2, <1>3, <2>1
<1>5. (L - t.page) * (PAGE_UNITS + 1) + t.index >= k + 1
  <2>1. (L - p) * (PAGE_UNITS + 1) \in Int
    BY <1>2
  <2>. QED
    BY <1>1, <1>2, <1>3, <2>1
<1>6. ASSUME NEW q \in objs \ live, PageOf(q) = p
      PROVE  /\ IndexOf(q) < j <=> IndexOf(q) < i \/ q = o
             /\ j <= IndexOf(q) \/ IndexOf(q) + q.size <= j
  <2>1. IndexOf(q) \in Nat /\ q.size \in Nat /\ q.size > 0
    BY OnOnePage
  <2>2. q # o => j <= IndexOf(q) \/ IndexOf(q) + q.size <= i
    BY <1>6, OnOnePage
  <2>3. q = o => IndexOf(q) = i /\ IndexOf(q) + q.size = j
    OBVIOUS
  <2>. HIDE DEF i
  <2>. QED
    BY <1>2, <2>1, <2>2, <2>3
<1>7. Gone(live, p, j) = Gone(live, p, i) \cup {o}
  <2>1. PageOf(o) = p /\ o \in objs \ live
    OBVIOUS
  <2>. HIDE DEF p, i, j
  <2>. QED
    BY <1>6, <2>1 DEF Gone
<1>8. Between(live, p, j)
  <2>. HIDE DEF p, i, j
  <2>. QED
    BY <1>6 DEF Between
<1>9. o \notin Gone(live, p, i)
  <2>1. PageOf(o) = p /\ IndexOf(o) = i
    OBVIOUS
  <2>. HIDE DEF p, i
  <2>. QED
    BY <1>2, <2>1 DEF Gone
<1>10. /\ Elements(t.dead) = Gone(live, p, j) /\ IsFiniteSet(Elements(t.dead))
       /\ Cardinality(Elements(t.dead)) = Len(t.dead)
  <2>1. /\ Elements(Append(s.dead, o)) = Elements(s.dead) \cup {o}
        /\ Len(Append(s.dead, o)) = Len(s.dead) + 1
    BY <1>1, ElementAdded
  <2>2. o \notin Elements(s.dead)
    BY <1>1, <1>9
  <2>3. /\ IsFiniteSet(Elements(s.dead) \cup {o})
        /\ Cardinality(Elements(s.dead) \cup {o}) = Cardinality(Elements(s.dead)) + 1
    BY <1>1, <2>2, FS_AddElement
  <2>4. t.dead = Append(s.dead, o)
    BY <1>3
  <2>. HIDE DEF t, p, i, j
  <2>. QED
    BY <1>1, <1>7, <2>1, <2>3, <2>4
<1>. HIDE DEF t, p, L, i, j
<1>11. t \in Sweeping(live, k + 1)
  BY <1>3, <1>4, <1>5, <1>8, <1>10 DEF Sweeping, L
<1>. QED
  BY <1>11 DEF t

LEMMA SweepStep ==
  ASSUME PagesInv, NEW live \in SUBSET objs, NEW marked, DOMAIN marked = DOMAIN pages,
         Match(marked, live), NEW k \in Nat, NEW s \in Sweeping(live, k)
  PROVE  SweepUnit(marked, s) \in Sweeping(live, k + 1)
<1> DEFINE p == s.page
           i == s.index
           Found == HasBit(pages[p].bitmap, i) /\ ~HasBit(marked[p].bitmap, i)
<1>1. s \in [page : 0 .. Len(pages), index : 0 .. PAGE_UNITS, dead : Seq(objs)]
  BY DEF Sweeping
<1>2. /\ Len(pages) \in Nat /\ DOMAIN pages = 1 .. Len(pages) /\ PAGE_UNITS \in Nat
      /\ Match(pages, objs) /\ objs \in SUBSET ObjectSet /\ Apart(objs)
  BY SizesFit DEF PagesInv
<1>3. CASE p = 0
  <2>1. SweepUnit(marked, s) = s
    BY <1>3 DEF SweepUnit
  <2>2. s \in Sweeping(live, k + 1)
    BY <1>3 DEF Sweeping
  <2>. QED
    BY <2>1, <2>2
<1>4. CASE p # 0 /\ i = PAGE_UNITS
  <2>1. SweepUnit(marked, s) = [page |-> s.page - 1, index |-> 0, dead |-> s.dead]
    BY <1>2, <1>4 DEF SweepUnit
  <2>. QED
    BY <1>4, <2>1, PageSwept
<1>5. ASSUME p # 0, i # PAGE_UNITS
      PROVE  p \in DOMAIN pages /\ i \in 0 .. PAGE_UNITS - 1 /\ ~(i >= PAGE_UNITS)
  BY <1>1, <1>2, <1>5
<1>6. CASE p # 0 /\ i # PAGE_UNITS /\ Found
  <2>1. PICK o \in objs : PageOf(o) = p /\ Has(o, i)
    BY <1>2, <1>5, <1>6 DEF Match
  <2>2. o \notin live
    BY <1>5, <1>6, <2>1 DEF Match
  <2>3. IndexOf(o) = i
    <3>1. i <= IndexOf(o) \/ IndexOf(o) + o.size <= i
      BY <2>1, <2>2 DEF Sweeping, Between
    <3>2. IndexOf(o) \in Nat /\ o.size \in Nat /\ i \in Nat
      BY <1>5, <1>6, OnOnePage
    <3>3. IndexOf(o) <= i /\ i < IndexOf(o) + o.size
      BY <2>1 DEF Has
    <3>. QED
      BY <3>1, <3>2, <3>3
  <2>4. ObjectAt(p, i) = o
    BY <1>2, <2>1, <2>3, HeaderFound
  <2>5. SweepUnit(marked, s) = [page |-> s.page, index |-> s.index + o.size, dead |-> Append(s.dead, o)]
    BY <1>5, <1>6, <2>4 DEF SweepUnit
  <2>. QED
    BY <2>1, <2>2, <2>3, <2>5, ObjectFinalized
<1>7. CASE p # 0 /\ i # PAGE_UNITS /\ ~Found
  <2>1. SweepUnit(marked, s) = [s EXCEPT !.index = @ + 1]
    BY <1>5, <1>7 DEF SweepUnit
  <2>2. ASSUME NEW o \in objs \ live, PageOf(o) = p, IndexOf(o) = i
        PROVE  FALSE
    <3>1. o.size \in Nat /\ o.size > 0 /\ i \in Nat
      BY <1>5, <1>7, OnOnePage
    <3>2. Has(o, i)
      BY <2>2, <3>1 DEF Has
    <3>3. HasBit(pages[p].bitmap, i)
      BY <1>2, <1>5, <1>7, <2>2, <3>2 DEF Match
    <3>4. HasBit(marked[p].bitmap, i)
      BY <1>7, <3>3
    <3>5. PICK l \in live : PageOf(l) = p /\ Has(l, i)
      BY <1>2, <1>5, <1>7, <3>4 DEF Match
    <3>6. l # o /\ IndexOf(l) <= i /\ i < IndexOf(l) + l.size
      BY <3>5 DEF Has
    <3>7. IndexOf(o) + o.size <= IndexOf(l) \/ IndexOf(l) + l.size <= IndexOf(o)
      BY <2>2, <3>5, <3>6, OnOnePage
    <3>8. IndexOf(l) \in Nat /\ l.size \in Nat
      BY OnOnePage
    <3>. QED
      BY <2>2, <3>1, <3>6, <3>7, <3>8
  <2>. QED
    BY <1>7, <2>1, <2>2, UnitPassed
<1>. QED
  BY <1>3, <1>4, <1>6, <1>7

(* The sweep finalizes what does not live on, and each of it once.         *)
LEMMA SweepFinalizes ==
  ASSUME PagesInv, NEW live \in SUBSET objs, NEW marked, DOMAIN marked = DOMAIN pages,
         Match(marked, live)
  PROVE  /\ Finalized(marked) \in Seq(objs)
         /\ Elements(Finalized(marked)) = objs \ live
         /\ Len(Finalized(marked)) = Cardinality(objs \ live)
<1> DEFINE n == Len(pages) * (PAGE_UNITS + 1)
           x == [page |-> Len(pages), index |-> 0, dead |-> <<>>]
           States == UNION {Sweeping(live, k) : k \in 0 .. n}
           g == [s \in States |-> SweepUnit(marked, s)]
           Rounds(f) == f = [k \in 0 .. n |-> IF k = 0 THEN x ELSE SweepUnit(marked, f[k - 1])]
<1>1. Len(pages) \in Nat /\ PAGE_UNITS \in Nat /\ n \in Nat
  <2>1. Len(pages) \in Nat /\ PAGE_UNITS \in Nat
    BY SizesFit DEF PagesInv
  <2>. QED
    BY <2>1
<1>2. x \in Sweeping(live, 0)
  <2>1. x \in [page : 0 .. Len(pages), index : 0 .. PAGE_UNITS, dead : Seq(objs)]
    BY <1>1
  <2>2. \A o \in objs : PageOf(o) \in 1 .. Len(pages) /\ IndexOf(o) \in Nat
    BY OnOnePage
  <2>3. Gone(live, Len(pages), 0) = {}
    BY <1>1, <2>2 DEF Gone
  <2>4. Between(live, Len(pages), 0)
    BY <1>1, <2>2 DEF Between
  <2>5. Elements(<<>>) = {} /\ IsFiniteSet({}) /\ Cardinality({}) = 0
    BY FS_EmptySet DEF Elements
  <2>6. (Len(pages) - Len(pages)) * (PAGE_UNITS + 1) + 0 >= 0
    BY <1>1
  <2>. QED
    BY <2>1, <2>3, <2>4, <2>5, <2>6 DEF Sweeping
<1>. HIDE DEF n, x
<1>3. ASSUME NEW k \in 1 .. n, NEW s \in Sweeping(live, k - 1)
      PROVE  SweepUnit(marked, s) \in Sweeping(live, k)
  <2>1. k - 1 \in Nat /\ (k - 1) + 1 = k
    BY <1>1
  <2>2. SweepUnit(marked, s) \in Sweeping(live, (k - 1) + 1)
    BY <2>1, SweepStep
  <2>. QED
    BY <2>1, <2>2
<1>4. ASSUME NEW f, Rounds(f)
      PROVE  f[n] \in Sweeping(live, n)
  <2> DEFINE P == {k \in 0 .. n : f[k] \in Sweeping(live, k)}
  <2>1. 0 \in P
    BY <1>1, <1>2, <1>4
  <2>2. ASSUME NEW k \in 1 .. n, k - 1 \in P
        PROVE  k \in P
    <3>1. f[k - 1] \in Sweeping(live, k - 1)
      BY <2>2
    <3>2. f[k] = SweepUnit(marked, f[k - 1])
      BY <1>1, <1>4
    <3>3. f[k] \in Sweeping(live, k)
      BY <1>3, <3>1, <3>2
    <3>. QED
      BY <1>1, <3>3
  <2>3. n \in P
    <3>. HIDE DEF P
    <3>. QED
      BY <1>1, <2>1, <2>2, StepByStep
  <2>. QED
    BY <2>3
<1>5. \E f : Rounds(f)
  <2>1. PICK f : Iterates(g, x, n, f)
    <3>. HIDE DEF g
    <3>. QED
      BY <1>1, IteratesExist
  <2>2. f = [k \in 0 .. n |-> IF k = 0 THEN x ELSE g[f[k - 1]]]
    BY <2>1 DEF Iterates
  <2> DEFINE P == {k \in 0 .. n : f[k] \in Sweeping(live, k)}
  <2>3. 0 \in P
    <3>. HIDE DEF g
    <3>. QED
      BY <1>1, <1>2, <2>2
  <2>4. ASSUME NEW k \in 0 .. n, f[k] \in Sweeping(live, k)
        PROVE  g[f[k]] = SweepUnit(marked, f[k])
    <3>1. f[k] \in States
      BY <2>4
    <3>. HIDE DEF States
    <3>. QED
      BY <3>1
  <2>5. ASSUME NEW k \in 1 .. n, k - 1 \in P
        PROVE  k \in P
    <3>1. k - 1 \in 0 .. n /\ f[k - 1] \in Sweeping(live, k - 1)
      BY <2>5
    <3>2. f[k] = g[f[k - 1]]
      <4>. HIDE DEF g
      <4>. QED
        BY <1>1, <2>2
    <3>3. f[k] = SweepUnit(marked, f[k - 1])
      BY <2>4, <3>1, <3>2, Zenon
    <3>4. f[k] \in Sweeping(live, k)
      <4>. HIDE DEF g
      <4>. QED
        BY <1>3, <3>1, <3>3
    <3>. HIDE DEF g
    <3>. QED
      BY <1>1, <3>4
  <2>6. \A k \in 0 .. n : k \in P
    <3>. HIDE DEF P
    <3>. QED
      BY <1>1, <2>3, <2>5, StepByStep
  <2>7. \A k \in 0 .. n : f[k] = IF k = 0 THEN x ELSE SweepUnit(marked, f[k - 1])
    <3>1. SUFFICES ASSUME NEW k \in 0 .. n
                   PROVE  f[k] = IF k = 0 THEN x ELSE SweepUnit(marked, f[k - 1])
      OBVIOUS
    <3>2. f[k] = IF k = 0 THEN x ELSE g[f[k - 1]]
      <4>. HIDE DEF g
      <4>. QED
        BY <2>2
    <3>3. CASE k = 0
      BY <3>2, <3>3
    <3>4. CASE k # 0
      <4>1. k - 1 \in 0 .. n
        BY <1>1, <3>4
      <4>2. g[f[k - 1]] = SweepUnit(marked, f[k - 1])
        <5>. HIDE DEF g
        <5>. QED
          BY <2>4, <2>6, <4>1
      <4>. HIDE DEF g
      <4>. QED
        BY <3>2, <3>4, <4>2
    <3>. QED
      BY <3>3, <3>4
  <2>8. f = [k \in 0 .. n |-> f[k]]
    <3>. HIDE DEF g
    <3>. QED
      BY <2>2
  <2>. HIDE DEF g
  <2>9. Rounds(f)
    BY <2>7, <2>8
  <2>. HIDE DEF Rounds
  <2>. QED
    BY <2>9
<1> DEFINE swept == CHOOSE f : Rounds(f)
<1>6. Rounds(swept)
  <2>. HIDE DEF Rounds
  <2>. QED
    BY <1>5
<1>7. Finalized(marked) = swept[n].dead
  BY DEF Finalized, n, x
<1>. HIDE DEF swept
<1>8. swept[n] \in Sweeping(live, n)
  <2>. HIDE DEF Rounds
  <2>. QED
    BY <1>4, <1>6
<1> DEFINE s == swept[n]
<1>9. /\ s \in [page : 0 .. Len(pages), index : 0 .. PAGE_UNITS, dead : Seq(objs)]
      /\ s.page = 0 \/ (Len(pages) - s.page) * (PAGE_UNITS + 1) + s.index >= n
      /\ Elements(s.dead) = Gone(live, s.page, s.index)
      /\ Cardinality(Elements(s.dead)) = Len(s.dead)
  BY <1>8 DEF Sweeping
<1>. HIDE DEF s
<1>10. s.page = 0
  <2>1. SUFFICES ASSUME s.page # 0
                 PROVE  FALSE
    OBVIOUS
  <2> DEFINE L == Len(pages)
             U == PAGE_UNITS + 1
             q == s.page
  <2>2. /\ L \in Nat /\ U \in Nat /\ q \in 1 .. L /\ s.index < U /\ s.index \in Nat
        /\ (L - q) * U + s.index >= L * U
    BY <1>1, <1>9, <2>1 DEF n
  <2>. HIDE DEF L, U, q
  <2>3. (L - q) * U = L * U - q * U /\ L * U \in Int /\ q * U \in Int
    BY <2>2
  <2>4. q * U = (q - 1) * U + U /\ (q - 1) * U \in Nat
    BY <2>2
  <2>. QED
    BY <2>2, <2>3, <2>4
<1>11. Gone(live, s.page, s.index) = objs \ live
  <2>1. \A o \in objs : PageOf(o) \in 1 .. Len(pages)
    BY OnOnePage
  <2>. QED
    BY <1>10, <2>1 DEF Gone
<1>. QED
  BY <1>7, <1>9, <1>11 DEF s

-----------------------------------------------------------------------------
(* The invariant.                                                          *)

LEMMA PlaceFound ==
  ASSUME PagesInv, NEW n \in Sizes, CanPlace(n)
  PROVE  LET p == Max({q \in DOMAIN pages : Places(q, n) # {}})
             i == Min(Places(p, n))
         IN  /\ p \in DOMAIN pages /\ i \in Nat /\ i + n < PAGE_UNITS
             /\ \A u \in i .. i + n - 1 : ~HasBit(pages[p].bitmap, u)
<1> DEFINE Qs == {q \in DOMAIN pages : Places(q, n) # {}}
           p == Max(Qs)
           i == Min(Places(p, n))
<1>1. /\ pages \in Seq(PageSet) /\ Len(pages) \in Nat /\ DOMAIN pages = 1 .. Len(pages)
      /\ PAGE_UNITS \in Nat /\ n \in Nat
  BY SizesFit DEF PagesInv
<1>2. Qs \in SUBSET (1 .. Len(pages)) /\ Qs # {}
  BY <1>1 DEF CanPlace
<1>3. p \in Qs
  <2>. HIDE DEF Qs
  <2>. QED
    BY <1>1, <1>2, GreatestIsMax
<1>. HIDE DEF p
<1>4. p \in DOMAIN pages /\ Places(p, n) # {}
  BY <1>3
<1>5. Places(p, n) \in SUBSET Nat
  <2>1. pages[p].freep \in Nat
    <3>1. pages[p] \in PageSet
      BY <1>1, <1>4
    <3>. QED
      BY <3>1 DEF PageSet
  <2>. QED
    BY <1>1, <2>1 DEF Places
<1>6. i \in Places(p, n)
  BY <1>4, <1>5, LeastIsMin
<1>. HIDE DEF i
<1>7. /\ i \in Nat /\ i \in pages[p].freep .. PAGE_UNITS - n - 1
      /\ ~is_marked_at(pages[p].bitmap, i, n)
  BY <1>5, <1>6 DEF Places
<1>8. \A u \in i .. i + n - 1 : ~HasBit(pages[p].bitmap, u)
  BY <1>1, <1>7, MarkTests
<1>9. i + n < PAGE_UNITS
  <2>1. pages[p].freep \in Nat
    <3>1. pages[p] \in PageSet
      BY <1>1, <1>4
    <3>. QED
      BY <3>1 DEF PageSet
  <2>. QED
    BY <1>1, <1>7, <2>1
<1>. QED
  BY <1>4, <1>7, <1>8, <1>9 DEF p, i

\* What an allocation adds.
Fits(p, i, n, o) ==
  /\ p \in DOMAIN pages /\ i \in Nat /\ i + n < PAGE_UNITS
  /\ o = [at |-> p * Span + i, size |-> n]
  /\ o \in ObjectSet /\ PageOf(o) = p /\ IndexOf(o) = i
  /\ o.at = p * Span + i /\ o.size = n
  /\ \A q \in objs : PageOf(q) = p => i + n <= IndexOf(q) \/ IndexOf(q) + q.size <= i

LEMMA AllocationFits ==
  ASSUME PagesInv, AllocateUnits
  PROVE  \E p, i, o :
           /\ Fits(p, i, need, o) /\ need \in Sizes
           /\ pages' = [pages EXCEPT ![p] = [freep  |-> i + need,
                                             bitmap |-> mark_at(pages[p].bitmap, i, need)]]
           /\ objs' = objs \cup {o} /\ dead' = <<>> /\ stage' = "run"
<1> DEFINE n == need
           p == Max({q \in DOMAIN pages : Places(q, n) # {}})
           i == Min(Places(p, n))
           o == [at |-> p * Span + i, size |-> n]
<1>1. /\ n \in Sizes /\ CanPlace(n) /\ heap_alloc(n) /\ dead' = <<>> /\ stage' = "run"
  BY DEF PagesInv, AllocateUnits
<1>2. /\ pages' = [pages EXCEPT ![p] = [freep |-> i + n, bitmap |-> mark_at(pages[p].bitmap, i, n)]]
      /\ objs' = objs \cup {o}
  BY <1>1 DEF heap_alloc
<1>3. /\ p \in DOMAIN pages /\ i \in Nat /\ i + n < PAGE_UNITS
      /\ \A u \in i .. i + n - 1 : ~HasBit(pages[p].bitmap, u)
  BY <1>1, PlaceFound
<1>. HIDE DEF p, i
<1>4. /\ p \in Nat /\ n \in Nat /\ n > 0 /\ PAGE_UNITS \in Nat /\ i \in 0 .. PAGE_UNITS - 1
  BY <1>1, <1>3, SizesFit DEF PagesInv
<1>5. /\ o \in ObjectSet /\ PageOf(o) = p /\ IndexOf(o) = i
      /\ o.at = p * Span + i /\ o.size = n
  <2>. HIDE DEF n
  <2>. QED
    BY <1>1, <1>4, ObjectThere
<1>6. ASSUME NEW q \in objs, PageOf(q) = p,
             ~(i + n <= IndexOf(q)), ~(IndexOf(q) + q.size <= i)
      PROVE  FALSE
  <2>1. /\ IndexOf(q) \in Nat /\ q.size \in Nat /\ q.size > 0
        /\ IndexOf(q) + q.size <= PAGE_UNITS
    BY OnOnePage
  <2> DEFINE u == IF i <= IndexOf(q) THEN IndexOf(q) ELSE i
  <2>2. u \in i .. i + n - 1 /\ Has(q, u) /\ u \in 0 .. PAGE_UNITS - 1
    BY <1>4, <1>6, <2>1 DEF Has
  <2>. HIDE DEF u
  <2>3. HasBit(pages[p].bitmap, u)
    BY <1>3, <1>6, <2>2 DEF PagesInv, Match
  <2>. QED
    BY <1>3, <2>2, <2>3
<1>. HIDE DEF o
<1>7. Fits(p, i, n, o)
  BY <1>3, <1>5, <1>6 DEF Fits, o
<1>. QED
  BY <1>1, <1>2, <1>7

LEMMA AllocateKeeps ==
  ASSUME PagesInv, AllocateUnits
  PROVE  PagesInv'
<1> DEFINE n == need
<1>1. PICK p, i, o :
        /\ Fits(p, i, n, o) /\ n \in Sizes
        /\ pages' = [pages EXCEPT ![p] = [freep  |-> i + n,
                                          bitmap |-> mark_at(pages[p].bitmap, i, n)]]
        /\ objs' = objs \cup {o} /\ stage' = "run"
  BY AllocationFits
<1>. HIDE DEF n
<1>2. /\ p \in DOMAIN pages /\ i \in Nat /\ i + n < PAGE_UNITS
      /\ o \in ObjectSet /\ PageOf(o) = p /\ IndexOf(o) = i /\ o.size = n
      /\ \A q \in objs : PageOf(q) = p => i + n <= IndexOf(q) \/ IndexOf(q) + q.size <= i
  BY <1>1 DEF Fits
<1>3. /\ pages \in Seq(PageSet) /\ Len(pages) \in Nat /\ DOMAIN pages = 1 .. Len(pages)
      /\ PAGE_UNITS \in Nat /\ n \in Nat /\ n > 0
      /\ objs \in SUBSET ObjectSet /\ \A q \in objs : InPage(pages, q)
      /\ Apart(objs) /\ Match(pages, objs) /\ Len(pages) <= MaxPages
  BY <1>1, SizesFit DEF PagesInv
<1> DEFINE new == [freep |-> i + n, bitmap |-> mark_at(pages[p].bitmap, i, n)]
<1>4. new \in PageSet
  <2>1. pages[p].bitmap \in [Words -> SUBSET (0 .. UNIT_SIZE - 1)]
    <3>1. pages[p] \in PageSet
      BY <1>2, <1>3
    <3>. QED
      BY <3>1 DEF PageSet
  <2>2. mark_at(pages[p].bitmap, i, n) \in [Words -> SUBSET (0 .. UNIT_SIZE - 1)]
    BY <1>2, <1>3, <2>1, ChunksTyped
  <2>. QED
    BY <1>2, <1>3, <2>2 DEF PageSet
<1>5. /\ pages' \in Seq(PageSet) /\ Len(pages') = Len(pages) /\ DOMAIN pages' = DOMAIN pages
      /\ pages'[p] = new /\ \A q \in DOMAIN pages : q # p => pages'[q] = pages[q]
  <2>. HIDE DEF new
  <2>1. pages' = [pages EXCEPT ![p] = new]
    BY <1>1 DEF new
  <2>. QED
    BY <1>2, <1>3, <1>4, <2>1
<1>6. objs' \in SUBSET ObjectSet /\ \A q \in objs' : InPage(pages, q)
  <2>1. InPage(pages, o)
    BY <1>2, <1>3 DEF InPage
  <2>. QED
    BY <1>1, <1>2, <1>3, <2>1
<1>7. \A q \in objs' : InPage(pages, q)'
  BY <1>5, <1>6 DEF InPage, PageOf, IndexOf
<1>8. Apart(objs')
  <2>1. SUFFICES ASSUME NEW a \in objs', NEW b \in objs', a # b, PageOf(a) = PageOf(b)
                 PROVE  IndexOf(a) + a.size <= IndexOf(b) \/ IndexOf(b) + b.size <= IndexOf(a)
    BY DEF Apart
  <2>2. CASE a \in objs /\ b \in objs
    BY <1>3, <2>1, <2>2 DEF Apart
  <2>3. CASE a = o /\ b \in objs
    BY <1>2, <2>1, <2>3
  <2>4. CASE b = o /\ a \in objs
    BY <1>2, <2>1, <2>4
  <2>. QED
    BY <1>1, <2>1, <2>2, <2>3, <2>4
<1>9. Match(pages', objs')
  <2>1. SUFFICES ASSUME NEW q \in DOMAIN pages', NEW u \in 0 .. PAGE_UNITS - 1
                 PROVE  HasBit(pages'[q].bitmap, u)
                          <=> \E b \in objs' : PageOf(b) = q /\ Has(b, u)
    BY DEF Match
  <2>2. HasBit(pages[q].bitmap, u) <=> \E b \in objs : PageOf(b) = q /\ Has(b, u)
    BY <1>3, <1>5 DEF Match
  <2>3. CASE q = p
    <3>1. pages'[q].bitmap = mark_at(pages[p].bitmap, i, n)
      BY <1>5, <2>3
    <3>2. HasBit(pages'[q].bitmap, u) <=> HasBit(pages[q].bitmap, u) \/ Has(o, u)
      BY <1>2, <1>3, <2>3, <3>1, MarkSets DEF Has
    <3>. QED
      BY <1>1, <1>2, <2>2, <2>3, <3>2
  <2>4. CASE q # p
    BY <1>1, <1>2, <1>5, <2>2, <2>4
  <2>. QED
    BY <2>3, <2>4
<1>10. Apart(objs)' /\ Match(pages, objs)'
  BY <1>8, <1>9
<1>. QED
  BY <1>1, <1>3, <1>5, <1>6, <1>7, <1>10 DEF PagesInv

(* One more page has no bits and no objects.                               *)
LEMMA PageAdded ==
  ASSUME NEW ps \in Seq(PageSet), NEW os, \A o \in os : InPage(ps, o), Match(ps, os)
  PROVE  LET more == Append(ps, NewPage)
         IN  /\ more \in Seq(PageSet) /\ Len(more) = Len(ps) + 1
             /\ \A o \in os : InPage(more, o)
             /\ Match(more, os)
<1> DEFINE more == Append(ps, NewPage)
<1>1. /\ more \in Seq(PageSet) /\ Len(more) = Len(ps) + 1 /\ Len(ps) \in Nat
      /\ DOMAIN ps = 1 .. Len(ps) /\ DOMAIN more = 1 .. Len(ps) + 1
      /\ \A p \in 1 .. Len(ps) : more[p] = ps[p]
      /\ more[Len(ps) + 1] = NewPage
  BY NewPageEmpty
<1>. HIDE DEF more
<1>2. \A o \in os : InPage(more, o)
  BY <1>1 DEF InPage
<1>3. ASSUME NEW p \in DOMAIN more, NEW u \in 0 .. PAGE_UNITS - 1
      PROVE  HasBit(more[p].bitmap, u) <=> \E o \in os : PageOf(o) = p /\ Has(o, u)
  <2>1. CASE p \in DOMAIN ps
    BY <1>1, <2>1 DEF Match
  <2>2. CASE p = Len(ps) + 1
    <3>1. ~HasBit(more[p].bitmap, u)
      BY <1>1, <2>2, NewPageEmpty
    <3>2. \A o \in os : PageOf(o) # p
      BY <1>1, <2>2 DEF InPage
    <3>. QED
      BY <3>1, <3>2
  <2>. QED
    BY <1>1, <2>1, <2>2
<1>4. Match(more, os)
  BY <1>3 DEF Match
<1>. QED
  BY <1>1, <1>2, <1>4 DEF more

LEMMA CollectKeeps ==
  ASSUME PagesInv, NEW live \in SUBSET objs, CollectPages(live)
  PROVE  PagesInv'
<1> DEFINE marked == [p \in DOMAIN pages |->
                        MarkAll(ClearBits(pages[p]), {o \in live : PageOf(o) = p})]
<1>1. /\ marked \in Seq(PageSet) /\ Len(marked) = Len(pages) /\ Match(marked, live)
  BY MarkingMatches
<1>2. /\ stage = "first" /\ objs' = live /\ need' = need
      /\ \/ pages' = marked /\ stage' \in {"second", "panic"}
         \/ pages' = Append(marked, NewPage) /\ Len(pages) < MaxPages /\ stage' = "second"
  BY DEF CollectPages
<1>. HIDE DEF marked
<1>3. /\ Len(pages) \in Nat /\ Len(pages) <= MaxPages /\ MaxPages \in Nat
      /\ objs \in SUBSET ObjectSet /\ \A o \in objs : InPage(pages, o)
      /\ Apart(objs) /\ need \in Sizes /\ DOMAIN pages = 1 .. Len(pages)
  BY <1>2, BitmapAssumption DEF PagesInv
<1>4. DOMAIN marked = DOMAIN pages
  BY <1>1, <1>3
<1>5. \A o \in live : InPage(marked, o)
  BY <1>3, <1>4 DEF InPage
<1>6. Apart(live) /\ live \in SUBSET ObjectSet
  BY <1>3 DEF Apart
<1>7. /\ pages' \in Seq(PageSet) /\ Len(pages') <= MaxPages /\ Match(pages', live)
      /\ \A o \in live : InPage(pages', o)
  <2>1. CASE pages' = marked
    BY <1>1, <1>3, <1>5, <2>1
  <2>2. CASE pages' = Append(marked, NewPage) /\ Len(pages) < MaxPages
    <3>1. /\ Append(marked, NewPage) \in Seq(PageSet)
          /\ Len(Append(marked, NewPage)) = Len(marked) + 1
          /\ \A o \in live : InPage(Append(marked, NewPage), o)
          /\ Match(Append(marked, NewPage), live)
      BY <1>1, <1>5, PageAdded
    <3>. QED
      BY <1>1, <1>3, <2>2, <3>1
  <2>. QED
    BY <1>2, <2>1, <2>2
<1>8. /\ (\A o \in objs : InPage(pages, o))' /\ Apart(objs)' /\ Match(pages, objs)'
      /\ (objs \in SUBSET ObjectSet)'
  BY <1>2, <1>6, <1>7
<1>. QED
  BY <1>2, <1>3, <1>7, <1>8 DEF PagesInv

LEMMA MoreCoreKeeps ==
  ASSUME PagesInv, MoreCore
  PROVE  PagesInv'
<1>1. /\ pages' = Append(pages, NewPage) /\ Len(pages) < MaxPages
      /\ stage = "second" /\ objs' = objs /\ need' = need
  BY DEF MoreCore
<1>2. /\ pages \in Seq(PageSet) /\ Len(pages) \in Nat /\ MaxPages \in Nat
      /\ objs \in SUBSET ObjectSet /\ \A o \in objs : InPage(pages, o)
      /\ Apart(objs) /\ Match(pages, objs) /\ need \in Sizes
  BY <1>1, BitmapAssumption DEF PagesInv
<1>3. /\ Append(pages, NewPage) \in Seq(PageSet)
      /\ Len(Append(pages, NewPage)) = Len(pages) + 1
      /\ \A o \in objs : InPage(Append(pages, NewPage), o)
      /\ Match(Append(pages, NewPage), objs)
  BY <1>2, PageAdded
<1>4. /\ (\A o \in objs : InPage(pages, o))' /\ Apart(objs)' /\ Match(pages, objs)'
      /\ (objs \in SUBSET ObjectSet)'
  BY <1>1, <1>2, <1>3
<1>. QED
  BY <1>1, <1>2, <1>3, <1>4 DEF PagesInv

(* Every state of the pages: objects lie apart, each within its page, and  *)
(* the bits that are set are those of their units (heap_alloc, mark_at,    *)
(* gc_init, gc_sweep_page, heap_morecore).                                 *)
THEOREM PagesInvariant == PagesSpec => []PagesInv
<1>1. PagesInit => PagesInv
  BY BitmapAssumption DEF PagesInit, PagesInv, Apart, Match, InPage
<1>2. PagesInv /\ [PagesNext]_pagesVars => PagesInv'
  <2>1. SUFFICES ASSUME PagesInv, [PagesNext]_pagesVars
                 PROVE  PagesInv'
    OBVIOUS
  <2>2. ASSUME objs' = objs, pages' = pages, stage \in {"first", "second", "last"} \/ stage' \notin {"first", "second", "last"}, need' = need
        PROVE  PagesInv'
    <3>1. /\ (\A o \in objs : InPage(pages, o))' /\ Apart(objs)' /\ Match(pages, objs)'
      BY <2>1, <2>2 DEF PagesInv
    <3>. QED
      BY <2>1, <2>2, <3>1 DEF PagesInv
  <2>3. ASSUME NEW n \in Sizes, RequestUnits(n)
        PROVE  PagesInv'
    <3>1. objs' = objs /\ pages' = pages /\ need' = n
      BY <2>3 DEF RequestUnits
    <3>2. /\ (\A o \in objs : InPage(pages, o))' /\ Apart(objs)' /\ Match(pages, objs)'
      BY <2>1, <3>1 DEF PagesInv
    <3>. QED
      BY <2>1, <3>1, <3>2 DEF PagesInv
  <2>4. CASE \E live \in SUBSET objs : CollectPages(live)
    BY <2>1, <2>4, CollectKeeps
  <2>5. CASE AllocateUnits
    BY <2>1, <2>5, AllocateKeeps
  <2>6. CASE MoreCore
    BY <2>1, <2>6, MoreCoreKeeps
  <2>7. CASE PagesPanic
    <3>1. objs' = objs /\ pages' = pages /\ need' = need /\ stage' = "panic"
      BY <2>7 DEF PagesPanic
    <3>. QED
      BY <2>2, <3>1
  <2>8. CASE UNCHANGED pagesVars
    BY <2>2, <2>8 DEF pagesVars
  <2>. QED
    BY <2>1, <2>3, <2>4, <2>5, <2>6, <2>7, <2>8 DEF PagesNext
<1>. QED
  BY <1>1, <1>2, PTL DEF PagesSpec

(* The bits that are set are those of the objects' units: what a           *)
(* collection gave back can be allocated again (MemoryWhole, for the       *)
(* bitmap build).                                                          *)
THEOREM BitsStayUnits == PagesSpec => []BitsAreUnits
<1>1. PagesInv => BitsAreUnits
  <2>1. SUFFICES ASSUME PagesInv, NEW p \in DOMAIN pages
                 PROVE  {i \in 0 .. PAGE_UNITS - 1 : HasBit(pages[p].bitmap, i)}
                        = UNION {IndexOf(o) .. IndexOf(o) + o.size - 1 :
                                   o \in {b \in objs : PageOf(b) = p}}
    BY DEF BitsAreUnits
  <2>2. PAGE_UNITS \in Nat
    BY SizesFit
  <2>3. ASSUME NEW o \in objs
        PROVE  /\ IndexOf(o) .. IndexOf(o) + o.size - 1 \subseteq 0 .. PAGE_UNITS - 1
               /\ \A u \in Int : u \in IndexOf(o) .. IndexOf(o) + o.size - 1 <=> Has(o, u)
    <3>1. /\ IndexOf(o) \in Nat /\ o.size \in Nat /\ IndexOf(o) + o.size <= PAGE_UNITS
      BY <2>1, OnOnePage
    <3>. QED
      BY <2>2, <3>1 DEF Has
  <2>4. \A u \in 0 .. PAGE_UNITS - 1 :
          HasBit(pages[p].bitmap, u) <=> \E o \in objs : PageOf(o) = p /\ Has(o, u)
    BY <2>1 DEF PagesInv, Match
  <2>. QED
    BY <2>2, <2>3, <2>4
<1>. QED
  BY <1>1, PagesInvariant, PTL

-----------------------------------------------------------------------------
(* The store.                                                              *)

LEMMA UnitsApart ==
  ASSUME NEW a \in ObjectSet, NEW b \in ObjectSet,
         IndexOf(a) + a.size <= PAGE_UNITS, IndexOf(b) + b.size <= PAGE_UNITS,
         PageOf(a) = PageOf(b)
           => IndexOf(a) + a.size <= IndexOf(b) \/ IndexOf(b) + b.size <= IndexOf(a)
  PROVE  Store!Units(a) \cap Store!Units(b) = {}
<1> DEFINE p == PageOf(a)
           q == PageOf(b)
           i == IndexOf(a)
           j == IndexOf(b)
<1>1. /\ p \in Nat /\ q \in Nat /\ i \in Nat /\ j \in Nat /\ a.size \in Nat /\ b.size \in Nat
      /\ a.at = p * Span + i /\ b.at = q * Span + j
      /\ i + a.size <= PAGE_UNITS /\ j + b.size <= PAGE_UNITS
      /\ p = q => i + a.size <= j \/ j + b.size <= i
  BY WhereObjects
<1>2. Span \in Nat /\ PAGE_UNITS \in Nat /\ PAGE_UNITS <= Span
  BY SizesFit
<1>. HIDE DEF p, q, i, j
<1>3. p * Span \in Nat /\ q * Span \in Nat
  BY <1>1, <1>2
<1>4. ASSUME NEW x \in Nat, NEW y \in Nat, x < y
      PROVE  x * Span + Span <= y * Span
  <2> DEFINE d == y - x - 1
  <2>1. d \in Nat /\ y = x + 1 + d
    BY <1>4
  <2>. HIDE DEF d
  <2>2. y * Span = x * Span + Span + d * Span
    BY <1>2, <2>1
  <2>3. d * Span \in Nat /\ x * Span \in Nat
    BY <1>2, <2>1
  <2>. QED
    BY <1>2, <2>2, <2>3
<1>5. a.at + a.size <= b.at \/ b.at + b.size <= a.at
  <2>1. CASE p = q
    BY <1>1, <1>3, <2>1
  <2>2. CASE p < q
    <3>1. p * Span + Span <= q * Span
      BY <1>1, <1>4, <2>2
    <3>. QED
      BY <1>1, <1>2, <1>3, <3>1
  <2>3. CASE q < p
    <3>1. q * Span + Span <= p * Span
      BY <1>1, <1>4, <2>3
    <3>. QED
      BY <1>1, <1>2, <1>3, <3>1
  <2>. QED
    BY <1>1, <2>1, <2>2, <2>3
<1>6. a.at \in Nat /\ b.at \in Nat
  BY DEF ObjectSet
<1>. QED
  BY <1>1, <1>5, <1>6 DEF Store!Units

LEMMA AllocateIsAllocate ==
  ASSUME PagesInv, AllocateUnits
  PROVE  Store!Allocate
<1> DEFINE n == need
           Top == (MaxPages + 1) * Span
<1>1. PICK p, i, o :
        /\ Fits(p, i, n, o) /\ n \in Sizes
        /\ objs' = objs \cup {o} /\ dead' = <<>>
  BY AllocationFits
<1>. HIDE DEF n
<1>2. /\ p \in 1 .. MaxPages /\ MaxPages \in Nat /\ i \in Nat /\ n \in Nat /\ n > 0
      /\ i + n < PAGE_UNITS /\ PAGE_UNITS \in Nat /\ PAGE_UNITS <= Span /\ Span \in Nat
      /\ o \in ObjectSet /\ PageOf(o) = p /\ IndexOf(o) = i
      /\ o = [at |-> p * Span + i, size |-> n] /\ o.at = p * Span + i /\ o.size = n
      /\ \A q \in objs : PageOf(q) = p => i + n <= IndexOf(q) \/ IndexOf(q) + q.size <= i
  BY <1>1, SizesFit, BitmapAssumption DEF Fits, PagesInv
<1>3. o \in [at : 0 .. Top, size : Sizes]
  <2> DEFINE d == MaxPages - p
  <2>1. d \in Nat /\ MaxPages + 1 = p + 1 + d
    BY <1>2
  <2>. HIDE DEF d
  <2>2. Top = p * Span + Span + d * Span /\ p * Span \in Nat /\ d * Span \in Nat
    BY <1>2, <2>1
  <2>. HIDE DEF Top
  <2>3. p * Span + i \in 0 .. Top
    BY <1>2, <2>2
  <2>. QED
    BY <1>1, <1>2, <2>3
<1>4. Store!InOnePage(o)
  <2>1. (p * Span + i) \div Span = p
    BY <1>2, DividedOnce
  <2> DEFINE j == i + n - 1
  <2>2. j \in 0 .. Span - 1 /\ (p * Span + i) + n - 1 = p * Span + j
    <3>1. p * Span \in Nat
      BY <1>2
    <3>. QED
      BY <1>2, <3>1
  <2>. HIDE DEF j
  <2>3. (p * Span + j) \div Span = p
    BY <1>2, <2>2, DividedOnce
  <2>4. o.at \div Span = p /\ (o.at + o.size - 1) \div Span = p
    BY <1>2, <2>1, <2>2, <2>3
  <2>. QED
    BY <2>4 DEF Store!InOnePage
<1>5. ASSUME NEW q \in objs
      PROVE  Store!Units(o) \cap Store!Units(q) = {}
  <2>1. q \in ObjectSet /\ IndexOf(q) + q.size <= PAGE_UNITS
    BY OnOnePage DEF PagesInv
  <2>2. IndexOf(o) + o.size <= PAGE_UNITS
    BY <1>2
  <2>. QED
    BY <1>2, <2>1, <2>2, UnitsApart
<1>. HIDE DEF Top
<1>. QED
  BY <1>1, <1>3, <1>4, <1>5 DEF Store!Allocate, Top

LEMMA CollectIsCollect ==
  ASSUME PagesInv, NEW live \in SUBSET objs, CollectPages(live)
  PROVE  Store!Collect
<1> DEFINE marked == [p \in DOMAIN pages |->
                        MarkAll(ClearBits(pages[p]), {o \in live : PageOf(o) = p})]
<1>1. objs' = live /\ dead' = Finalized(marked)
  BY DEF CollectPages
<1>2. Match(marked, live) /\ DOMAIN marked = DOMAIN pages
  BY MarkingMatches
<1>. HIDE DEF marked
<1>3. /\ Elements(Finalized(marked)) = objs \ live
      /\ Len(Finalized(marked)) = Cardinality(objs \ live)
  BY <1>2, SweepFinalizes
<1>4. /\ Elements(dead') = objs \ objs' /\ objs' \subseteq objs
      /\ Len(dead') = Cardinality(objs \ objs')
  BY <1>1, <1>3
<1>5. Store!ToSet(dead') = Elements(dead')
  BY DEF Store!ToSet, Elements
<1>6. Store!Cardinality(objs \ objs') = Cardinality(objs \ objs')
  BY DEF Store!Cardinality, Cardinality
<1>. QED
  BY <1>4, <1>5, <1>6 DEF Store!Collect

(* The bitmap build's pages implement the store: an object gets units that *)
(* no other has, all of one page, a collection finalizes just what does    *)
(* not live on, and each of it once (heap_alloc, gc_sweep_page).           *)
THEOREM PagesAreAStore == PagesSpec => ImplementsStore
<1>1. PagesInit => Store!Init
  BY DEF PagesInit, Store!Init
<1>2. PagesInv /\ [PagesNext]_pagesVars => [Store!Next]_<<objs, dead>>
  <2>1. SUFFICES ASSUME PagesInv, [PagesNext]_pagesVars
                 PROVE  [Store!Next]_<<objs, dead>>
    OBVIOUS
  <2>2. CASE AllocateUnits
    BY <2>1, <2>2, AllocateIsAllocate DEF Store!Next
  <2>3. CASE \E live \in SUBSET objs : CollectPages(live)
    BY <2>1, <2>3, CollectIsCollect DEF Store!Next
  <2>4. CASE \/ \E n \in Sizes : RequestUnits(n)
             \/ MoreCore \/ PagesPanic \/ UNCHANGED pagesVars
    BY <2>4 DEF RequestUnits, MoreCore, PagesPanic, pagesVars
  <2>. QED
    BY <2>1, <2>2, <2>3, <2>4 DEF PagesNext
<1>. QED
  BY <1>1, <1>2, PagesInvariant, PTL DEF PagesSpec, ImplementsStore, Store!Spec

=============================================================================
