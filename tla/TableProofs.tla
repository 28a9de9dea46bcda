---------------------------- MODULE TableProofs ----------------------------
(***************************************************************************)
(* Proofs about hash tables and their users.  First what each operation    *)
(* does to a table, for every hash function, every equality of keys and    *)
(* every table up to the size at which the code's int arithmetic ends.     *)
(* Then dictionaries, for any keys and any values: what dictionary-ref     *)
(* finds is a finite map that setting and deleting change at one key       *)
(* alone, every probe ends, and dictionary-for-each calls its procedure    *)
(* once with each key.  Then the symbol table, for any strings and any     *)
(* texts: a symbol whose name is untouched is the one found for its text,  *)
(* whatever is written into the names of others.                           *)
(***************************************************************************)
EXTENDS Dictionaries, SymbolTable, FiniteSetTheorems, FunctionTheorems,
        WellFoundedInduction, TLAPS

-----------------------------------------------------------------------------
(* The hash table.                                                         *)

(* A set of numbers that has a member has a least one: how the proofs here *)
(* do induction.                                                           *)
LEMMA LeastNatural ==
  ASSUME NEW S \in SUBSET Nat, S # {}
  PROVE  \E n \in S : \A m \in S : n <= m
<1> DEFINE T == {1 .. n : n \in S}
<1>1. T \subseteq FiniteSubsetsOf(Nat)
  BY FS_Interval DEF FiniteSubsetsOf
<1>2. PICK x \in T : \A y \in T : <<y, x>> \notin StrictSubsetOrdering(Nat)
  <2>1. T # {}
    OBVIOUS
  <2>. QED
    BY <1>1, <2>1, WFMin, FS_StrictSubsetOrderingWellFounded
<1>3. PICK n \in S : x = 1 .. n
  OBVIOUS
<1>4. ASSUME NEW m \in S, m < n
      PROVE  FALSE
  <2>1. 1 .. m \subseteq 1 .. n /\ n \in 1 .. n /\ n \notin 1 .. m
    BY <1>4
  <2>2. <<1 .. m, x>> \in StrictSubsetOrdering(Nat)
    BY <1>3, <2>1 DEF StrictSubsetOrdering
  <2>. QED
    BY <1>2, <2>2
<1>. QED
  BY <1>4

(* Powers of two.                                                          *)
LEMMA PowersOfTwo ==
  ASSUME NEW e \in 0 .. 30
  PROVE  /\ 2 ^ e \in Nat /\ 2 ^ e > 0 /\ 2 ^ (e + 1) \in Nat
         /\ 2 ^ (e + 1) = 2 * 2 ^ e
<1> DEFINE P == /\ 2 ^ e \in Nat /\ 2 ^ e > 0 /\ 2 ^ (e + 1) \in Nat
                /\ 2 ^ (e + 1) = 2 * 2 ^ e
<1>1. e = 0 => P
  OBVIOUS
<1>2. e = 1 => P
  OBVIOUS
<1>3. e = 2 => P
  OBVIOUS
<1>4. e = 3 => P
  OBVIOUS
<1>5. e = 4 => P
  OBVIOUS
<1>6. e = 5 => P
  OBVIOUS
<1>7. e = 6 => P
  OBVIOUS
<1>8. e = 7 => P
  OBVIOUS
<1>9. e = 8 => P
  OBVIOUS
<1>10. e = 9 => P
  OBVIOUS
<1>11. e = 10 => P
  OBVIOUS
<1>12. e = 11 => P
  OBVIOUS
<1>13. e = 12 => P
  OBVIOUS
<1>14. e = 13 => P
  OBVIOUS
<1>15. e = 14 => P
  OBVIOUS
<1>16. e = 15 => P
  OBVIOUS
<1>17. e = 16 => P
  OBVIOUS
<1>18. e = 17 => P
  OBVIOUS
<1>19. e = 18 => P
  OBVIOUS
<1>20. e = 19 => P
  OBVIOUS
<1>21. e = 20 => P
  OBVIOUS
<1>22. e = 21 => P
  OBVIOUS
<1>23. e = 22 => P
  OBVIOUS
<1>24. e = 23 => P
  OBVIOUS
<1>25. e = 24 => P
  OBVIOUS
<1>26. e = 25 => P
  OBVIOUS
<1>27. e = 26 => P
  OBVIOUS
<1>28. e = 27 => P
  OBVIOUS
<1>29. e = 28 => P
  OBVIOUS
<1>30. e = 29 => P
  OBVIOUS
<1>31. e = 30 => P
  OBVIOUS
<1>. HIDE DEF P
<1>32. P
  BY <1>1, <1>2, <1>3, <1>4, <1>5, <1>6, <1>7, <1>8, <1>9, <1>10, <1>11, <1>12, <1>13, <1>14, <1>15, <1>16, <1>17, <1>18, <1>19, <1>20, <1>21, <1>22, <1>23, <1>24, <1>25, <1>26, <1>27, <1>28, <1>29, <1>30, <1>31
<1>. QED
  BY <1>32 DEF P

LEMMA Cancel ==
  ASSUME NEW x \in Int, NEW y \in Int, NEW p \in Int, p > 0, x * p = y * p
  PROVE  x = y
OBVIOUS

(* An odd factor of a multiple of a power of two leaves the power to the   *)
(* other factor.                                                           *)
LEMMA OddFactor ==
  ASSUME NEW e \in 0 .. 31, NEW a \in Int, NEW b \in Int, NEW k \in Int,
         a = 2 * k + 1, \E q \in Int : a * b = q * 2 ^ e
  PROVE  \E c \in Int : b = c * 2 ^ e
<1> DEFINE T == {f \in 0 .. 31 : /\ \E q \in Int : a * b = q * 2 ^ f
                                 /\ ~\E c \in Int : b = c * 2 ^ f}
<1>1. ASSUME T # {}
      PROVE  FALSE
  <2>0. T \in SUBSET Nat
    OBVIOUS
  <2>1. PICK m \in T : \A f \in T : m <= f
    <3>. HIDE DEF T
    <3>. QED
      BY <1>1, <2>0, LeastNatural
  <2>2. m # 0
    <3>1. 2 ^ 0 = 1 /\ b = b * 1
      OBVIOUS
    <3>. QED
      BY <2>1, <3>1
  <2>3. PICK f \in 0 .. 30 : f \notin T /\ m = f + 1
    <3>1. m \in 0 .. 31
      BY <2>1
    <3>2. m - 1 \in 0 .. 30 /\ m = (m - 1) + 1 /\ ~(m <= m - 1)
      BY <2>2, <3>1
    <3>. HIDE DEF T
    <3>. QED
      BY <2>1, <3>2
  <2> DEFINE p == 2 ^ f
  <2>4. p \in Int /\ p > 0 /\ 2 ^ m = 2 * p
    <3>1. 2 ^ f \in Nat /\ 2 ^ f > 0 /\ 2 ^ (f + 1) = 2 * 2 ^ f
      BY PowersOfTwo, Zenon
    <3>2. m = f + 1
      BY <2>3
    <3>. QED
      BY <3>1, <3>2
  <2> HIDE DEF p
  <2>5. PICK q \in Int : a * b = q * 2 ^ m
    BY <2>1
  <2>6. a * b = (2 * q) * p
    BY <2>4, <2>5
  <2>7. PICK c \in Int : b = c * p
    <3>1. \E r \in Int : a * b = r * p
      BY <2>6
    <3>. QED
      BY <3>1, <2>3 DEF p
  <2>8. (a * c) * p = (2 * q) * p
    BY <2>4, <2>6, <2>7
  <2>9. a * c = 2 * q
    BY <2>4, <2>8, Cancel, a * c \in Int, 2 * q \in Int
  <2> DEFINE d == q - k * c
  <2>10. d \in Int /\ c = 2 * d
    BY <2>9
  <2>11. b = d * 2 ^ m
    BY <2>4, <2>7, <2>10
  <2>. QED
    BY <2>1, <2>10, <2>11
<1>. QED
  BY <1>1

-----------------------------------------------------------------------------
(* The probe of a key.                                                     *)

(* The sizes at which 2 * 77 times the number of buckets, of which          *)
(* ac_hash_upper takes the share, is an int of 32 bits.                    *)
Sizes == {2 ^ e : e \in 2 .. 23}

LEMMA SizesDouble ==
  ASSUME NEW n \in Sizes
  PROVE  /\ n \in Nat /\ n >= 4
         /\ \E e \in 0 .. 30 : 2 * n = 2 ^ (e + 1)
<1>1. PICK e \in 2 .. 23 : n = 2 ^ e
  BY DEF Sizes
<1>2. e \in 0 .. 30
  OBVIOUS
<1>3. n \in Nat /\ 2 * n = 2 ^ (e + 1)
  BY <1>1, <1>2, PowersOfTwo
<1>4. n >= 4
  <2> DEFINE T == {f \in 2 .. 23 : ~(2 ^ f >= 4)}
  <2>1. ASSUME T # {}
        PROVE  FALSE
    <3>1. T \in SUBSET Nat
      OBVIOUS
    <3>2. PICK m \in T : \A f \in T : m <= f
      <4>. HIDE DEF T
      <4>. QED
        BY <2>1, <3>1, LeastNatural
    <3>4. m # 2 /\ m \in 2 .. 23
      <4>1. m = 2 => 2 ^ m = 4
        OBVIOUS
      <4>. QED
        BY <3>2, <4>1
    <3>5. PICK f \in 0 .. 30 : m = f + 1 /\ f \in 2 .. 23
      BY <3>4
    <3>6. f \notin T
      <4>1. ~(m <= f)
        BY <3>5
      <4>. HIDE DEF T
      <4>. QED
        BY <3>2, <4>1
    <3>7. 2 ^ f >= 4
      BY <3>5, <3>6
    <3>8. 2 ^ f \in Nat /\ 2 ^ (f + 1) = 2 * 2 ^ f
      BY PowersOfTwo, Zenon
    <3>9. 2 ^ m >= 4
      BY <3>5, <3>7, <3>8
    <3>. QED
      BY <3>2, <3>9
  <2>. QED
    BY <1>1, <2>1
<1>. QED
  BY <1>2, <1>3, <1>4

Steps(s) == (s * (s + 1)) \div 2

LEMMA StepsTwice ==
  ASSUME NEW s \in Nat
  PROVE  Steps(s) \in Nat /\ 2 * Steps(s) = s * (s + 1)
<1>1. PICK k \in Nat : s = 2 * k \/ s = 2 * k + 1
  BY s = 2 * (s \div 2) \/ s = 2 * (s \div 2) + 1, s \div 2 \in Nat
<1>2. CASE s = 2 * k
  <2> DEFINE m == k * (s + 1)
  <2>1. s * (s + 1) = 2 * m /\ m \in Nat
    BY <1>2
  <2>. HIDE DEF m
  <2>2. (2 * m) \div 2 = m
    BY <2>1
  <2>. QED
    BY <2>1, <2>2 DEF Steps
<1>3. CASE s = 2 * k + 1
  <2> DEFINE m == s * (k + 1)
  <2>1. s * (s + 1) = 2 * m /\ m \in Nat
    BY <1>3
  <2>. HIDE DEF m
  <2>2. (2 * m) \div 2 = m
    BY <2>1
  <2>. QED
    BY <2>1, <2>2 DEF Steps
<1>. QED
  BY <1>1, <1>2, <1>3

LEMMA NoMultipleBetween ==
  ASSUME NEW c \in Int, NEW m \in Int, m > 0, 0 < c * m, c * m < m
  PROVE  FALSE
<1>1. CASE c >= 1
  BY <1>1
<1>2. CASE c <= 0
  BY <1>2
<1>. QED
  BY <1>1, <1>2

LEMMA SameRemainder ==
  ASSUME NEW n \in Nat, n > 0, NEW a \in Int, NEW b \in Int, a % n = b % n
  PROVE  \E q \in Int : b - a = q * n
<1> DEFINE q == b \div n - a \div n
<1>1. /\ a \div n \in Int /\ b \div n \in Int
      /\ a % n = a - n * (a \div n) /\ b % n = b - n * (b \div n)
  <2>1. a % n = a - n * (a \div n) /\ a \div n \in Int
    BY Z3
  <2>2. b % n = b - n * (b \div n) /\ b \div n \in Int
    BY Z3
  <2>. QED
    BY <2>1, <2>2
<1>2. b - a = n * (b \div n) - n * (a \div n)
  BY <1>1
<1>3. b - a = q * n /\ q \in Int
  BY <1>1, <1>2
<1>. QED
  BY <1>3

LEMMA ProbeInTable ==
  ASSUME NEW n \in Sizes, NEW h \in Int, NEW s \in Nat
  PROVE  Probe(n, h, s) \in 0 .. n - 1
<1>1. n \in Nat /\ n > 0 /\ h + Steps(s) \in Int
  BY SizesDouble, StepsTwice
<1>. QED
  BY <1>1 DEF Probe, Steps

(* The longer and longer steps of a probe pass no bucket twice in as many  *)
(* steps as there are buckets.                                             *)
LEMMA ProbesApart ==
  ASSUME NEW n \in Sizes, NEW h \in Int, NEW r \in 0 .. n - 1, NEW s \in 0 .. n - 1,
         r < s, Probe(n, h, r) = Probe(n, h, s)
  PROVE  FALSE
<1>1. n \in Nat /\ n > 0
  BY SizesDouble
<1>2. PICK e \in 0 .. 30 : 2 * n = 2 ^ (e + 1)
  BY SizesDouble
<1>3. r \in Nat /\ s \in Nat
  BY <1>1
<1>4. /\ Steps(r) \in Nat /\ 2 * Steps(r) = r * (r + 1)
      /\ Steps(s) \in Nat /\ 2 * Steps(s) = s * (s + 1)
  BY <1>3, StepsTwice
<1>5. PICK q \in Int : Steps(s) - Steps(r) = q * n
  <2>1. (h + Steps(r)) % n = (h + Steps(s)) % n
    BY DEF Probe, Steps
  <2>2. \E q \in Int : (h + Steps(s)) - (h + Steps(r)) = q * n
    BY <1>1, <1>4, <2>1, SameRemainder, h + Steps(s) \in Int, h + Steps(r) \in Int
  <2>. QED
    BY <1>4, <2>2
<1> DEFINE a == s - r
           b == s + r + 1
<1>6. a \in Int /\ b \in Int /\ a * b = s * (s + 1) - r * (r + 1)
  BY <1>3
<1>7. a * b = q * (2 * n)
  <2>1. a * b = 2 * (q * n)
    <3>1. a * b = 2 * Steps(s) - 2 * Steps(r)
      BY <1>4, <1>6
    <3>. HIDE DEF a, b
    <3>2. 2 * Steps(s) - 2 * Steps(r) = 2 * (Steps(s) - Steps(r))
      BY <1>4
    <3>. QED
      BY <1>5, <3>1, <3>2
  <2>. QED
    BY <2>1, <1>1
<1>8. 0 < a /\ a < 2 * n /\ 0 < b /\ b < 2 * n
  BY <1>1
<1>9. e + 1 \in 0 .. 31
  OBVIOUS
<1>10. PICK k \in Int : a = 2 * k \/ a = 2 * k + 1
  BY <1>6, a = 2 * (a \div 2) \/ a = 2 * (a \div 2) + 1, a \div 2 \in Int
<1>11. CASE a = 2 * k + 1
  <2>1. PICK c \in Int : b = c * (2 * n)
    <3>1. \E z \in Int : a * b = z * 2 ^ (e + 1)
      BY <1>2, <1>7
    <3>. HIDE DEF a, b
    <3>2. \E c \in Int : b = c * 2 ^ (e + 1)
      BY <1>6, <1>9, <1>11, <3>1, OddFactor
    <3>. QED
      BY <1>2, <3>2
  <2>. HIDE DEF a, b
  <2>. QED
    BY <1>1, <1>8, <2>1, NoMultipleBetween, 2 * n \in Int
<1>12. CASE a = 2 * k
  <2>0. b = 2 * (k + r) + 1 /\ k + r \in Int
    BY <1>3, <1>12
  <2>1. PICK c \in Int : a = c * (2 * n)
    <3>1. \E z \in Int : b * a = z * 2 ^ (e + 1)
      BY <1>2, <1>6, <1>7
    <3>. HIDE DEF a, b
    <3>2. \E c \in Int : a = c * 2 ^ (e + 1)
      BY <1>6, <1>9, <2>0, <3>1, OddFactor
    <3>. QED
      BY <1>2, <3>2
  <2>. HIDE DEF a, b
  <2>. QED
    BY <1>1, <1>8, <2>1, NoMultipleBetween, 2 * n \in Int
<1>. QED
  BY <1>10, <1>11, <1>12

(* A probe passes every bucket.                                            *)
LEMMA ProbeReachesAll ==
  ASSUME NEW n \in Sizes, NEW h \in Int, NEW i \in 0 .. n - 1
  PROVE  \E s \in 0 .. n - 1 : Probe(n, h, s) = i
<1> DEFINE B == 0 .. n - 1
           f == [s \in B |-> Probe(n, h, s)]
<1>1. n \in Nat /\ n > 0
  BY SizesDouble
<1>2. f \in [B -> B]
  BY <1>1, ProbeInTable
<1>3. \A r, s \in B : f[r] = f[s] => r = s
  <2>1. SUFFICES ASSUME NEW r \in B, NEW s \in B, f[r] = f[s], r # s
                 PROVE  FALSE
    OBVIOUS
  <2>2. r < s \/ s < r
    BY <1>1, <2>1
  <2>. QED
    BY <2>1, <2>2, ProbesApart
<1>4. IsFiniteSet(B)
  BY <1>1, FS_Interval
<1>5. f \in Surjection(B, B)
  <2>. HIDE DEF f, B
  <2>1. f \in Injection(B, B)
    BY <1>2, <1>3, Fun_IsInj
  <2>. QED
    BY <1>4, <2>1, FS_Injection
<1>6. \E s \in B : f[s] = i
  <2>1. i \in B
    OBVIOUS
  <2>. HIDE DEF f, B
  <2>. QED
    BY <1>5, <2>1 DEF Surjection
<1>. QED
  BY <1>6

-----------------------------------------------------------------------------
(* How large a table is made.                                              *)

LEMMA MinOf ==
  ASSUME NEW S \in SUBSET Int, NEW m \in S, \A x \in S : m <= x
  PROVE  Min(S) = m
<1>1. \A x \in S : (\A y \in S : x <= y) => x = m
  OBVIOUS
<1>. QED
  BY <1>1 DEF Min

LEMMA MaxOf ==
  ASSUME NEW S \in SUBSET Int, NEW m \in S, \A x \in S : x <= m
  PROVE  Max(S) = m
<1>1. \A x \in S : (\A y \in S : x >= y) => x = m
  OBVIOUS
<1>. QED
  BY <1>1 DEF Max

LEMMA PowersGrow ==
  ASSUME NEW i \in 0 .. 30, NEW j \in 0 .. 30, i <= j
  PROVE  2 ^ i <= 2 ^ j
<1> DEFINE T == {f \in i .. 30 : ~(2 ^ i <= 2 ^ f)}
<1>1. ASSUME T # {}
      PROVE  FALSE
  <2>1. T \in SUBSET Nat
    OBVIOUS
  <2>2. PICK m \in T : \A f \in T : m <= f
    <3>. HIDE DEF T
    <3>. QED
      BY <1>1, <2>1, LeastNatural
  <2>3. m # i
    <3>1. 2 ^ i \in Nat
      BY PowersOfTwo, Zenon
    <3>. QED
      BY <2>2, <3>1
  <2>4. PICK f \in 0 .. 30 : m = f + 1 /\ f \in i .. 30
    BY <2>2, <2>3, m - 1 \in 0 .. 30
  <2>5. f \notin T
    <3>1. ~(m <= f)
      BY <2>4
    <3>. HIDE DEF T
    <3>. QED
      BY <2>2, <3>1
  <2>6. 2 ^ f \in Nat /\ 2 ^ (f + 1) = 2 * 2 ^ f
    BY PowersOfTwo, Zenon
  <2>7. 2 ^ i \in Nat
    BY PowersOfTwo, Zenon
  <2>8. 2 ^ i <= 2 ^ f
    BY <2>4, <2>5
  <2>9. 2 ^ i <= 2 ^ m
    BY <2>4, <2>6, <2>7, <2>8
  <2>. QED
    BY <2>2, <2>9
<1>2. j \in i .. 30
  OBVIOUS
<1>. QED
  BY <1>1, <1>2

LEMMA RoundUp ==
  ASSUME NEW e \in 0 .. 29, NEW x \in Nat, 2 ^ e < x, x <= 2 ^ (e + 1)
  PROVE  ac_roundup32(x) = 2 ^ (e + 1)
<1> DEFINE S == {2 ^ f : f \in {i \in 0 .. 30 : 2 ^ i >= x}}
<1>1. \A f \in 0 .. 30 : 2 ^ f \in Nat
  BY PowersOfTwo, Zenon
<1>2. S \in SUBSET Int
  BY <1>1
<1>3. e + 1 \in 0 .. 30
  OBVIOUS
<1>4. 2 ^ (e + 1) \in S
  BY <1>1, <1>3
<1>5. ASSUME NEW y \in S
      PROVE  2 ^ (e + 1) <= y
  <2>1. PICK f \in 0 .. 30 : 2 ^ f >= x /\ y = 2 ^ f
    OBVIOUS
  <2>2. CASE f <= e
    <3>0. e \in 0 .. 30
      OBVIOUS
    <3>1. 2 ^ f <= 2 ^ e
      BY <2>2, <3>0, PowersGrow
    <3>2. 2 ^ f \in Nat /\ 2 ^ e \in Nat
      BY <1>1, <3>0
    <3>. QED
      BY <2>1, <3>1, <3>2
  <2>3. CASE e + 1 <= f
    BY <1>3, <2>1, <2>3, PowersGrow
  <2>. QED
    BY <2>2, <2>3
<1>6. Min(S) = 2 ^ (e + 1)
  <2>. HIDE DEF S
  <2>. QED
    BY <1>2, <1>4, <1>5, MinOf
<1>. QED
  BY <1>6 DEF ac_roundup32

(* The size a table asked to hold x keys is given.                         *)
SizeFor(x) == Max({ac_roundup32(x), 4})

LEMMA SizeForFirst == SizeFor(1) = 4 /\ 4 \in Sizes
<1> DEFINE S == {2 ^ f : f \in {i \in 0 .. 30 : 2 ^ i >= 1}}
<1>1. \A f \in 0 .. 30 : 2 ^ f \in Nat /\ 2 ^ f > 0
  BY PowersOfTwo, Zenon
<1>2. 1 \in S
  <2>1. 2 ^ 0 = 1 /\ 0 \in 0 .. 30
    OBVIOUS
  <2>2. 2 ^ 0 \in S
    <3>1. 2 ^ 0 >= 1
      BY <2>1
    <3>. QED
      BY <2>1, <3>1, Zenon
  <2>. QED
    BY <2>1, <2>2, Zenon
<1>3. S \in SUBSET Int /\ \A x \in S : 1 <= x
  BY <1>1
<1>4. ac_roundup32(1) = 1
  <2>1. Min(S) = 1
    <3>. HIDE DEF S
    <3>. QED
      BY <1>2, <1>3, MinOf
  <2>. QED
    BY <2>1 DEF ac_roundup32
<1>5. Max({1, 4}) = 4
  BY MaxOf
<1>6. 4 \in Sizes
  <2>1. 2 ^ 2 = 4
    OBVIOUS
  <2>. QED
    BY <2>1 DEF Sizes
<1>. QED
  BY <1>4, <1>5, <1>6 DEF SizeFor

LEMMA SizeForSame ==
  ASSUME NEW n \in Sizes
  PROVE  SizeFor(n - 1) = n
<1>1. n \in Nat /\ n >= 4
  BY SizesDouble
<1>2. PICK d \in 2 .. 23 : n = 2 ^ d
  BY DEF Sizes
<1>3. PICK e \in 0 .. 29 : d = e + 1
  BY d - 1 \in 0 .. 29, d = (d - 1) + 1
<1>4. e \in 0 .. 30
  OBVIOUS
<1>5. 2 ^ e \in Nat /\ 2 ^ (e + 1) = 2 * 2 ^ e
  BY <1>4, PowersOfTwo, Zenon
<1>6. n = 2 ^ (e + 1)
  BY <1>2, <1>3
<1>7. 2 ^ e < n - 1 /\ n - 1 <= 2 ^ (e + 1) /\ n - 1 \in Nat
  BY <1>1, <1>5, <1>6
<1>8. ac_roundup32(n - 1) = n
  <2> DEFINE x == n - 1
  <2>1. x \in Nat /\ 2 ^ e < x /\ x <= 2 ^ (e + 1)
    BY <1>7
  <2>. HIDE DEF x
  <2>2. ac_roundup32(x) = 2 ^ (e + 1)
    BY <2>1, RoundUp
  <2>. QED
    BY <1>6, <2>2 DEF x
<1>9. Max({n, 4}) = n
  BY <1>1, MaxOf
<1>. QED
  BY <1>8, <1>9 DEF SizeFor

LEMMA SizeForTwice ==
  ASSUME NEW n \in Sizes, 2 * n \in Sizes
  PROVE  SizeFor(n + 1) = 2 * n
<1>1. n \in Nat /\ n >= 4
  BY SizesDouble
<1>2. PICK e \in 2 .. 23 : n = 2 ^ e
  BY DEF Sizes
<1>3. e \in 0 .. 29 /\ e \in 0 .. 30
  OBVIOUS
<1>4. 2 ^ (e + 1) = 2 * n
  <2>1. 2 ^ (e + 1) = 2 * 2 ^ e
    BY <1>3, PowersOfTwo, Zenon
  <2>. QED
    BY <1>2, <2>1
<1>5. ac_roundup32(n + 1) = 2 * n
  <2> DEFINE x == n + 1
  <2>1. x \in Nat /\ 2 ^ e < x /\ x <= 2 ^ (e + 1)
    BY <1>1, <1>2, <1>4
  <2>. HIDE DEF x
  <2>2. ac_roundup32(x) = 2 ^ (e + 1)
    BY <1>3, <2>1, RoundUp
  <2>. QED
    BY <1>4, <2>2 DEF x
<1>6. Max({2 * n, 4}) = 2 * n
  BY <1>1, MaxOf
<1>. QED
  BY <1>5, <1>6 DEF SizeFor

LEMMA SizesGoOn ==
  ASSUME NEW n \in Sizes, n # 2 ^ 23
  PROVE  2 * n \in Sizes
<1>1. PICK e \in 2 .. 23 : n = 2 ^ e
  BY DEF Sizes
<1>2. e # 23
  BY <1>1
<1>3. e \in 0 .. 30 /\ e + 1 \in 2 .. 23
  BY <1>2
<1>4. 2 ^ (e + 1) = 2 * 2 ^ e
  BY <1>3, PowersOfTwo, Zenon
<1>. QED
  BY <1>1, <1>3, <1>4 DEF Sizes

(* A table is filled to at least half and never whole.                     *)
LEMMA HashUpper ==
  ASSUME NEW n \in Sizes
  PROVE  /\ ac_hash_upper(n) \in Nat
         /\ n <= 2 * ac_hash_upper(n) /\ ac_hash_upper(n) < n
<1>1. n \in Nat /\ n >= 4
  BY SizesDouble
<1>. QED
  BY <1>1 DEF ac_hash_upper

-----------------------------------------------------------------------------
(* Tables.                                                                 *)

Flag == {"empty", "deleted", "live"}

Occupied(t) == {i \in DOMAIN t.flags : t.flags[i] # "empty"}

(* Records of n buckets for keys in K and values in V.                     *)
Tables(K, V, n) ==
  [n_buckets : {n}, size : Nat, n_occupied : Nat, upper_bound : Nat,
   flags : [0 .. n - 1 -> Flag],
   keys : [0 .. n - 1 -> K \cup {Null}], vals : [0 .. n - 1 -> V \cup {Null}]]

(* The table is not made yet, or its size is a power of two; what it       *)
(* counts is there, and it is not filled beyond its bound.                 *)
WellFormed(K, V, t) ==
  /\ t.n_buckets \in {0} \cup Sizes
  /\ t \in Tables(K, V, t.n_buckets)
  /\ \A i \in Live(t) : t.keys[i] \in K
  /\ t.size = Cardinality(Live(t)) /\ t.n_occupied = Cardinality(Occupied(t))
  /\ t.upper_bound = IF t.n_buckets = 0 THEN 0 ELSE ac_hash_upper(t.n_buckets)
  /\ t.n_occupied <= t.upper_bound

(* Keys have hashes, equal keys equal ones.                                *)
Hashing(H, K) ==
  /\ H.hash \in [K -> Int]
  /\ \A j, k \in K : H.name[j] = H.name[k] => H.hash[j] = H.hash[k]

(* The probe of the key in a bucket comes to it before any empty one.      *)
Reached(H, t, i) ==
  \E s \in 0 .. t.n_buckets - 1 :
    /\ Probe(t.n_buckets, H.hash[t.keys[i]], s) = i
    /\ \A r \in 0 .. s - 1 : t.flags[Probe(t.n_buckets, H.hash[t.keys[i]], r)] # "empty"

LEMMA TableParts ==
  ASSUME NEW K, NEW V, NEW t, WellFormed(K, V, t)
  PROVE  /\ t.n_buckets \in Nat /\ t.size \in Nat /\ t.n_occupied \in Nat
         /\ t.upper_bound \in Nat
         /\ DOMAIN t.flags = 0 .. t.n_buckets - 1
         /\ t.flags \in [0 .. t.n_buckets - 1 -> Flag]
         /\ t.keys \in [0 .. t.n_buckets - 1 -> K \cup {Null}]
         /\ t.vals \in [0 .. t.n_buckets - 1 -> V \cup {Null}]
         /\ IsFiniteSet(0 .. t.n_buckets - 1)
         /\ Cardinality(0 .. t.n_buckets - 1) = t.n_buckets
<1>1. t.n_buckets \in Nat
  BY SizesDouble DEF WellFormed
<1>2. /\ IsFiniteSet(0 .. t.n_buckets - 1)
      /\ Cardinality(0 .. t.n_buckets - 1) = t.n_buckets
  BY <1>1, FS_Interval
<1>3. t \in Tables(K, V, t.n_buckets)
  BY DEF WellFormed
<1>4. /\ t.size \in Nat /\ t.n_occupied \in Nat /\ t.upper_bound \in Nat
      /\ t.flags \in [0 .. t.n_buckets - 1 -> Flag]
      /\ t.keys \in [0 .. t.n_buckets - 1 -> K \cup {Null}]
      /\ t.vals \in [0 .. t.n_buckets - 1 -> V \cup {Null}]
  BY <1>3 DEF Tables
<1>5. DOMAIN t.flags = 0 .. t.n_buckets - 1
  BY <1>4
<1>. QED
  BY <1>1, <1>2, <1>4, <1>5

(* A table before its first key.                                           *)
LEMMA EmptyIsWellFormed ==
  ASSUME NEW K, NEW V
  PROVE  WellFormed(K, V, kh_init) /\ Live(kh_init) = {}
<1> DEFINE t == kh_init
<1>1. /\ t.n_buckets = 0 /\ t.size = 0 /\ t.n_occupied = 0 /\ t.upper_bound = 0
      /\ t.flags = <<>> /\ t.keys = <<>> /\ t.vals = <<>>
      /\ t = [n_buckets |-> t.n_buckets, size |-> t.size, n_occupied |-> t.n_occupied,
              upper_bound |-> t.upper_bound, flags |-> t.flags, keys |-> t.keys,
              vals |-> t.vals]
  BY DEF kh_init
<1>. HIDE DEF t
<1>2. Live(t) = {} /\ Occupied(t) = {}
  BY <1>1 DEF Live, Occupied
<1>3. t \in Tables(K, V, 0)
  <2>1. /\ <<>> \in [0 .. 0 - 1 -> Flag] /\ <<>> \in [0 .. 0 - 1 -> K \cup {Null}]
        /\ <<>> \in [0 .. 0 - 1 -> V \cup {Null}]
    <3>1. 0 .. 0 - 1 = {} /\ DOMAIN <<>> = {}
      OBVIOUS
    <3>. QED
      BY <3>1
  <2>2. /\ t.flags \in [0 .. 0 - 1 -> Flag] /\ t.keys \in [0 .. 0 - 1 -> K \cup {Null}]
        /\ t.vals \in [0 .. 0 - 1 -> V \cup {Null}]
    BY <1>1, <2>1, Zenon
  <2>3. t.n_buckets \in {0} /\ t.size \in Nat /\ t.n_occupied \in Nat /\ t.upper_bound \in Nat
    BY <1>1
  <2>. QED
    BY <1>1, <2>2, <2>3, Zenon DEF Tables
<1>4. Cardinality({}) = 0
  BY FS_EmptySet
<1>5. WellFormed(K, V, t)
  BY <1>1, <1>2, <1>3, <1>4 DEF WellFormed
<1>. QED
  BY <1>2, <1>5 DEF t

(* Some bucket is empty; the counts are true.                              *)
LEMMA WellFormedIsSound ==
  ASSUME NEW K, NEW V, NEW t, WellFormed(K, V, t)
  PROVE  /\ Sound(t)
         /\ t.n_buckets > 0 => \E i \in 0 .. t.n_buckets - 1 : t.flags[i] = "empty"
<1>1. t.n_buckets > 0 => t.n_occupied < t.n_buckets
  <2>1. SUFFICES ASSUME t.n_buckets > 0
                 PROVE  t.n_occupied < t.n_buckets
    OBVIOUS
  <2>2. t.n_buckets \in Sizes /\ t.n_occupied <= ac_hash_upper(t.n_buckets)
    BY <2>1 DEF WellFormed
  <2>3. ac_hash_upper(t.n_buckets) \in Nat /\ ac_hash_upper(t.n_buckets) < t.n_buckets
    BY <2>2, HashUpper
  <2>. QED
    BY <2>2, <2>3, TableParts
<1>2. Sound(t)
  BY <1>1 DEF Sound, WellFormed, Occupied
<1>3. ASSUME t.n_buckets > 0, \A i \in 0 .. t.n_buckets - 1 : t.flags[i] # "empty"
      PROVE  FALSE
  <2>1. Occupied(t) = 0 .. t.n_buckets - 1
    BY <1>3, TableParts DEF Occupied
  <2>2. t.n_occupied = t.n_buckets
    BY <2>1, TableParts DEF WellFormed
  <2>. QED
    BY <1>1, <1>3, <2>2, TableParts
<1>. QED
  BY <1>2, <1>3

LEMMA LiveBuckets ==
  ASSUME NEW K, NEW V, NEW t, WellFormed(K, V, t)
  PROVE  /\ Live(t) = {i \in 0 .. t.n_buckets - 1 : t.flags[i] = "live"}
         /\ Live(t) \subseteq Occupied(t) /\ Occupied(t) \subseteq 0 .. t.n_buckets - 1
         /\ IsFiniteSet(Live(t)) /\ IsFiniteSet(Occupied(t))
         /\ t.size <= t.n_occupied
<1>1. /\ Live(t) = {i \in 0 .. t.n_buckets - 1 : t.flags[i] = "live"}
      /\ Live(t) \subseteq Occupied(t) /\ Occupied(t) \subseteq 0 .. t.n_buckets - 1
  BY TableParts DEF Live, Occupied
<1>2. IsFiniteSet(Occupied(t))
  BY <1>1, TableParts, FS_Subset
<1>3. IsFiniteSet(Live(t)) /\ Cardinality(Live(t)) <= Cardinality(Occupied(t))
  BY <1>1, <1>2, FS_Subset
<1>. QED
  BY <1>1, <1>2, <1>3 DEF WellFormed

(* A search ends within as many steps as there are buckets, at the key or  *)
(* at an empty bucket, and has passed neither.                             *)
LEMMA SearchEnds ==
  ASSUME NEW K, NEW V, NEW t, WellFormed(K, V, t), t.n_buckets > 0,
         NEW H, Hashing(H, K), NEW key \in K
  PROVE  LET at(s) == Probe(t.n_buckets, H.hash[key], s)
             s == Ends(H, t, key)
         IN  /\ s \in 0 .. t.n_buckets - 1
             /\ at(s) \in 0 .. t.n_buckets - 1
             /\ ~(s > 0 /\ at(s) = at(0))
             /\ \/ t.flags[at(s)] = "empty"
                \/ t.flags[at(s)] = "live" /\ H.name[t.keys[at(s)]] = H.name[key]
             /\ \A r \in 0 .. s - 1 :
                  /\ at(r) \in 0 .. t.n_buckets - 1
                  /\ t.flags[at(r)] # "empty"
                  /\ ~(t.flags[at(r)] = "live" /\ H.name[t.keys[at(r)]] = H.name[key])
<1> DEFINE n == t.n_buckets
           h == H.hash[key]
           at(s) == Probe(n, h, s)
           Stops(s) == \/ t.flags[at(s)] = "empty"
                       \/ t.flags[at(s)] = "live" /\ H.name[t.keys[at(s)]] = H.name[key]
                       \/ s > 0 /\ at(s) = at(0)
           e == CHOOSE s \in 0 .. 2 * n - 1 : Stops(s) /\ \A r \in 0 .. s - 1 : ~Stops(r)
           T == {s \in 0 .. 2 * n - 1 : Stops(s)}
<1>1. n \in Sizes /\ n \in Nat /\ n > 0 /\ h \in Int
  <2>1. n \in Nat
    BY TableParts
  <2>2. n \in Sizes
    BY <2>1 DEF WellFormed
  <2>3. h \in Int
    BY DEF Hashing
  <2>. QED
    BY <2>1, <2>2, <2>3
<1>2. PICK i \in 0 .. n - 1 : t.flags[i] = "empty"
  BY WellFormedIsSound
<1>3. PICK z \in 0 .. n - 1 : at(z) = i
  BY <1>1, ProbeReachesAll
<1>4. z \in T
  BY <1>1, <1>2, <1>3
<1>5. T \in SUBSET Nat
  BY <1>1
<1>6. PICK m \in T : \A s \in T : m <= s
  <2>. HIDE DEF T
  <2>. QED
    BY <1>4, <1>5, LeastNatural
<1>7. \A r \in 0 .. m - 1 : ~Stops(r)
  <2>1. \A r \in 0 .. m - 1 : r \in 0 .. 2 * n - 1 /\ ~(m <= r)
    BY <1>1, <1>6
  <2>. HIDE DEF Stops
  <2>. QED
    BY <1>6, <2>1
<1>8. e \in 0 .. 2 * n - 1 /\ Stops(e) /\ \A r \in 0 .. e - 1 : ~Stops(r)
  <2>1. m \in 0 .. 2 * n - 1 /\ Stops(m)
    BY <1>6
  <2>. HIDE DEF Stops
  <2>. QED
    BY <1>7, <2>1
<1>9. Ends(H, t, key) = e
  BY DEF Ends, First
<1>10. e <= z
  <2>1. Stops(z)
    BY <1>2, <1>3
  <2>. HIDE DEF Stops, e
  <2>. QED
    BY <1>1, <1>8, <2>1
<1>. HIDE DEF e
<1>11. e \in 0 .. n - 1
  BY <1>1, <1>8, <1>10
<1>12. ~(e > 0 /\ at(e) = at(0))
  <2>1. 0 \in 0 .. n - 1
    BY <1>1
  <2>. HIDE DEF n, h
  <2>. QED
    BY <1>1, <1>11, <2>1, ProbesApart
<1>13. \A r \in 0 .. e : at(r) \in 0 .. n - 1
  <2>1. \A r \in 0 .. e : r \in Nat
    BY <1>11
  <2>. HIDE DEF n, h
  <2>. QED
    BY <1>1, <2>1, ProbeInTable
<1>14. e \in 0 .. e /\ \A r \in 0 .. e - 1 : r \in 0 .. e
  BY <1>11
<1>15. \/ t.flags[at(e)] = "empty"
       \/ t.flags[at(e)] = "live" /\ H.name[t.keys[at(e)]] = H.name[key]
  BY <1>8, <1>12
<1>16. \A r \in 0 .. e - 1 :
         /\ t.flags[at(r)] # "empty"
         /\ ~(t.flags[at(r)] = "live" /\ H.name[t.keys[at(r)]] = H.name[key])
  BY <1>8
<1>. QED
  BY <1>9, <1>11, <1>12, <1>13, <1>14, <1>15, <1>16

(* kh_get finds a live bucket of an equal key or nothing.                  *)
LEMMA GetFindsEqual ==
  ASSUME NEW K, NEW V, NEW t, WellFormed(K, V, t),
         NEW H, Hashing(H, K), NEW key \in K, kh_get(H, t, key) # t.n_buckets
  PROVE  /\ kh_get(H, t, key) \in Live(t)
         /\ H.name[t.keys[kh_get(H, t, key)]] = H.name[key]
<1>1. t.n_buckets > 0
  <2>1. t.n_buckets # 0
    BY DEF kh_get
  <2>. QED
    BY <2>1, TableParts
<1> DEFINE s == Ends(H, t, key)
           i == Probe(t.n_buckets, H.hash[key], s)
<1>2. /\ i \in 0 .. t.n_buckets - 1
      /\ t.flags[i] = "empty" \/ (t.flags[i] = "live" /\ H.name[t.keys[i]] = H.name[key])
  BY <1>1, SearchEnds
<1>3. t.flags[i] = "live" /\ kh_get(H, t, key) = i
  BY <1>1, TableParts DEF kh_get
<1>. QED
  BY <1>2, <1>3, LiveBuckets

(* It finds one when there is one that its own probe reaches.              *)
LEMMA GetFindsReached ==
  ASSUME NEW K, NEW V, NEW t, WellFormed(K, V, t),
         NEW H, Hashing(H, K), NEW key \in K,
         NEW b \in Live(t), H.name[t.keys[b]] = H.name[key], Reached(H, t, b)
  PROVE  kh_get(H, t, key) # t.n_buckets
<1>1. b \in 0 .. t.n_buckets - 1 /\ t.flags[b] = "live" /\ t.keys[b] \in K
  BY LiveBuckets DEF WellFormed
<1>2. t.n_buckets \in Nat /\ t.n_buckets > 0
  BY <1>1, TableParts
<1>3. H.hash[t.keys[b]] = H.hash[key]
  BY <1>1 DEF Hashing
<1> DEFINE at(s) == Probe(t.n_buckets, H.hash[key], s)
           e == Ends(H, t, key)
<1>4. PICK s \in 0 .. t.n_buckets - 1 :
        at(s) = b /\ \A r \in 0 .. s - 1 : t.flags[at(r)] # "empty"
  BY <1>3 DEF Reached
<1>5. /\ e \in 0 .. t.n_buckets - 1
      /\ at(e) \in 0 .. t.n_buckets - 1
      /\ ~(e > 0 /\ at(e) = at(0))
      /\ t.flags[at(e)] = "empty" \/ t.flags[at(e)] = "live"
      /\ \A r \in 0 .. e - 1 :
           ~(t.flags[at(r)] = "live" /\ H.name[t.keys[at(r)]] = H.name[key])
  BY <1>2, SearchEnds
<1>. HIDE DEF at, e
<1>6. e <= s
  BY <1>1, <1>2, <1>4, <1>5
<1>7. t.flags[at(e)] = "live"
  BY <1>1, <1>2, <1>4, <1>5, <1>6
<1>8. kh_get(H, t, key) = at(e)
  BY <1>2, <1>5, <1>7 DEF kh_get, at, e
<1>. QED
  BY <1>2, <1>5, <1>8

-----------------------------------------------------------------------------
(* Putting a key where there is room.                                      *)

LEMMA GreatestBelow ==
  ASSUME NEW k \in Nat, NEW S \in SUBSET (0 .. k - 1), S # {}
  PROVE  Max(S) \in S
<1> DEFINE T == {k - x : x \in S}
<1>1. T \in SUBSET Nat /\ T # {}
  <2>1. PICK z \in S : TRUE
    OBVIOUS
  <2>2. k - z \in T
    OBVIOUS
  <2>3. \A x \in S : k - x \in Nat
    OBVIOUS
  <2>. QED
    BY <2>2, <2>3
<1>2. PICK y \in T : \A z \in T : y <= z
  <2>. HIDE DEF T
  <2>. QED
    BY <1>1, LeastNatural
<1>3. PICK m \in S : y = k - m
  BY <1>2
<1>4. \A x \in S : x <= m
  BY <1>2, <1>3
<1>5. S \in SUBSET Int
  OBVIOUS
<1>. QED
  BY <1>3, <1>4, <1>5, MaxOf

(* What kh_put's search comes to: the bucket that kh_get finds or, when    *)
(* that finds none, one that is not live and that the key's probe comes to *)
(* before any empty bucket.                                                *)
LEMMA SiteOfKey ==
  ASSUME NEW K, NEW V, NEW t, WellFormed(K, V, t), t.n_buckets > 0,
         NEW H, Hashing(H, K), NEW key \in K
  PROVE  LET x == Site(H, t, key)
         IN  /\ x \in 0 .. t.n_buckets - 1
             /\ \/ t.flags[x] = "live" /\ x = kh_get(H, t, key)
                \/ t.flags[x] # "live" /\ kh_get(H, t, key) = t.n_buckets
             /\ \E s \in 0 .. t.n_buckets - 1 :
                  /\ Probe(t.n_buckets, H.hash[key], s) = x
                  /\ \A r \in 0 .. s - 1 :
                       t.flags[Probe(t.n_buckets, H.hash[key], r)] # "empty"
<1> DEFINE n == t.n_buckets
           at(s) == Probe(n, H.hash[key], s)
           e == Ends(H, t, key)
           passed == {r \in 0 .. e - 1 : t.flags[at(r)] = "deleted"}
           x == Site(H, t, key)
<1>1. n \in Nat
  BY TableParts
<1>2. /\ e \in 0 .. n - 1
      /\ at(e) \in 0 .. n - 1
      /\ ~(e > 0 /\ at(e) = at(0))
      /\ t.flags[at(e)] = "empty" \/ t.flags[at(e)] = "live"
      /\ \A r \in 0 .. e - 1 : at(r) \in 0 .. n - 1 /\ t.flags[at(r)] # "empty"
  BY SearchEnds
<1>3. x = IF passed # {} /\ t.flags[at(e)] = "empty" THEN at(Max(passed)) ELSE at(e)
  BY <1>2 DEF Site
<1>4. kh_get(H, t, key) = IF t.flags[at(e)] = "live" THEN at(e) ELSE n
  BY <1>1, <1>2 DEF kh_get
<1>5. CASE passed # {} /\ t.flags[at(e)] = "empty"
  <2>1. e \in Nat /\ passed \in SUBSET (0 .. e - 1)
    BY <1>1, <1>2
  <2>2. Max(passed) \in passed
    <3>. HIDE DEF passed, e
    <3>. QED
      BY <1>5, <2>1, GreatestBelow
  <2>3. PICK r \in 0 .. e - 1 : r = Max(passed) /\ t.flags[at(r)] = "deleted"
    BY <2>2
  <2>4. x = at(r) /\ at(r) \in 0 .. n - 1 /\ r \in 0 .. n - 1
    BY <1>1, <1>2, <1>3, <1>5, <2>3
  <2>5. \A q \in 0 .. r - 1 : q \in 0 .. e - 1
    BY <1>1, <1>2
  <2>6. kh_get(H, t, key) = n
    BY <1>4, <1>5
  <2>. HIDE DEF x, e, passed
  <2>. QED
    BY <1>2, <2>3, <2>4, <2>5, <2>6 DEF x
<1>6. CASE ~(passed # {} /\ t.flags[at(e)] = "empty")
  <2>1. x = at(e)
    BY <1>3, <1>6
  <2>2. \/ t.flags[x] = "live" /\ x = kh_get(H, t, key)
        \/ t.flags[x] # "live" /\ kh_get(H, t, key) = n
    BY <1>4, <2>1
  <2>. HIDE DEF x, e, passed
  <2>. QED
    BY <1>2, <2>1, <2>2 DEF x
<1>. QED
  BY <1>5, <1>6

(* u is t with a key put in bucket x.                                      *)
Added(t, u, x, key) ==
  /\ x \in 0 .. t.n_buckets - 1 /\ x \notin Live(t)
  /\ u.n_buckets = t.n_buckets /\ u.size = t.size + 1
  /\ u.flags = [t.flags EXCEPT ![x] = "live"]
  /\ u.keys = [t.keys EXCEPT ![x] = key] /\ u.vals = t.vals

LEMMA AddedLive ==
  ASSUME NEW K, NEW V, NEW t, WellFormed(K, V, t), NEW u, NEW x, NEW key,
         Added(t, u, x, key)
  PROVE  /\ Live(u) = Live(t) \cup {x}
         /\ u.keys[x] = key /\ \A i \in Live(t) : i # x /\ u.keys[i] = t.keys[i]
<1>1. /\ t.flags \in [0 .. t.n_buckets - 1 -> Flag]
      /\ t.keys \in [0 .. t.n_buckets - 1 -> K \cup {Null}]
  BY TableParts
<1>2. Live(t) \subseteq 0 .. t.n_buckets - 1
  BY LiveBuckets
<1>. QED
  BY <1>1, <1>2 DEF Added, Live

(* No bucket empties, so what was reached is reached.                      *)
LEMMA StillReached ==
  ASSUME NEW K, NEW V, NEW t, WellFormed(K, V, t), NEW u, NEW H, NEW x, NEW key,
         Hashing(H, K), Added(t, u, x, key), NEW i \in Live(t), Reached(H, t, i)
  PROVE  Reached(H, u, i)
<1>1. u.keys[i] = t.keys[i] /\ u.n_buckets = t.n_buckets
  BY AddedLive DEF Added
<1>2. PICK s \in 0 .. t.n_buckets - 1 :
        /\ Probe(t.n_buckets, H.hash[t.keys[i]], s) = i
        /\ \A r \in 0 .. s - 1 : t.flags[Probe(t.n_buckets, H.hash[t.keys[i]], r)] # "empty"
  BY DEF Reached
<1>3. t.n_buckets \in Sizes /\ t.n_buckets \in Nat /\ H.hash[t.keys[i]] \in Int
  <2>1. i \in 0 .. t.n_buckets - 1 /\ t.keys[i] \in K
    BY LiveBuckets DEF WellFormed
  <2>2. t.n_buckets \in Nat
    BY TableParts
  <2>3. t.n_buckets \in Sizes
    BY <2>1, <2>2 DEF WellFormed
  <2>4. H.hash[t.keys[i]] \in Int
    BY <2>1 DEF Hashing
  <2>. QED
    BY <2>2, <2>3, <2>4
<1>4. \A r \in 0 .. s - 1 :
        /\ r \in Nat
        /\ Probe(t.n_buckets, H.hash[t.keys[i]], r) \in 0 .. t.n_buckets - 1
  <2>1. \A r \in 0 .. s - 1 : r \in Nat
    BY <1>3
  <2>. QED
    BY <1>3, <2>1, ProbeInTable
<1>5. t.flags \in [0 .. t.n_buckets - 1 -> Flag]
  BY TableParts
<1>6. \A j \in 0 .. t.n_buckets - 1 : t.flags[j] # "empty" => u.flags[j] # "empty"
  BY <1>5 DEF Added
<1>7. \A r \in 0 .. s - 1 : u.flags[Probe(t.n_buckets, H.hash[t.keys[i]], r)] # "empty"
  BY <1>2, <1>4, <1>6
<1>. QED
  BY <1>1, <1>2, <1>7 DEF Reached

LEMMA AddedWellFormed ==
  ASSUME NEW K, NEW V, NEW t, WellFormed(K, V, t), t.n_occupied < t.upper_bound,
         NEW x \in 0 .. t.n_buckets - 1, t.flags[x] # "live", NEW key \in K, NEW u,
         u = [t EXCEPT !.keys[x] = key, !.flags[x] = "live", !.size = @ + 1,
                       !.n_occupied = IF t.flags[x] = "empty" THEN @ + 1 ELSE @]
  PROVE  Added(t, u, x, key) /\ WellFormed(K, V, u)
<1>1. t \in Tables(K, V, t.n_buckets)
  BY DEF WellFormed
<1>2. /\ u.n_buckets = t.n_buckets /\ u.size = t.size + 1
      /\ u.n_occupied = (IF t.flags[x] = "empty" THEN t.n_occupied + 1 ELSE t.n_occupied)
      /\ u.upper_bound = t.upper_bound /\ u.vals = t.vals
      /\ u.flags = [t.flags EXCEPT ![x] = "live"]
      /\ u.keys = [t.keys EXCEPT ![x] = key]
  BY <1>1 DEF Tables
<1>3. x \notin Live(t)
  BY DEF Live
<1>4. Added(t, u, x, key)
  BY <1>2, <1>3 DEF Added
<1>5. u \in Tables(K, V, u.n_buckets)
  <2>1. /\ u.flags \in [0 .. t.n_buckets - 1 -> Flag]
        /\ u.keys \in [0 .. t.n_buckets - 1 -> K \cup {Null}]
        /\ u.vals \in [0 .. t.n_buckets - 1 -> V \cup {Null}]
    BY <1>2, TableParts DEF Flag
  <2>2. u.size \in Nat /\ u.n_occupied \in Nat /\ u.upper_bound \in Nat
    BY <1>2, TableParts
  <2>3. u = [n_buckets |-> u.n_buckets, size |-> u.size, n_occupied |-> u.n_occupied,
             upper_bound |-> u.upper_bound, flags |-> u.flags, keys |-> u.keys,
             vals |-> u.vals]
    BY <1>1 DEF Tables
  <2>. QED
    BY <1>2, <2>1, <2>2, <2>3 DEF Tables
<1>6. /\ Live(u) = Live(t) \cup {x}
      /\ u.keys[x] = key /\ \A i \in Live(t) : i # x /\ u.keys[i] = t.keys[i]
  <2>1. \A w : Added(t, w, x, key) =>
               /\ Live(w) = Live(t) \cup {x}
               /\ w.keys[x] = key /\ \A i \in Live(t) : i # x /\ w.keys[i] = t.keys[i]
    BY AddedLive
  <2>. QED
    BY <1>4, <2>1
<1>7. \A i \in Live(u) : u.keys[i] \in K
  BY <1>6 DEF WellFormed
<1>8. u.size = Cardinality(Live(u))
  <2>1. IsFiniteSet(Live(t)) /\ t.size = Cardinality(Live(t))
    BY LiveBuckets DEF WellFormed
  <2>2. Cardinality(Live(t) \cup {x}) = Cardinality(Live(t)) + 1
    BY <1>3, <2>1, FS_AddElement
  <2>. QED
    BY <1>2, <1>6, <2>1, <2>2
<1>9. u.n_occupied = Cardinality(Occupied(u))
  <2>1. IsFiniteSet(Occupied(t)) /\ t.n_occupied = Cardinality(Occupied(t))
    BY LiveBuckets DEF WellFormed
  <2>2. Occupied(u) = Occupied(t) \cup {x}
    BY <1>2, TableParts DEF Occupied
  <2>3. x \in Occupied(t) <=> t.flags[x] # "empty"
    BY TableParts DEF Occupied
  <2>4. Cardinality(Occupied(t) \cup {x}) =
          IF x \in Occupied(t) THEN Cardinality(Occupied(t)) ELSE Cardinality(Occupied(t)) + 1
    BY <2>1, FS_AddElement
  <2>. QED
    BY <1>2, <2>1, <2>2, <2>3, <2>4
<1>10. u.n_occupied <= u.upper_bound
  BY <1>2, TableParts
<1>11. u.upper_bound = IF u.n_buckets = 0 THEN 0 ELSE ac_hash_upper(u.n_buckets)
  BY <1>2 DEF WellFormed
<1>12. u.n_buckets \in {0} \cup Sizes
  BY <1>2 DEF WellFormed
<1>. QED
  BY <1>4, <1>5, <1>7, <1>8, <1>9, <1>10, <1>11, <1>12 DEF WellFormed

(* kh_put in a table with room: the bucket kh_get finds, and nothing       *)
(* changes; or the key is added in a bucket that its probe reaches.        *)
LEMMA PutWithRoom ==
  ASSUME NEW K, NEW V, NEW t, WellFormed(K, V, t), t.n_occupied < t.upper_bound,
         NEW H, Hashing(H, K), NEW key \in K
  PROVE  LET p == PutAt(t, key, Site(H, t, key))
         IN  \/ /\ p.ret = 0 /\ p.t = t
                /\ p.x = kh_get(H, t, key) /\ p.x # t.n_buckets
             \/ /\ p.ret # 0 /\ kh_get(H, t, key) = t.n_buckets
                /\ Added(t, p.t, p.x, key) /\ p.t.keys[p.x] = key
                /\ WellFormed(K, V, p.t) /\ Reached(H, p.t, p.x)
<1> DEFINE x == Site(H, t, key)
           p == PutAt(t, key, x)
<1>1. t.n_buckets > 0
  <2>1. t.n_buckets # 0
    <3>1. t.n_occupied \in Nat
      BY TableParts
    <3>2. t.n_buckets = 0 => t.upper_bound = 0
      BY DEF WellFormed
    <3>. QED
      BY <3>1, <3>2
  <2>. QED
    BY <2>1, TableParts
<1>2. /\ x \in 0 .. t.n_buckets - 1
      /\ \/ t.flags[x] = "live" /\ x = kh_get(H, t, key)
         \/ t.flags[x] # "live" /\ kh_get(H, t, key) = t.n_buckets
  BY <1>1, SiteOfKey
<1>3. PICK s \in 0 .. t.n_buckets - 1 :
        /\ Probe(t.n_buckets, H.hash[key], s) = x
        /\ \A r \in 0 .. s - 1 : t.flags[Probe(t.n_buckets, H.hash[key], r)] # "empty"
  BY <1>1, SiteOfKey
<1>. HIDE DEF x
<1>4. t.flags[x] \in Flag
  BY <1>2, TableParts
<1>5. CASE t.flags[x] = "live"
  <2>1. p.ret = 0 /\ p.t = t /\ p.x = x
    BY <1>5 DEF PutAt
  <2>2. x = kh_get(H, t, key) /\ x # t.n_buckets
    BY <1>2, <1>5, TableParts
  <2>. QED
    BY <2>1, <2>2 DEF x
<1>6. CASE t.flags[x] # "live"
  <2>1. /\ p.x = x /\ p.ret # 0
        /\ p.ret = 1 <=> t.flags[x] = "empty"
        /\ p.t = [t EXCEPT !.keys[x] = key, !.flags[x] = "live", !.size = @ + 1,
                           !.n_occupied = IF p.ret = 1 THEN @ + 1 ELSE @]
    BY <1>4, <1>6 DEF PutAt, Flag
  <2>2. p.t = [t EXCEPT !.keys[x] = key, !.flags[x] = "live", !.size = @ + 1,
                        !.n_occupied = IF t.flags[x] = "empty" THEN @ + 1 ELSE @]
    BY <2>1
  <2>. HIDE DEF p
  <2>3. Added(t, p.t, x, key) /\ WellFormed(K, V, p.t)
    BY <1>2, <1>6, <2>2, AddedWellFormed
  <2>4. p.t.n_buckets = t.n_buckets /\ p.t.keys[x] = key
    <3>1. p.t.n_buckets = t.n_buckets
      BY <2>3 DEF Added
    <3>2. p.t.keys[x] = key
      <4>1. \A w : Added(t, w, x, key) => w.keys[x] = key
        BY AddedLive
      <4>. QED
        BY <2>3, <4>1
    <3>. QED
      BY <3>1, <3>2
  <2>5. \A r \in 0 .. s - 1 :
          Probe(t.n_buckets, H.hash[key], r) \in 0 .. t.n_buckets - 1
    <3>0. t.n_buckets \in Nat
      BY TableParts
    <3>1. t.n_buckets \in Sizes
      BY <1>1, <3>0 DEF WellFormed
    <3>2. \A r \in 0 .. s - 1 : r \in Nat
      BY <1>3, <3>0
    <3>3. H.hash[key] \in Int
      BY DEF Hashing
    <3>. QED
      BY <3>1, <3>2, <3>3, ProbeInTable
  <2>6. \A j \in 0 .. t.n_buckets - 1 : t.flags[j] # "empty" => p.t.flags[j] # "empty"
    BY <2>3, TableParts DEF Added
  <2>7. \A r \in 0 .. s - 1 : p.t.flags[Probe(t.n_buckets, H.hash[key], r)] # "empty"
    BY <1>3, <2>5, <2>6
  <2>8. Reached(H, p.t, x)
    BY <1>3, <2>4, <2>7 DEF Reached
  <2>. QED
    BY <1>2, <1>6, <2>1, <2>3, <2>4, <2>8 DEF x, p
<1>. QED
  BY <1>5, <1>6

-----------------------------------------------------------------------------
(* Rehashing.                                                              *)

LiveIn(f) == {i \in DOMAIN f : f[i] = "live"}

(* Where the contents of the old table's buckets are: in buckets not moved *)
(* yet, in buckets of the new table, and in the hand of the kick-out       *)
(* process, which is place -1.                                             *)
Places(st) == LiveIn(st.flags) \cup LiveIn(st.new) \cup {p \in {-1} : ~st.done}

KeyIn(st, p) == IF p = -1 THEN st.key ELSE st.keys[p]
ValIn(st, p) == IF p = -1 THEN st.val ELSE st.vals[p]

(* g says where the contents of each bucket of t are.                      *)
Carried(t, st, g) ==
  /\ g \in [Live(t) -> Places(st)]
  /\ \A b, c \in Live(t) : g[b] = g[c] => b = c
  /\ \A p \in Places(st) : \E b \in Live(t) : g[b] = p
  /\ \A b \in Live(t) : KeyIn(st, g[b]) = t.keys[b] /\ ValIn(st, g[b]) = t.vals[b]

(* The probe of the key in a bucket of the new table comes to it before    *)
(* any empty one.                                                          *)
NewReached(H, n, st, i) ==
  \E s \in 0 .. n - 1 :
    /\ Probe(n, H.hash[st.keys[i]], s) = i
    /\ \A r \in 0 .. s - 1 : st.new[Probe(n, H.hash[st.keys[i]], r)] = "live"

Stages(K, V, t, n, a) ==
  [flags : [0 .. t.n_buckets - 1 -> Flag], new : [0 .. n - 1 -> {"empty", "live"}],
   keys : [0 .. a - 1 -> K \cup {Null}], vals : [0 .. a - 1 -> V \cup {Null}],
   j : 0 .. t.n_buckets, key : K \cup {Null}, val : V \cup {Null}, done : BOOLEAN]

(* What holds from one step of the rehashing of t into n buckets to the    *)
(* next, where the arrays have a elements: nothing is lost, nothing is     *)
(* twice, what is in the new table is found there.                         *)
Moving(H, K, V, t, n, a, st) ==
  /\ st \in Stages(K, V, t, n, a)
  /\ \A i \in LiveIn(st.new) : i \notin LiveIn(st.flags)
  /\ \A i \in 0 .. st.j - 1 : st.flags[i] # "live"
  /\ \E g : Carried(t, st, g)
  /\ \A i \in LiveIn(st.new) : NewReached(H, n, st, i)

(* The case the proofs are about: a table of keys in K with values in V is *)
(* rehashed into n buckets, enough for its keys.                           *)
Rehashing(H, K, V, t, n, a) ==
  /\ WellFormed(K, V, t) /\ Hashing(H, K)
  /\ n \in Sizes /\ t.size < ac_hash_upper(n)
  /\ a \in Nat /\ n <= a /\ t.n_buckets <= a

LEMMA RehashingParts ==
  ASSUME NEW H, NEW K, NEW V, NEW t, NEW n, NEW a, Rehashing(H, K, V, t, n, a)
  PROVE  /\ n \in Nat /\ n >= 4 /\ a \in Nat /\ n <= a /\ t.n_buckets <= a
         /\ t.n_buckets \in Nat /\ t.size \in Nat /\ t.size < n
         /\ Live(t) \subseteq 0 .. t.n_buckets - 1 /\ IsFiniteSet(Live(t))
         /\ Cardinality(Live(t)) = t.size
         /\ \A b \in Live(t) : t.keys[b] \in K
<1>1. WellFormed(K, V, t) /\ n \in Sizes /\ t.size < ac_hash_upper(n)
  BY DEF Rehashing
<1>2. n \in Nat /\ n >= 4 /\ ac_hash_upper(n) \in Nat /\ ac_hash_upper(n) < n
  BY <1>1, SizesDouble, HashUpper
<1>3. t.n_buckets \in Nat /\ t.size \in Nat
  BY <1>1, TableParts
<1>4. Live(t) \subseteq 0 .. t.n_buckets - 1 /\ IsFiniteSet(Live(t))
  BY <1>1, LiveBuckets
<1>5. Cardinality(Live(t)) = t.size /\ \A b \in Live(t) : t.keys[b] \in K
  BY <1>1 DEF WellFormed
<1>6. a \in Nat /\ n <= a /\ t.n_buckets <= a
  BY DEF Rehashing
<1>. QED
  BY <1>1, <1>2, <1>3, <1>4, <1>5, <1>6

LEMMA StageParts ==
  ASSUME NEW K, NEW V, NEW t, NEW n, NEW a, NEW st, st \in Stages(K, V, t, n, a)
  PROVE  /\ st.flags \in [0 .. t.n_buckets - 1 -> Flag]
         /\ st.new \in [0 .. n - 1 -> {"empty", "live"}]
         /\ st.keys \in [0 .. a - 1 -> K \cup {Null}]
         /\ st.vals \in [0 .. a - 1 -> V \cup {Null}]
         /\ st.j \in 0 .. t.n_buckets
         /\ st.key \in K \cup {Null} /\ st.val \in V \cup {Null}
         /\ LiveIn(st.flags) = {i \in 0 .. t.n_buckets - 1 : st.flags[i] = "live"}
         /\ LiveIn(st.new) = {i \in 0 .. n - 1 : st.new[i] = "live"}
         /\ st = [flags |-> st.flags, new |-> st.new, keys |-> st.keys, vals |-> st.vals,
                  j |-> st.j, key |-> st.key, val |-> st.val, done |-> st.done]
BY DEF Stages, LiveIn

LEMMA StageOf ==
  ASSUME NEW K, NEW V, NEW t, NEW n, NEW a, NEW u,
         u = [flags |-> u.flags, new |-> u.new, keys |-> u.keys, vals |-> u.vals,
              j |-> u.j, key |-> u.key, val |-> u.val, done |-> u.done],
         u.flags \in [0 .. t.n_buckets - 1 -> Flag],
         u.new \in [0 .. n - 1 -> {"empty", "live"}],
         u.keys \in [0 .. a - 1 -> K \cup {Null}],
         u.vals \in [0 .. a - 1 -> V \cup {Null}],
         u.j \in 0 .. t.n_buckets, u.key \in K \cup {Null}, u.val \in V \cup {Null},
         u.done \in BOOLEAN
  PROVE  u \in Stages(K, V, t, n, a)
<1> DEFINE f == u.flags
           nw == u.new
           ks == u.keys
           vs == u.vals
           j == u.j
           k == u.key
           v == u.val
           d == u.done
<1>1. [flags |-> f, new |-> nw, keys |-> ks, vals |-> vs, j |-> j, key |-> k,
       val |-> v, done |-> d] \in Stages(K, V, t, n, a)
  <2>1. /\ f \in [0 .. t.n_buckets - 1 -> Flag] /\ nw \in [0 .. n - 1 -> {"empty", "live"}]
        /\ ks \in [0 .. a - 1 -> K \cup {Null}] /\ vs \in [0 .. a - 1 -> V \cup {Null}]
        /\ j \in 0 .. t.n_buckets /\ k \in K \cup {Null} /\ v \in V \cup {Null}
        /\ d \in BOOLEAN
    OBVIOUS
  <2>. HIDE DEF f, nw, ks, vs, j, k, v, d
  <2>. QED
    BY <2>1, Zenon DEF Stages
<1>. QED
  BY <1>1

(* There are as many places as there were live buckets.                    *)
LEMMA PlacesCount ==
  ASSUME NEW t, IsFiniteSet(Live(t)), NEW st, NEW g, Carried(t, st, g)
  PROVE  IsFiniteSet(Places(st)) /\ Cardinality(Places(st)) = Cardinality(Live(t))
<1>1. g \in Bijection(Live(t), Places(st))
  BY Fun_IsBij DEF Carried
<1>2. ExistsBijection(Live(t), Places(st))
  BY <1>1, Fun_ExistsBij
<1>. QED
  BY <1>2, FS_Bijection

LEMMA SlotIsFree ==
  ASSUME NEW n \in Sizes, NEW new \in [0 .. n - 1 -> {"empty", "live"}],
         NEW z \in 0 .. n - 1, new[z] = "empty",
         NEW H, NEW key, H.hash[key] \in Int
  PROVE  LET i == Slot(H, new, key)
         IN  /\ i \in 0 .. n - 1 /\ new[i] = "empty"
             /\ \E s \in 0 .. n - 1 :
                  /\ Probe(n, H.hash[key], s) = i
                  /\ \A r \in 0 .. s - 1 : new[Probe(n, H.hash[key], r)] = "live"
<1> DEFINE h == H.hash[key]
           at(s) == Probe(n, h, s)
           Free(s) == new[at(s)] = "empty"
           e == CHOOSE s \in 0 .. 2 * n - 1 : Free(s) /\ \A r \in 0 .. s - 1 : ~Free(r)
           T == {s \in 0 .. 2 * n - 1 : Free(s)}
<1>1. n \in Nat /\ n > 0 /\ Cardinality(DOMAIN new) = n
  <2>1. n \in Nat /\ n > 0
    BY SizesDouble
  <2>2. DOMAIN new = 0 .. n - 1
    OBVIOUS
  <2>. QED
    BY <2>1, <2>2, FS_Interval
<1>2. PICK y \in 0 .. n - 1 : at(y) = z
  BY ProbeReachesAll
<1>3. y \in T
  BY <1>1, <1>2
<1>4. T \in SUBSET Nat
  BY <1>1
<1>5. PICK m \in T : \A s \in T : m <= s
  <2>. HIDE DEF T
  <2>. QED
    BY <1>3, <1>4, LeastNatural
<1>6. \A r \in 0 .. m - 1 : ~Free(r)
  <2>1. \A r \in 0 .. m - 1 : r \in 0 .. 2 * n - 1 /\ ~(m <= r)
    BY <1>1, <1>5
  <2>. HIDE DEF Free
  <2>. QED
    BY <1>5, <2>1
<1>7. e \in 0 .. 2 * n - 1 /\ Free(e) /\ \A r \in 0 .. e - 1 : ~Free(r)
  <2>1. m \in 0 .. 2 * n - 1 /\ Free(m)
    BY <1>5
  <2>. HIDE DEF Free
  <2>. QED
    BY <1>6, <2>1
<1>8. Slot(H, new, key) = at(e)
  BY <1>1 DEF Slot, First
<1>9. e <= y
  <2>1. Free(y)
    BY <1>2
  <2>. HIDE DEF Free, e
  <2>. QED
    BY <1>1, <1>7, <2>1
<1>. HIDE DEF e
<1>10. e \in 0 .. n - 1
  BY <1>1, <1>7, <1>9
<1>11. \A r \in 0 .. e : at(r) \in 0 .. n - 1
  <2>1. \A r \in 0 .. e : r \in Nat
    BY <1>10
  <2>2. h \in Int
    OBVIOUS
  <2>. HIDE DEF h
  <2>. QED
    BY <2>1, <2>2, ProbeInTable
<1>12. at(e) \in 0 .. n - 1 /\ new[at(e)] = "empty"
  BY <1>7, <1>10, <1>11
<1>13. \A r \in 0 .. e - 1 : new[at(r)] = "live"
  <2>1. \A r \in 0 .. e - 1 : r \in 0 .. e /\ at(r) \in 0 .. n - 1
    BY <1>10, <1>11
  <2>2. \A r \in 0 .. e - 1 : new[at(r)] # "empty"
    BY <1>7
  <2>. HIDE DEF at
  <2>. QED
    BY <2>1, <2>2
<1>. QED
  BY <1>8, <1>10, <1>12, <1>13

(* What a place holds is a key of the table.                               *)
LEMMA MovingParts ==
  ASSUME NEW H, NEW K, NEW V, NEW t, NEW n, NEW a, Rehashing(H, K, V, t, n, a),
         NEW st, Moving(H, K, V, t, n, a, st)
  PROVE  /\ \A p \in Places(st) : KeyIn(st, p) \in K
         /\ \A i \in LiveIn(st.new) : st.keys[i] \in K /\ H.hash[st.keys[i]] \in Int
         /\ ~st.done => st.key \in K /\ H.hash[st.key] \in Int
         /\ IsFiniteSet(LiveIn(st.new))
         /\ Cardinality(LiveIn(st.new)) <= t.size
         /\ ~st.done => Cardinality(LiveIn(st.new)) < t.size
<1>1. PICK g : Carried(t, st, g)
  BY DEF Moving
<1>2. \A p \in Places(st) : KeyIn(st, p) \in K
  <2>1. \A b \in Live(t) : t.keys[b] \in K
    BY RehashingParts
  <2>. QED
    BY <1>1, <2>1 DEF Carried
<1>3. st \in Stages(K, V, t, n, a)
  BY DEF Moving
<1>4. n \in Nat /\ t.size \in Nat /\ t.size < n /\ t.n_buckets \in Nat
  BY RehashingParts
<1>5. LiveIn(st.new) = {i \in 0 .. n - 1 : st.new[i] = "live"}
  BY <1>3, StageParts
<1>6. \A k \in K : H.hash[k] \in Int
  BY DEF Rehashing, Hashing
<1>7. \A i \in LiveIn(st.new) : st.keys[i] \in K /\ H.hash[st.keys[i]] \in Int
  <2>1. \A i \in LiveIn(st.new) : i \in Places(st) /\ i # -1
    BY <1>4, <1>5 DEF Places
  <2>. QED
    BY <1>2, <1>6, <2>1 DEF KeyIn
<1>8. ~st.done => st.key \in K /\ H.hash[st.key] \in Int
  <2>1. ~st.done => -1 \in Places(st)
    BY DEF Places
  <2>. QED
    BY <1>2, <1>6, <2>1 DEF KeyIn
<1>9. IsFiniteSet(Places(st)) /\ Cardinality(Places(st)) = t.size
  BY <1>1, RehashingParts, PlacesCount
<1>10. /\ IsFiniteSet(LiveIn(st.new)) /\ Cardinality(LiveIn(st.new)) <= t.size
       /\ Cardinality(LiveIn(st.new)) \in Nat
  <2>1. LiveIn(st.new) \in SUBSET Places(st)
    BY DEF Places
  <2>. QED
    BY <1>9, <2>1, FS_Subset, FS_CardinalityType
<1>11. ~st.done => Cardinality(LiveIn(st.new)) < t.size
  <2>1. SUFFICES ASSUME ~st.done
                 PROVE  Cardinality(LiveIn(st.new)) < t.size
    OBVIOUS
  <2>2. LiveIn(st.new) \in SUBSET Places(st) /\ -1 \in Places(st)
    BY <2>1 DEF Places
  <2>3. -1 \notin LiveIn(st.new)
    BY <1>4, <1>5
  <2>4. Cardinality(LiveIn(st.new)) # Cardinality(Places(st))
    BY <1>9, <2>2, <2>3, FS_Subset
  <2>. QED
    BY <1>4, <1>9, <1>10, <2>4
<1>. QED
  BY <1>2, <1>7, <1>8, <1>10, <1>11

(* There is a free bucket, and the kick-out process puts its key in one   *)
(* that it reaches.                                                        *)
LEMMA NewHasRoom ==
  ASSUME NEW H, NEW K, NEW V, NEW t, NEW n, NEW a, Rehashing(H, K, V, t, n, a),
         NEW st, Moving(H, K, V, t, n, a, st)
  PROVE  \E z \in 0 .. n - 1 : st.new[z] = "empty"
<1>1. n \in Nat /\ t.size \in Nat /\ t.size < n
  BY RehashingParts
<1>2. st \in Stages(K, V, t, n, a)
  BY DEF Moving
<1>3. /\ st.new \in [0 .. n - 1 -> {"empty", "live"}]
      /\ LiveIn(st.new) = {i \in 0 .. n - 1 : st.new[i] = "live"}
  BY <1>2, StageParts
<1>4. Cardinality(LiveIn(st.new)) <= t.size
  BY MovingParts
<1>. SUFFICES ASSUME \A z \in 0 .. n - 1 : st.new[z] # "empty"
              PROVE  FALSE
  OBVIOUS
<1>5. LiveIn(st.new) = 0 .. n - 1
  BY <1>3
<1>6. Cardinality(LiveIn(st.new)) = n
  BY <1>1, <1>5, FS_Interval
<1>. QED
  BY <1>1, <1>4, <1>6

LEMMA PutIsReached ==
  ASSUME NEW H, NEW K, NEW V, NEW t, NEW n, NEW a, Rehashing(H, K, V, t, n, a),
         NEW st, Moving(H, K, V, t, n, a, st), ~st.done
  PROVE  LET i == Slot(H, st.new, st.key)
         IN  \A u : /\ u.new = [st.new EXCEPT ![i] = "live"]
                    /\ u.keys = [st.keys EXCEPT ![i] = st.key]
                    => /\ i \in 0 .. n - 1 /\ st.new[i] = "empty"
                       /\ LiveIn(u.new) = LiveIn(st.new) \cup {i}
                       /\ i \notin LiveIn(st.new)
                       /\ \A l \in LiveIn(u.new) : NewReached(H, n, u, l)
<1> DEFINE i == Slot(H, st.new, st.key)
<1>. SUFFICES ASSUME NEW u, u.new = [st.new EXCEPT ![i] = "live"],
                     u.keys = [st.keys EXCEPT ![i] = st.key]
              PROVE  /\ i \in 0 .. n - 1 /\ st.new[i] = "empty"
                     /\ LiveIn(u.new) = LiveIn(st.new) \cup {i}
                     /\ i \notin LiveIn(st.new)
                     /\ \A l \in LiveIn(u.new) : NewReached(H, n, u, l)
  OBVIOUS
<1>1. /\ st.new \in [0 .. n - 1 -> {"empty", "live"}]
      /\ st.keys \in [0 .. a - 1 -> K \cup {Null}]
      /\ LiveIn(st.new) = {l \in 0 .. n - 1 : st.new[l] = "live"}
  BY StageParts DEF Moving
<1>2. n \in Nat /\ n <= a /\ a \in Nat
  BY RehashingParts
<1>3. n \in Sizes
  BY DEF Rehashing
<1>4. H.hash[st.key] \in Int /\ \A l \in LiveIn(st.new) : H.hash[st.keys[l]] \in Int
  BY MovingParts
<1>5. PICK z \in 0 .. n - 1 : st.new[z] = "empty"
  BY NewHasRoom
<1>6. i \in 0 .. n - 1 /\ st.new[i] = "empty"
  BY <1>1, <1>3, <1>4, <1>5, SlotIsFree
<1>7. PICK s \in 0 .. n - 1 :
        /\ Probe(n, H.hash[st.key], s) = i
        /\ \A r \in 0 .. s - 1 : st.new[Probe(n, H.hash[st.key], r)] = "live"
  BY <1>1, <1>3, <1>4, <1>5, SlotIsFree
<1>. HIDE DEF i
<1>8. LiveIn(u.new) = LiveIn(st.new) \cup {i} /\ i \notin LiveIn(st.new)
  <2>1. /\ DOMAIN u.new = 0 .. n - 1
        /\ \A l \in 0 .. n - 1 : u.new[l] = IF l = i THEN "live" ELSE st.new[l]
    BY <1>1
  <2>2. LiveIn(u.new) = {l \in 0 .. n - 1 : u.new[l] = "live"}
    BY <2>1 DEF LiveIn
  <2>. QED
    BY <1>1, <1>6, <2>1, <2>2
<1>9. u.keys[i] = st.key /\ \A l \in LiveIn(st.new) : u.keys[l] = st.keys[l]
  BY <1>1, <1>2, <1>6
<1>10. \A l \in 0 .. n - 1 : st.new[l] = "live" => u.new[l] = "live"
  BY <1>1
<1>11. ASSUME NEW h \in Int, NEW c \in 0 .. n - 1, NEW r \in 0 .. c - 1
       PROVE  Probe(n, h, r) \in 0 .. n - 1
  <2>1. r \in Nat
    BY <1>2
  <2>. QED
    BY <1>3, <2>1, ProbeInTable
<1>12. NewReached(H, n, u, i)
  <2>1. \A r \in 0 .. s - 1 : u.new[Probe(n, H.hash[st.key], r)] = "live"
    BY <1>4, <1>7, <1>10, <1>11
  <2>. QED
    BY <1>7, <1>9, <2>1 DEF NewReached
<1>13. ASSUME NEW l \in LiveIn(st.new)
       PROVE  NewReached(H, n, u, l)
  <2>1. NewReached(H, n, st, l)
    BY DEF Moving
  <2>2. PICK c \in 0 .. n - 1 :
          /\ Probe(n, H.hash[st.keys[l]], c) = l
          /\ \A r \in 0 .. c - 1 : st.new[Probe(n, H.hash[st.keys[l]], r)] = "live"
    BY <2>1 DEF NewReached
  <2>3. \A r \in 0 .. c - 1 : u.new[Probe(n, H.hash[st.keys[l]], r)] = "live"
    BY <1>4, <1>10, <1>11, <2>2
  <2>. QED
    BY <1>9, <2>2, <2>3 DEF NewReached
<1>. QED
  BY <1>6, <1>8, <1>12, <1>13

(* The kick-out process puts what it has in its hand and takes what lived  *)
(* where it puts it, or is done.                                           *)
LEMMA KickOutKeeps ==
  ASSUME NEW H, NEW K, NEW V, NEW t, NEW n, NEW a, Rehashing(H, K, V, t, n, a),
         NEW st, Moving(H, K, V, t, n, a, st), ~st.done
  PROVE  LET u == KickOut(H, st)
         IN  /\ Moving(H, K, V, t, n, a, u)
             /\ u.j = st.j
             /\ Cardinality(LiveIn(u.new)) = Cardinality(LiveIn(st.new)) + 1
<1> DEFINE i == Slot(H, st.new, st.key)
           u == KickOut(H, st)
           f2 == [st.flags EXCEPT ![i] = "deleted"]
           n2 == [st.new EXCEPT ![i] = "live"]
           k2 == [st.keys EXCEPT ![i] = st.key]
           v2 == [st.vals EXCEPT ![i] = st.val]
           kicked == i \in DOMAIN st.flags /\ st.flags[i] = "live"
<1>1. st \in Stages(K, V, t, n, a)
  BY DEF Moving
<1>2. /\ st.flags \in [0 .. t.n_buckets - 1 -> Flag]
      /\ st.new \in [0 .. n - 1 -> {"empty", "live"}]
      /\ st.keys \in [0 .. a - 1 -> K \cup {Null}]
      /\ st.vals \in [0 .. a - 1 -> V \cup {Null}]
      /\ st.j \in 0 .. t.n_buckets
      /\ st.key \in K \cup {Null} /\ st.val \in V \cup {Null}
      /\ LiveIn(st.flags) = {l \in 0 .. t.n_buckets - 1 : st.flags[l] = "live"}
      /\ LiveIn(st.new) = {l \in 0 .. n - 1 : st.new[l] = "live"}
      /\ st = [flags |-> st.flags, new |-> st.new, keys |-> st.keys, vals |-> st.vals,
               j |-> st.j, key |-> st.key, val |-> st.val, done |-> st.done]
  BY <1>1, StageParts
<1>3. /\ n \in Nat /\ n <= a /\ a \in Nat /\ t.n_buckets \in Nat /\ t.n_buckets <= a
      /\ IsFiniteSet(LiveIn(st.new))
  BY RehashingParts, MovingParts
<1>4. /\ u = [flags |-> u.flags, new |-> u.new, keys |-> u.keys, vals |-> u.vals,
              j |-> u.j, key |-> u.key, val |-> u.val, done |-> u.done]
      /\ u.new = n2 /\ u.keys = k2 /\ u.vals = v2 /\ u.j = st.j
      /\ kicked => /\ u.flags = f2 /\ u.key = st.keys[i] /\ u.val = st.vals[i]
                   /\ u.done = st.done
      /\ ~kicked => u.flags = st.flags /\ u.key = st.key /\ u.val = st.val /\ u.done = TRUE
  <2> DEFINE put == [st EXCEPT !.new[i] = "live", !.keys[i] = st.key, !.vals[i] = st.val]
  <2>1. CASE kicked
    <3>1. u = [put EXCEPT !.flags[i] = "deleted", !.key = st.keys[i], !.val = st.vals[i]]
      BY <2>1 DEF KickOut
    <3>. HIDE DEF i, u
    <3>. QED
      BY <1>1, <2>1, <3>1 DEF Stages
  <2>2. CASE ~kicked
    <3>1. u = [put EXCEPT !.done = TRUE]
      BY <2>2 DEF KickOut
    <3>. HIDE DEF i, u
    <3>. QED
      BY <1>1, <2>2, <3>1 DEF Stages
  <2>. QED
    BY <2>1, <2>2
<1>5. u.new = n2 /\ u.keys = k2 /\ u.vals = v2 /\ u.j = st.j
  BY <1>4
<1>. HIDE DEF u
<1>6. /\ i \in 0 .. n - 1 /\ st.new[i] = "empty"
      /\ LiveIn(u.new) = LiveIn(st.new) \cup {i} /\ i \notin LiveIn(st.new)
      /\ \A l \in LiveIn(u.new) : NewReached(H, n, u, l)
  <2>1. \A w : /\ w.new = [st.new EXCEPT ![i] = "live"]
               /\ w.keys = [st.keys EXCEPT ![i] = st.key]
               => /\ i \in 0 .. n - 1 /\ st.new[i] = "empty"
                  /\ LiveIn(w.new) = LiveIn(st.new) \cup {i}
                  /\ i \notin LiveIn(st.new)
                  /\ \A l \in LiveIn(w.new) : NewReached(H, n, w, l)
    BY PutIsReached
  <2>. QED
    BY <1>5, <2>1
<1>. HIDE DEF i
<1>7. Cardinality(LiveIn(u.new)) = Cardinality(LiveIn(st.new)) + 1
  BY <1>3, <1>6, FS_AddElement
<1>8. /\ n2 \in [0 .. n - 1 -> {"empty", "live"}]
      /\ k2 \in [0 .. a - 1 -> K \cup {Null}] /\ v2 \in [0 .. a - 1 -> V \cup {Null}]
      /\ f2 \in [0 .. t.n_buckets - 1 -> Flag]
  <2>1. "deleted" \in Flag
    BY DEF Flag
  <2>. QED
    BY <1>2, <2>1
<1>9. PICK g : Carried(t, st, g)
  BY DEF Moving
<1>10. \A l \in LiveIn(st.new) : l \notin LiveIn(st.flags)
  BY DEF Moving
<1>11. \A l \in 0 .. st.j - 1 : st.flags[l] # "live"
  BY DEF Moving
<1>12. CASE kicked
  <2>1. u.flags = f2 /\ u.key = st.keys[i] /\ u.val = st.vals[i]
    BY <1>4, <1>12
  <2>10. ~u.done
    BY <1>4, <1>12
  <2>2. u \in Stages(K, V, t, n, a)
    <3>1. i \in 0 .. a - 1
      BY <1>3, <1>6
    <3>2. st.keys[i] \in K \cup {Null} /\ st.vals[i] \in V \cup {Null}
      BY <1>2, <3>1
    <3>3. u.done \in BOOLEAN
      <4>1. u.done = st.done
        BY <1>4, <1>12
      <4>2. st.done \in BOOLEAN
        BY <1>1 DEF Stages
      <4>. QED
        BY <4>1, <4>2, Zenon
    <3>. HIDE DEF f2, n2, k2, v2
    <3>4. /\ u.flags \in [0 .. t.n_buckets - 1 -> Flag]
          /\ u.new \in [0 .. n - 1 -> {"empty", "live"}]
          /\ u.keys \in [0 .. a - 1 -> K \cup {Null}]
          /\ u.vals \in [0 .. a - 1 -> V \cup {Null}]
          /\ u.j \in 0 .. t.n_buckets /\ u.key \in K \cup {Null} /\ u.val \in V \cup {Null}
      BY <1>2, <1>5, <1>8, <2>1, <3>2
    <3>. QED
      BY <1>4, <3>3, <3>4, StageOf, Zenon
  <2>3. LiveIn(u.flags) = LiveIn(st.flags) \ {i} /\ i \in LiveIn(st.flags)
    BY <1>2, <1>12, <2>1 DEF LiveIn
  <2>4. \A l \in LiveIn(u.new) : l \notin LiveIn(u.flags)
    BY <1>6, <1>10, <2>3
  <2>5. \A l \in 0 .. u.j - 1 : u.flags[l] # "live"
    BY <1>2, <1>5, <1>11, <2>1
  <2>6. Places(u) = Places(st) /\ i \in Places(st) /\ -1 \in Places(st)
    <3>. QED
      BY <1>6, <2>10, <2>3 DEF Places
  <2>7. i # -1
    BY <1>3, <1>6
  <2> DEFINE g2 == [b \in Live(t) |-> IF g[b] = -1 THEN i ELSE IF g[b] = i THEN -1 ELSE g[b]]
  <2>8. Carried(t, u, g2)
    <3>1. /\ g \in [Live(t) -> Places(st)]
          /\ \A b, c \in Live(t) : g[b] = g[c] => b = c
          /\ \A p \in Places(st) : \E b \in Live(t) : g[b] = p
      BY <1>9 DEF Carried
    <3>2. g2 \in [Live(t) -> Places(u)]
      BY <2>6, <3>1
    <3>3. \A b, c \in Live(t) : g2[b] = g2[c] => b = c
      BY <2>7, <3>1
    <3>4. \A p \in Places(u) : \E b \in Live(t) : g2[b] = p
      <4>1. SUFFICES ASSUME NEW p \in Places(st)
                     PROVE  \E b \in Live(t) : g2[b] = p
        BY <2>6
      <4> DEFINE q == IF p = -1 THEN i ELSE IF p = i THEN -1 ELSE p
      <4>2. q \in Places(st)
        BY <2>6
      <4>3. PICK b \in Live(t) : g[b] = q
        BY <3>1, <4>2
      <4>4. g2[b] = p
        BY <2>7, <4>3
      <4>. QED
        BY <4>4
    <3>5. ASSUME NEW b \in Live(t)
          PROVE  KeyIn(u, g2[b]) = t.keys[b] /\ ValIn(u, g2[b]) = t.vals[b]
      <4>1. KeyIn(st, g[b]) = t.keys[b] /\ ValIn(st, g[b]) = t.vals[b] /\ g[b] \in Places(st)
        BY <1>9, <3>1 DEF Carried
      <4>2. i \in DOMAIN st.keys /\ i \in DOMAIN st.vals
        BY <1>2, <1>3, <1>6
      <4>3. CASE g[b] = -1
        <5>1. g2[b] = i /\ u.keys[i] = st.key /\ u.vals[i] = st.val
          BY <1>5, <4>2, <4>3
        <5>. QED
          BY <2>7, <4>1, <4>3, <5>1 DEF KeyIn, ValIn
      <4>4. CASE g[b] = i
        <5>1. g2[b] = -1 /\ u.key = st.keys[i] /\ u.val = st.vals[i]
          BY <2>1, <2>7, <4>4
        <5>. QED
          BY <2>7, <4>1, <4>4, <5>1 DEF KeyIn, ValIn
      <4>5. CASE g[b] # -1 /\ g[b] # i
        <5>1. g2[b] = g[b]
          BY <4>5
        <5>2. g[b] \in 0 .. a - 1
          BY <1>2, <1>3, <4>1, <4>5 DEF Places
        <5>3. u.keys[g[b]] = st.keys[g[b]] /\ u.vals[g[b]] = st.vals[g[b]]
          BY <1>2, <1>5, <4>5, <5>2
        <5>. QED
          BY <4>1, <4>5, <5>1, <5>3 DEF KeyIn, ValIn
      <4>. QED
        BY <4>3, <4>4, <4>5
    <3>. HIDE DEF g2
    <3>. QED
      BY <3>2, <3>3, <3>4, <3>5 DEF Carried
  <2>9. Moving(H, K, V, t, n, a, u)
    BY <1>6, <2>2, <2>4, <2>5, <2>8 DEF Moving
  <2>. QED
    BY <1>5, <1>7, <2>9 DEF u
<1>13. CASE ~kicked
  <2>1. u.flags = st.flags /\ u.key = st.key /\ u.val = st.val /\ u.done = TRUE
    BY <1>4, <1>13
  <2>2. u \in Stages(K, V, t, n, a)
    <3>1. u.done \in BOOLEAN
      BY <2>1, Zenon
    <3>. HIDE DEF n2, k2, v2
    <3>2. /\ u.flags \in [0 .. t.n_buckets - 1 -> Flag]
          /\ u.new \in [0 .. n - 1 -> {"empty", "live"}]
          /\ u.keys \in [0 .. a - 1 -> K \cup {Null}]
          /\ u.vals \in [0 .. a - 1 -> V \cup {Null}]
          /\ u.j \in 0 .. t.n_buckets /\ u.key \in K \cup {Null} /\ u.val \in V \cup {Null}
      BY <1>2, <1>5, <1>8, <2>1
    <3>. QED
      BY <1>4, <3>1, <3>2, StageOf, Zenon
  <2>3. LiveIn(u.flags) = LiveIn(st.flags) /\ i \notin LiveIn(st.flags)
    BY <1>2, <1>13, <2>1 DEF LiveIn
  <2>4. \A l \in LiveIn(u.new) : l \notin LiveIn(u.flags)
    BY <1>6, <1>10, <2>3
  <2>5. \A l \in 0 .. u.j - 1 : u.flags[l] # "live"
    BY <1>5, <1>11, <2>1
  <2>6. i # -1
    BY <1>3, <1>6
  <2>7. /\ Places(u) = (Places(st) \ {-1}) \cup {i} /\ i \notin Places(st) /\ -1 \in Places(st)
        /\ -1 \notin LiveIn(st.flags) /\ -1 \notin LiveIn(st.new)
    <3>1. u.done
      BY <2>1
    <3>2. -1 \notin LiveIn(st.flags) /\ -1 \notin LiveIn(st.new)
      BY <1>2, <1>3
    <3>. QED
      BY <1>6, <2>3, <2>6, <3>1, <3>2 DEF Places
  <2> DEFINE g2 == [b \in Live(t) |-> IF g[b] = -1 THEN i ELSE g[b]]
  <2>8. Carried(t, u, g2)
    <3>1. /\ g \in [Live(t) -> Places(st)]
          /\ \A b, c \in Live(t) : g[b] = g[c] => b = c
          /\ \A p \in Places(st) : \E b \in Live(t) : g[b] = p
      BY <1>9 DEF Carried
    <3>2. g2 \in [Live(t) -> Places(u)]
      BY <2>7, <3>1
    <3>3. \A b, c \in Live(t) : g2[b] = g2[c] => b = c
      BY <2>7, <3>1
    <3>4. \A p \in Places(u) : \E b \in Live(t) : g2[b] = p
      <4>1. SUFFICES ASSUME NEW p \in Places(u)
                     PROVE  \E b \in Live(t) : g2[b] = p
        OBVIOUS
      <4> DEFINE q == IF p = i THEN -1 ELSE p
      <4>2. q \in Places(st) /\ (p # i => p # -1)
        BY <2>6, <2>7
      <4>3. PICK b \in Live(t) : g[b] = q
        BY <3>1, <4>2
      <4>4. g2[b] = p
        BY <4>2, <4>3
      <4>. QED
        BY <4>4
    <3>5. ASSUME NEW b \in Live(t)
          PROVE  KeyIn(u, g2[b]) = t.keys[b] /\ ValIn(u, g2[b]) = t.vals[b]
      <4>1. KeyIn(st, g[b]) = t.keys[b] /\ ValIn(st, g[b]) = t.vals[b] /\ g[b] \in Places(st)
        BY <1>9, <3>1 DEF Carried
      <4>2. i \in DOMAIN st.keys /\ i \in DOMAIN st.vals
        BY <1>2, <1>3, <1>6
      <4>3. CASE g[b] = -1
        <5>1. g2[b] = i /\ u.keys[i] = st.key /\ u.vals[i] = st.val
          BY <1>5, <4>2, <4>3
        <5>. QED
          BY <2>6, <4>1, <4>3, <5>1 DEF KeyIn, ValIn
      <4>4. CASE g[b] # -1
        <5>1. g2[b] = g[b] /\ g[b] # i
          BY <2>7, <4>1, <4>4
        <5>2. g[b] \in 0 .. a - 1
          BY <1>2, <1>3, <4>1, <4>4 DEF Places
        <5>3. u.keys[g[b]] = st.keys[g[b]] /\ u.vals[g[b]] = st.vals[g[b]]
          BY <1>2, <1>5, <5>1, <5>2
        <5>. QED
          BY <4>1, <4>4, <5>1, <5>3 DEF KeyIn, ValIn
      <4>. QED
        BY <4>3, <4>4
    <3>. HIDE DEF g2
    <3>. QED
      BY <3>2, <3>3, <3>4, <3>5 DEF Carried
  <2>9. Moving(H, K, V, t, n, a, u)
    BY <1>6, <2>2, <2>4, <2>5, <2>8 DEF Moving
  <2>. QED
    BY <1>5, <1>7, <2>9 DEF u
<1>. QED
  BY <1>12, <1>13

(* The next bucket's content goes into the hand of the kick-out process.   *)
LEMMA TakeKeeps ==
  ASSUME NEW H, NEW K, NEW V, NEW t, NEW n, NEW a, Rehashing(H, K, V, t, n, a),
         NEW st, Moving(H, K, V, t, n, a, st), st.done,
         st.j # t.n_buckets, st.flags[st.j] = "live"
  PROVE  LET u == Rehash(H, st)
         IN  Moving(H, K, V, t, n, a, u) /\ u.j = st.j + 1 /\ u.new = st.new
<1> DEFINE i == st.j
           u == Rehash(H, st)
           f2 == [st.flags EXCEPT ![i] = "deleted"]
<1>1. st \in Stages(K, V, t, n, a)
  BY DEF Moving
<1>2. /\ st.flags \in [0 .. t.n_buckets - 1 -> Flag]
      /\ st.new \in [0 .. n - 1 -> {"empty", "live"}]
      /\ st.keys \in [0 .. a - 1 -> K \cup {Null}]
      /\ st.vals \in [0 .. a - 1 -> V \cup {Null}]
      /\ st.j \in 0 .. t.n_buckets
      /\ LiveIn(st.flags) = {l \in 0 .. t.n_buckets - 1 : st.flags[l] = "live"}
      /\ LiveIn(st.new) = {l \in 0 .. n - 1 : st.new[l] = "live"}
  BY <1>1, StageParts
<1>3. n \in Nat /\ n <= a /\ a \in Nat /\ t.n_buckets \in Nat /\ t.n_buckets <= a
  BY RehashingParts
<1>4. i \in 0 .. t.n_buckets - 1 /\ i \in 0 .. a - 1 /\ i \in DOMAIN st.flags
  BY <1>2, <1>3
<1>5. /\ u = [flags |-> u.flags, new |-> u.new, keys |-> u.keys, vals |-> u.vals,
              j |-> u.j, key |-> u.key, val |-> u.val, done |-> u.done]
      /\ u.flags = f2 /\ u.new = st.new /\ u.keys = st.keys /\ u.vals = st.vals
      /\ u.j = i + 1 /\ u.key = st.keys[i] /\ u.val = st.vals[i] /\ u.done = FALSE
  <2>1. u = [st EXCEPT !.flags[i] = "deleted", !.key = st.keys[i],
                       !.val = st.vals[i], !.done = FALSE, !.j = @ + 1]
    BY <1>4 DEF Rehash
  <2>. HIDE DEF u
  <2>. QED
    BY <1>1, <2>1 DEF Stages
<1>. HIDE DEF u
<1>6. u \in Stages(K, V, t, n, a)
  <2>1. u.done \in BOOLEAN
    BY <1>5, Zenon
  <2>2. "deleted" \in Flag
    BY DEF Flag
  <2>3. /\ u.flags \in [0 .. t.n_buckets - 1 -> Flag]
        /\ u.new \in [0 .. n - 1 -> {"empty", "live"}]
        /\ u.keys \in [0 .. a - 1 -> K \cup {Null}]
        /\ u.vals \in [0 .. a - 1 -> V \cup {Null}]
        /\ u.j \in 0 .. t.n_buckets /\ u.key \in K \cup {Null} /\ u.val \in V \cup {Null}
    BY <1>2, <1>3, <1>4, <1>5, <2>2
  <2>. QED
    BY <1>5, <2>1, <2>3, StageOf, Zenon
<1>7. LiveIn(u.flags) = LiveIn(st.flags) \ {i} /\ i \in LiveIn(st.flags)
  BY <1>2, <1>4, <1>5 DEF LiveIn
<1>8. \A l \in LiveIn(st.new) : l \notin LiveIn(st.flags)
  BY DEF Moving
<1>9. \A l \in LiveIn(u.new) : l \notin LiveIn(u.flags)
  BY <1>5, <1>7, <1>8
<1>10. \A l \in 0 .. u.j - 1 : u.flags[l] # "live"
  <2>1. \A l \in 0 .. st.j - 1 : st.flags[l] # "live"
    BY DEF Moving
  <2>. QED
    BY <1>2, <1>4, <1>5, <2>1
<1>11. i # -1
  BY <1>3, <1>4
<1>12. /\ Places(u) = (Places(st) \ {i}) \cup {-1} /\ i \in Places(st) /\ -1 \notin Places(st)
  <2>1. -1 \notin LiveIn(st.flags) /\ -1 \notin LiveIn(st.new)
    BY <1>2, <1>3
  <2>2. ~u.done
    BY <1>5
  <2>. QED
    BY <1>5, <1>7, <1>8, <1>11, <2>1, <2>2 DEF Places
<1>13. PICK g : Carried(t, st, g)
  BY DEF Moving
<1> DEFINE g2 == [b \in Live(t) |-> IF g[b] = i THEN -1 ELSE g[b]]
<1>14. Carried(t, u, g2)
  <2>1. /\ g \in [Live(t) -> Places(st)]
        /\ \A b, c \in Live(t) : g[b] = g[c] => b = c
        /\ \A p \in Places(st) : \E b \in Live(t) : g[b] = p
    BY <1>13 DEF Carried
  <2>2. g2 \in [Live(t) -> Places(u)]
    BY <1>12, <2>1
  <2>3. \A b, c \in Live(t) : g2[b] = g2[c] => b = c
    BY <1>12, <2>1
  <2>4. \A p \in Places(u) : \E b \in Live(t) : g2[b] = p
    <3>1. SUFFICES ASSUME NEW p \in Places(u)
                   PROVE  \E b \in Live(t) : g2[b] = p
      OBVIOUS
    <3> DEFINE q == IF p = -1 THEN i ELSE p
    <3>2. q \in Places(st) /\ (p # -1 => p # i)
      BY <1>11, <1>12
    <3>3. PICK b \in Live(t) : g[b] = q
      BY <2>1, <3>2
    <3>4. g2[b] = p
      BY <3>2, <3>3
    <3>. QED
      BY <3>4
  <2>5. ASSUME NEW b \in Live(t)
        PROVE  KeyIn(u, g2[b]) = t.keys[b] /\ ValIn(u, g2[b]) = t.vals[b]
    <3>1. KeyIn(st, g[b]) = t.keys[b] /\ ValIn(st, g[b]) = t.vals[b] /\ g[b] \in Places(st)
      BY <1>13, <2>1 DEF Carried
    <3>2. g[b] # -1
      BY <1>12, <3>1
    <3>3. CASE g[b] = i
      <4>1. g2[b] = -1
        BY <3>3
      <4>. QED
        BY <1>5, <1>11, <3>1, <3>3, <4>1 DEF KeyIn, ValIn
    <3>4. CASE g[b] # i
      <4>1. g2[b] = g[b]
        BY <3>4
      <4>. QED
        BY <1>5, <3>1, <3>2, <4>1 DEF KeyIn, ValIn
    <3>. QED
      BY <3>3, <3>4
  <2>. HIDE DEF g2
  <2>. QED
    BY <2>2, <2>3, <2>4, <2>5 DEF Carried
<1>15. \A l \in LiveIn(u.new) : NewReached(H, n, u, l)
  <2>1. \A l \in LiveIn(st.new) : NewReached(H, n, st, l)
    BY DEF Moving
  <2>. QED
    BY <1>5, <2>1 DEF NewReached
<1>16. Moving(H, K, V, t, n, a, u)
  BY <1>6, <1>9, <1>10, <1>14, <1>15 DEF Moving
<1>. QED
  BY <1>5, <1>16 DEF u

(* A bucket that is not live is passed.                                    *)
LEMMA PassKeeps ==
  ASSUME NEW H, NEW K, NEW V, NEW t, NEW n, NEW a, Rehashing(H, K, V, t, n, a),
         NEW st, Moving(H, K, V, t, n, a, st), st.done,
         st.j # t.n_buckets, st.flags[st.j] # "live"
  PROVE  LET u == Rehash(H, st)
         IN  Moving(H, K, V, t, n, a, u) /\ u.j = st.j + 1 /\ u.new = st.new
<1> DEFINE u == Rehash(H, st)
<1>1. st \in Stages(K, V, t, n, a)
  BY DEF Moving
<1>2. /\ st.flags \in [0 .. t.n_buckets - 1 -> Flag]
      /\ st.new \in [0 .. n - 1 -> {"empty", "live"}]
      /\ st.keys \in [0 .. a - 1 -> K \cup {Null}]
      /\ st.vals \in [0 .. a - 1 -> V \cup {Null}]
      /\ st.j \in 0 .. t.n_buckets
      /\ st.key \in K \cup {Null} /\ st.val \in V \cup {Null}
  BY <1>1, StageParts
<1>3. t.n_buckets \in Nat
  BY RehashingParts
<1>4. /\ u = [flags |-> u.flags, new |-> u.new, keys |-> u.keys, vals |-> u.vals,
              j |-> u.j, key |-> u.key, val |-> u.val, done |-> u.done]
      /\ u.flags = st.flags /\ u.new = st.new /\ u.keys = st.keys /\ u.vals = st.vals
      /\ u.j = st.j + 1 /\ u.key = st.key /\ u.val = st.val /\ u.done = st.done
  <2>1. st.j \in DOMAIN st.flags
    BY <1>2, <1>3
  <2>2. u = [st EXCEPT !.j = @ + 1]
    BY <2>1 DEF Rehash
  <2>. HIDE DEF u
  <2>. QED
    BY <1>1, <2>2 DEF Stages
<1>. HIDE DEF u
<1>5. u \in Stages(K, V, t, n, a)
  <2>1. u.done \in BOOLEAN
    <3>1. st.done \in BOOLEAN
      BY <1>1 DEF Stages
    <3>. QED
      BY <1>4, <3>1, Zenon
  <2>2. u.j \in 0 .. t.n_buckets
    BY <1>2, <1>3, <1>4
  <2>3. /\ u.flags \in [0 .. t.n_buckets - 1 -> Flag]
        /\ u.new \in [0 .. n - 1 -> {"empty", "live"}]
        /\ u.keys \in [0 .. a - 1 -> K \cup {Null}]
        /\ u.vals \in [0 .. a - 1 -> V \cup {Null}]
        /\ u.key \in K \cup {Null} /\ u.val \in V \cup {Null}
    BY <1>2, <1>4
  <2>. QED
    BY <1>4, <2>1, <2>2, <2>3, StageOf, Zenon
<1>6. \A l \in LiveIn(u.new) : l \notin LiveIn(u.flags)
  BY <1>4 DEF Moving
<1>7. \A l \in 0 .. u.j - 1 : u.flags[l] # "live"
  <2>1. \A l \in 0 .. st.j - 1 : st.flags[l] # "live"
    BY DEF Moving
  <2>. QED
    BY <1>2, <1>3, <1>4, <2>1
<1>8. \E g : Carried(t, u, g)
  <2>1. PICK g : Carried(t, st, g)
    BY DEF Moving
  <2>2. Places(u) = Places(st)
    <3>1. u.done <=> st.done
      BY <1>4
    <3>. QED
      BY <1>4, <3>1 DEF Places
  <2>3. \A p : KeyIn(u, p) = KeyIn(st, p) /\ ValIn(u, p) = ValIn(st, p)
    BY <1>4 DEF KeyIn, ValIn
  <2>4. Carried(t, u, g)
    BY <2>1, <2>2, <2>3 DEF Carried
  <2>. QED
    BY <2>4
<1>9. \A l \in LiveIn(u.new) : NewReached(H, n, u, l)
  <2>1. \A l \in LiveIn(st.new) : NewReached(H, n, st, l)
    BY DEF Moving
  <2>. QED
    BY <1>4, <2>1 DEF NewReached
<1>10. Moving(H, K, V, t, n, a, u)
  BY <1>5, <1>6, <1>7, <1>8, <1>9 DEF Moving
<1>. QED
  BY <1>4, <1>10 DEF u

(* One step of the rehashing nears its end: the k-th state has passed      *)
(* buckets and put keys k times in all, or everything is done.             *)
AtStep(H, K, V, t, n, a, st, k) ==
  /\ Moving(H, K, V, t, n, a, st)
  /\ \/ st.done /\ st.j = t.n_buckets
     \/ st.j + Cardinality(LiveIn(st.new)) = k

LEMMA RehashSteps ==
  ASSUME NEW H, NEW K, NEW V, NEW t, NEW n, NEW a, Rehashing(H, K, V, t, n, a),
         NEW k \in Nat, NEW st, AtStep(H, K, V, t, n, a, st, k)
  PROVE  AtStep(H, K, V, t, n, a, Rehash(H, st), k + 1)
<1> DEFINE u == Rehash(H, st)
<1>1. Moving(H, K, V, t, n, a, st)
  BY DEF AtStep
<1>2. st \in Stages(K, V, t, n, a) /\ st.j \in 0 .. t.n_buckets /\ t.n_buckets \in Nat
  <2>1. st \in Stages(K, V, t, n, a)
    BY <1>1 DEF Moving
  <2>. QED
    BY <2>1, StageParts, RehashingParts
<1>3. Cardinality(LiveIn(st.new)) \in Nat
  <2>1. IsFiniteSet(LiveIn(st.new))
    BY <1>1, MovingParts
  <2>. QED
    BY <2>1, FS_CardinalityType
<1>4. CASE ~st.done
  <2>1. u = KickOut(H, st)
    BY <1>4 DEF Rehash
  <2>2. LET w == KickOut(H, st)
        IN  /\ Moving(H, K, V, t, n, a, w)
            /\ w.j = st.j
            /\ Cardinality(LiveIn(w.new)) = Cardinality(LiveIn(st.new)) + 1
    BY <1>1, <1>4, KickOutKeeps
  <2>3. st.j + Cardinality(LiveIn(st.new)) = k
    BY <1>4 DEF AtStep
  <2>4. /\ Moving(H, K, V, t, n, a, u) /\ u.j = st.j
        /\ Cardinality(LiveIn(u.new)) = Cardinality(LiveIn(st.new)) + 1
    BY <2>1, <2>2
  <2>. HIDE DEF u
  <2>5. u.j + Cardinality(LiveIn(u.new)) = k + 1
    BY <1>2, <1>3, <2>3, <2>4
  <2>. QED
    BY <2>4, <2>5 DEF AtStep, u
<1>5. CASE st.done /\ st.j = t.n_buckets
  <2>1. DOMAIN st.flags = 0 .. t.n_buckets - 1
    BY <1>2, StageParts
  <2>2. st.j \notin DOMAIN st.flags
    BY <1>2, <1>5, <2>1
  <2>3. u = st
    BY <1>5, <2>2 DEF Rehash
  <2>. QED
    BY <1>1, <1>5, <2>3 DEF AtStep
<1>6. CASE st.done /\ st.j # t.n_buckets
  <2>1. LET w == Rehash(H, st)
        IN  Moving(H, K, V, t, n, a, w) /\ w.j = st.j + 1 /\ w.new = st.new
    <3>1. CASE st.flags[st.j] = "live"
      BY <1>1, <1>6, <3>1, TakeKeeps
    <3>2. CASE st.flags[st.j] # "live"
      BY <1>1, <1>6, <3>2, PassKeeps
    <3>. QED
      BY <3>1, <3>2
  <2>2. Moving(H, K, V, t, n, a, u) /\ u.j = st.j + 1 /\ u.new = st.new
    BY <2>1
  <2>3. st.j + Cardinality(LiveIn(st.new)) = k
    BY <1>6 DEF AtStep
  <2>. HIDE DEF u
  <2>4. u.j + Cardinality(LiveIn(u.new)) = k + 1
    BY <1>2, <1>3, <2>2, <2>3
  <2>. QED
    BY <2>2, <2>4 DEF AtStep, u
<1>. QED
  BY <1>4, <1>5, <1>6

(* It begins with every key in its old bucket.                             *)
LEMMA RehashBegins ==
  ASSUME NEW H, NEW K, NEW V, NEW t, NEW n, NEW a, Rehashing(H, K, V, t, n, a),
         a = Max({n, t.n_buckets})
  PROVE  AtStep(H, K, V, t, n, a, Unmoved(t, n), 0)
<1> DEFINE st == Unmoved(t, n)
<1>1. n \in Nat /\ a \in Nat /\ n <= a /\ t.n_buckets <= a /\ t.n_buckets \in Nat
  BY RehashingParts
<1>2. WellFormed(K, V, t)
  BY DEF Rehashing
<1>3. /\ t.flags \in [0 .. t.n_buckets - 1 -> Flag]
      /\ t.keys \in [0 .. t.n_buckets - 1 -> K \cup {Null}]
      /\ t.vals \in [0 .. t.n_buckets - 1 -> V \cup {Null}]
  BY <1>2, TableParts
<1>4. /\ st = [flags |-> st.flags, new |-> st.new, keys |-> st.keys, vals |-> st.vals,
               j |-> st.j, key |-> st.key, val |-> st.val, done |-> st.done]
      /\ st.flags = t.flags /\ st.new = [i \in 0 .. n - 1 |-> "empty"]
      /\ st.keys = Grown(t.keys, a) /\ st.vals = Grown(t.vals, a)
      /\ st.j = 0 /\ st.key = Null /\ st.val = Null /\ st.done = TRUE
  BY DEF Unmoved
<1>5. /\ Grown(t.keys, a) \in [0 .. a - 1 -> K \cup {Null}]
      /\ Grown(t.vals, a) \in [0 .. a - 1 -> V \cup {Null}]
      /\ \A i \in 0 .. t.n_buckets - 1 :
           Grown(t.keys, a)[i] = t.keys[i] /\ Grown(t.vals, a)[i] = t.vals[i]
  <2>1. ASSUME NEW X, NEW h \in [0 .. t.n_buckets - 1 -> X \cup {Null}]
        PROVE  /\ Grown(h, a) \in [0 .. a - 1 -> X \cup {Null}]
               /\ \A i \in 0 .. t.n_buckets - 1 : Grown(h, a)[i] = h[i]
    <3>1. \A i \in 0 .. t.n_buckets - 1 : i \in 0 .. a - 1
      BY <1>1
    <3>2. DOMAIN h = 0 .. t.n_buckets - 1
      OBVIOUS
    <3>. QED
      BY <3>1, <3>2 DEF Grown
  <2>. QED
    BY <1>3, <2>1
<1>. HIDE DEF st
<1>6. st \in Stages(K, V, t, n, a)
  <2>1. st.done \in BOOLEAN
    BY <1>4, Zenon
  <2>2. st.new \in [0 .. n - 1 -> {"empty", "live"}]
    BY <1>4
  <2>3. st.flags \in [0 .. t.n_buckets - 1 -> Flag]
    BY <1>3, <1>4
  <2>4. st.keys \in [0 .. a - 1 -> K \cup {Null}] /\ st.vals \in [0 .. a - 1 -> V \cup {Null}]
    BY <1>4, <1>5
  <2>5. st.j \in 0 .. t.n_buckets
    BY <1>1, <1>4
  <2>6. st.key \in K \cup {Null} /\ st.val \in V \cup {Null}
    BY <1>4
  <2>. QED
    BY <1>4, <2>1, <2>2, <2>3, <2>4, <2>5, <2>6, StageOf, Zenon
<1>7. LiveIn(st.new) = {}
  BY <1>4 DEF LiveIn
<1>8. LiveIn(st.flags) = Live(t) /\ Live(t) \subseteq 0 .. t.n_buckets - 1
  BY <1>2, <1>4, LiveBuckets DEF LiveIn, Live
<1>9. \A i \in 0 .. st.j - 1 : st.flags[i] # "live"
  BY <1>4
<1> DEFINE g == [b \in Live(t) |-> b]
<1>10. Carried(t, st, g)
  <2>1. Places(st) = Live(t)
    BY <1>4, <1>7, <1>8 DEF Places
  <2>2. \A b \in Live(t) : b # -1
    BY <1>1, <1>8
  <2>3. \A b \in Live(t) : st.keys[b] = t.keys[b] /\ st.vals[b] = t.vals[b]
    <3>1. SUFFICES ASSUME NEW b \in Live(t)
                   PROVE  st.keys[b] = t.keys[b] /\ st.vals[b] = t.vals[b]
      OBVIOUS
    <3>2. b \in 0 .. t.n_buckets - 1
      BY <1>8
    <3>3. Grown(t.keys, a)[b] = t.keys[b] /\ Grown(t.vals, a)[b] = t.vals[b]
      BY <1>5, <3>2
    <3>4. st.keys = Grown(t.keys, a) /\ st.vals = Grown(t.vals, a)
      BY <1>4
    <3>. QED
      BY <3>3, <3>4
  <2>4. \A b \in Live(t) : KeyIn(st, b) = t.keys[b] /\ ValIn(st, b) = t.vals[b]
    BY <2>2, <2>3 DEF KeyIn, ValIn
  <2>. QED
    BY <2>1, <2>4 DEF Carried
<1>11. Moving(H, K, V, t, n, a, st)
  BY <1>6, <1>7, <1>9, <1>10 DEF Moving
<1>12. st.j + Cardinality(LiveIn(st.new)) = 0
  <2>1. Cardinality(LiveIn(st.new)) = 0
    BY <1>7, FS_EmptySet, Zenon
  <2>. QED
    BY <1>4, <2>1
<1>. QED
  BY <1>11, <1>12 DEF AtStep, st

(* The states of the rehashing one after another.                          *)
Rehashes(H, x, m, f) ==
  f = [k \in 0 .. m |-> IF k = 0 THEN x ELSE Rehash(H, f[k - 1])]

LEMMA RehashesExist ==
  ASSUME NEW H, NEW x, NEW m \in Nat
  PROVE  \E f : Rehashes(H, x, m, f)
<1> DEFINE S == {c \in Nat : ~ \E f : Rehashes(H, x, c, f)}
<1>1. SUFFICES ASSUME S # {}
               PROVE  FALSE
  OBVIOUS
<1>2. PICK c \in S : \A d \in S : c <= d
  <2>1. S \in SUBSET Nat
    OBVIOUS
  <2>. HIDE DEF S
  <2>. QED
    BY <1>1, <2>1, LeastNatural
<1>3. c \in Nat /\ ~ \E f : Rehashes(H, x, c, f)
  BY <1>2
<1>4. CASE c = 0
  <2> DEFINE f == [k \in 0 .. c |-> x]
  <2>1. f = [k \in 0 .. c |-> IF k = 0 THEN x ELSE Rehash(H, f[k - 1])]
    BY <1>4
  <2>. HIDE DEF f
  <2>2. Rehashes(H, x, c, f)
    BY <2>1 DEF Rehashes
  <2>. QED
    BY <1>3, <2>2
<1>5. CASE c # 0
  <2>1. c - 1 \in Nat /\ c - 1 \notin S
    BY <1>2, <1>3, <1>5
  <2>2. PICK g : Rehashes(H, x, c - 1, g)
    BY <2>1
  <2>3. /\ g = [k \in 0 .. c - 1 |-> IF k = 0 THEN x ELSE Rehash(H, g[k - 1])]
    BY <2>2 DEF Rehashes
  <2> DEFINE f == [k \in 0 .. c |-> IF k = c THEN Rehash(H, g[c - 1]) ELSE g[k]]
  <2>4. \A k \in 0 .. c : f[k] = IF k = 0 THEN x ELSE Rehash(H, f[k - 1])
    <3>1. SUFFICES ASSUME NEW k \in 0 .. c
                   PROVE  f[k] = IF k = 0 THEN x ELSE Rehash(H, f[k - 1])
      OBVIOUS
    <3>2. CASE k = c
      <4>1. f[k] = Rehash(H, g[c - 1]) /\ f[k - 1] = g[c - 1]
        BY <1>3, <1>5, <3>2
      <4>. QED
        BY <1>5, <3>2, <4>1
    <3>3. CASE k # c
      <4>1. k \in 0 .. c - 1
        BY <1>3, <3>3
      <4>2. g[k] = IF k = 0 THEN x ELSE Rehash(H, g[k - 1])
        BY <2>3, <4>1
      <4>3. f[k] = g[k]
        BY <3>3
      <4>4. k # 0 => f[k - 1] = g[k - 1]
        BY <1>3, <4>1
      <4>. HIDE DEF f
      <4>. QED
        BY <4>2, <4>3, <4>4
    <3>. QED
      BY <3>2, <3>3
  <2>5. f = [k \in 0 .. c |-> f[k]]
    OBVIOUS
  <2>. HIDE DEF f
  <2>6. Rehashes(H, x, c, f)
    BY <2>4, <2>5 DEF Rehashes
  <2>. QED
    BY <1>3, <2>6
<1>. QED
  BY <1>4, <1>5

(* It ends with every key in the new table.                                *)
LEMMA RehashEnds ==
  ASSUME NEW H, NEW K, NEW V, NEW t, NEW n, NEW a, Rehashing(H, K, V, t, n, a),
         a = Max({n, t.n_buckets})
  PROVE  LET st == Moved(H, t, n)
         IN  Moving(H, K, V, t, n, a, st) /\ st.done /\ st.j = t.n_buckets
<1> DEFINE m == t.n_buckets + t.size
           x == Unmoved(t, n)
           f == CHOOSE g : g = [k \in 0 .. m |-> IF k = 0 THEN x ELSE Rehash(H, g[k - 1])]
           S == {k \in 0 .. m : ~AtStep(H, K, V, t, n, a, f[k], k)}
<1>1. t.n_buckets \in Nat /\ t.size \in Nat /\ m \in Nat
  BY RehashingParts
<1>2. f = [k \in 0 .. m |-> IF k = 0 THEN x ELSE Rehash(H, f[k - 1])]
  <2>1. \E g : Rehashes(H, x, m, g)
    <3>. HIDE DEF m, x
    <3>. QED
      BY <1>1, RehashesExist
  <2>. HIDE DEF m, x
  <2>. QED
    BY <2>1 DEF Rehashes
<1>3. Moved(H, t, n) = f[m]
  BY DEF Moved
<1>. HIDE DEF f
<1>4. AtStep(H, K, V, t, n, a, x, 0)
  BY RehashBegins
<1>. HIDE DEF x
<1>5. S = {}
  <2>1. SUFFICES ASSUME S # {}
                 PROVE  FALSE
    OBVIOUS
  <2>2. S \in SUBSET Nat
    OBVIOUS
  <2>3. PICK c \in S : \A d \in S : c <= d
    <3>. HIDE DEF S
    <3>. QED
      BY <2>1, <2>2, LeastNatural
  <2>4. c \in 0 .. m /\ ~AtStep(H, K, V, t, n, a, f[c], c)
    BY <2>3
  <2>. HIDE DEF m
  <2>5. CASE c = 0
    <3>1. f[c] = x
      BY <1>1, <1>2, <2>4, <2>5
    <3>. QED
      BY <1>4, <2>4, <2>5, <3>1
  <2>6. CASE c # 0
    <3>1. c - 1 \in Nat /\ c - 1 \in 0 .. m
      BY <1>1, <2>4, <2>6
    <3>2. ~(c <= c - 1)
      BY <1>1, <2>4
    <3>3. AtStep(H, K, V, t, n, a, f[c - 1], c - 1)
      BY <2>3, <3>1, <3>2
    <3>4. f[c] = Rehash(H, f[c - 1])
      BY <1>2, <2>4, <2>6
    <3>5. AtStep(H, K, V, t, n, a, Rehash(H, f[c - 1]), (c - 1) + 1)
      BY <3>1, <3>3, RehashSteps
    <3>6. (c - 1) + 1 = c
      BY <1>1, <2>4
    <3>. QED
      BY <2>4, <3>4, <3>5, <3>6
  <2>. QED
    BY <2>5, <2>6
<1> DEFINE st == f[m]
<1>6. AtStep(H, K, V, t, n, a, st, m)
  <2>1. m \in 0 .. m
    BY <1>1
  <2>. HIDE DEF m
  <2>. QED
    BY <1>5, <2>1
<1>. HIDE DEF st
<1>7. Moving(H, K, V, t, n, a, st)
  BY <1>6 DEF AtStep
<1>8. st.done /\ st.j = t.n_buckets
  <2>1. SUFFICES ASSUME ~(st.done /\ st.j = t.n_buckets)
                 PROVE  FALSE
    OBVIOUS
  <2>2. st.j + Cardinality(LiveIn(st.new)) = t.n_buckets + t.size
    BY <1>6, <2>1 DEF AtStep
  <2>3. st \in Stages(K, V, t, n, a)
    BY <1>7 DEF Moving
  <2>4. st.j \in 0 .. t.n_buckets
    BY <2>3, StageParts
  <2>5. /\ IsFiniteSet(LiveIn(st.new)) /\ Cardinality(LiveIn(st.new)) <= t.size
        /\ ~st.done => Cardinality(LiveIn(st.new)) < t.size
    BY <1>7, MovingParts
  <2>6. Cardinality(LiveIn(st.new)) \in Nat
    BY <2>5, FS_CardinalityType
  <2>7. st.j = t.n_buckets /\ Cardinality(LiveIn(st.new)) = t.size
    BY <1>1, <2>2, <2>4, <2>5, <2>6
  <2>. QED
    BY <1>1, <2>1, <2>5, <2>7
<1>. QED
  BY <1>3, <1>7, <1>8 DEF st

(* The live buckets of u hold what those of t held.                        *)
Copied(t, u) ==
  \E g \in [Live(t) -> Live(u)] :
    /\ \A b, c \in Live(t) : g[b] = g[c] => b = c
    /\ \A i \in Live(u) : \E b \in Live(t) : g[b] = i
    /\ \A b \in Live(t) : u.keys[g[b]] = t.keys[b] /\ u.vals[g[b]] = t.vals[b]

LEMMA CopiedItself ==
  ASSUME NEW t
  PROVE  Copied(t, t)
<1> DEFINE g == [b \in Live(t) |-> b]
<1>1. g \in [Live(t) -> Live(t)]
  OBVIOUS
<1>2. \A b \in Live(t) : g[b] = b
  OBVIOUS
<1>. HIDE DEF g
<1>. QED
  BY <1>1, <1>2 DEF Copied

(* A table rehashed is a table of the same keys with the same values, in   *)
(* which every key is found.                                               *)
LEMMA ResizedIsRight ==
  ASSUME NEW H, NEW K, NEW V, NEW t, WellFormed(K, V, t), Hashing(H, K),
         NEW n \in Sizes, t.size < ac_hash_upper(n)
  PROVE  LET u == Resized(t, n, Moved(H, t, n))
         IN  /\ WellFormed(K, V, u) /\ Copied(t, u)
             /\ \A i \in Live(u) : Reached(H, u, i)
             /\ u.size = t.size /\ u.n_occupied = t.size
             /\ u.upper_bound = ac_hash_upper(n)
<1> DEFINE a == Max({n, t.n_buckets})
           st == Moved(H, t, n)
           u == Resized(t, n, st)
<1>1. t.n_buckets \in Nat /\ t.size \in Nat /\ n \in Nat /\ n >= 4
  BY TableParts, SizesDouble
<1>2. a \in Nat /\ n <= a /\ t.n_buckets <= a
  <2>1. CASE n <= t.n_buckets
    <3>1. {n, t.n_buckets} \in SUBSET Int /\ \A x \in {n, t.n_buckets} : x <= t.n_buckets
      BY <1>1, <2>1
    <3>2. a = t.n_buckets
      BY <3>1, MaxOf
    <3>. QED
      BY <1>1, <2>1, <3>2
  <2>2. CASE t.n_buckets <= n
    <3>1. {n, t.n_buckets} \in SUBSET Int /\ \A x \in {n, t.n_buckets} : x <= n
      BY <1>1, <2>2
    <3>2. a = n
      BY <3>1, MaxOf
    <3>. QED
      BY <1>1, <2>2, <3>2
  <2>. QED
    BY <1>1, <2>1, <2>2
<1>3. a = Max({n, t.n_buckets})
  OBVIOUS
<1>. HIDE DEF a
<1>4. Rehashing(H, K, V, t, n, a)
  BY <1>2 DEF Rehashing
<1>5. LET s == Moved(H, t, n)
      IN  Moving(H, K, V, t, n, a, s) /\ s.done /\ s.j = t.n_buckets
  BY <1>3, <1>4, RehashEnds
<1>6. Moving(H, K, V, t, n, a, st) /\ st.done /\ st.j = t.n_buckets
  BY <1>5
<1>. HIDE DEF st
<1>7. st \in Stages(K, V, t, n, a)
  BY <1>6 DEF Moving
<1>8. /\ st.flags \in [0 .. t.n_buckets - 1 -> Flag]
      /\ st.new \in [0 .. n - 1 -> {"empty", "live"}]
      /\ st.keys \in [0 .. a - 1 -> K \cup {Null}]
      /\ st.vals \in [0 .. a - 1 -> V \cup {Null}]
      /\ LiveIn(st.flags) = {i \in 0 .. t.n_buckets - 1 : st.flags[i] = "live"}
      /\ LiveIn(st.new) = {i \in 0 .. n - 1 : st.new[i] = "live"}
  BY <1>7, StageParts
<1>9. Places(st) = LiveIn(st.new)
  <2>1. \A i \in 0 .. t.n_buckets - 1 : st.flags[i] # "live"
    BY <1>6 DEF Moving
  <2>2. LiveIn(st.flags) = {}
    BY <1>8, <2>1
  <2>. QED
    BY <1>6, <2>2 DEF Places
<1>10. \A i \in LiveIn(st.new) : i \in 0 .. a - 1 /\ i # -1
  BY <1>1, <1>2, <1>8
<1>11. /\ u.n_buckets = n /\ u.size = t.size /\ u.n_occupied = t.size
       /\ u.upper_bound = ac_hash_upper(n) /\ u.flags = st.new
       /\ u.keys = Kept(st.keys, st.new) /\ u.vals = Kept(st.vals, st.new)
       /\ u = [n_buckets |-> u.n_buckets, size |-> u.size, n_occupied |-> u.n_occupied,
               upper_bound |-> u.upper_bound, flags |-> u.flags, keys |-> u.keys,
               vals |-> u.vals]
  BY DEF Resized
<1>. HIDE DEF u
<1>12. /\ u.keys \in [0 .. n - 1 -> K \cup {Null}] /\ u.vals \in [0 .. n - 1 -> V \cup {Null}]
       /\ \A i \in LiveIn(st.new) : u.keys[i] = st.keys[i] /\ u.vals[i] = st.vals[i]
  <2>1. ASSUME NEW X, NEW h \in [0 .. a - 1 -> X \cup {Null}]
        PROVE  /\ Kept(h, st.new) \in [0 .. n - 1 -> X \cup {Null}]
               /\ \A i \in LiveIn(st.new) : Kept(h, st.new)[i] = h[i]
    <3>1. \A i \in 0 .. n - 1 : i \in 0 .. a - 1
      BY <1>1, <1>2
    <3>2. DOMAIN st.new = 0 .. n - 1
      BY <1>8
    <3>. QED
      BY <3>1, <3>2 DEF Kept, LiveIn
  <2>2. /\ Kept(st.keys, st.new) \in [0 .. n - 1 -> K \cup {Null}]
        /\ \A i \in LiveIn(st.new) : Kept(st.keys, st.new)[i] = st.keys[i]
    BY <1>8, <2>1
  <2>3. /\ Kept(st.vals, st.new) \in [0 .. n - 1 -> V \cup {Null}]
        /\ \A i \in LiveIn(st.new) : Kept(st.vals, st.new)[i] = st.vals[i]
    BY <1>8, <2>1
  <2>4. \A i \in LiveIn(st.new) : u.keys[i] = st.keys[i] /\ u.vals[i] = st.vals[i]
    <3>1. u.keys = Kept(st.keys, st.new) /\ u.vals = Kept(st.vals, st.new)
      BY <1>11
    <3>. QED
      BY <2>2, <2>3, <3>1
  <2>5. u.keys \in [0 .. n - 1 -> K \cup {Null}] /\ u.vals \in [0 .. n - 1 -> V \cup {Null}]
    BY <1>11, <2>2, <2>3
  <2>. QED
    BY <2>4, <2>5
<1>13. Live(u) = LiveIn(st.new) /\ Occupied(u) = LiveIn(st.new)
  BY <1>8, <1>11 DEF Live, LiveIn, Occupied
<1>14. PICK g : Carried(t, st, g)
  BY <1>6 DEF Moving
<1>15. /\ g \in [Live(t) -> Live(u)]
       /\ \A b, c \in Live(t) : g[b] = g[c] => b = c
       /\ \A p \in Live(u) : \E b \in Live(t) : g[b] = p
       /\ \A b \in Live(t) : KeyIn(st, g[b]) = t.keys[b] /\ ValIn(st, g[b]) = t.vals[b]
  BY <1>9, <1>13, <1>14 DEF Carried
<1>16. Copied(t, u)
  <2>1. \A b \in Live(t) : u.keys[g[b]] = t.keys[b] /\ u.vals[g[b]] = t.vals[b]
    <3>1. SUFFICES ASSUME NEW b \in Live(t)
                   PROVE  u.keys[g[b]] = t.keys[b] /\ u.vals[g[b]] = t.vals[b]
      OBVIOUS
    <3>2. g[b] \in LiveIn(st.new)
      BY <1>13, <1>15
    <3>3. KeyIn(st, g[b]) = st.keys[g[b]] /\ ValIn(st, g[b]) = st.vals[g[b]]
      BY <1>10, <3>2 DEF KeyIn, ValIn
    <3>. QED
      BY <1>12, <1>15, <3>2, <3>3
  <2>. QED
    BY <1>15, <2>1 DEF Copied
<1>17. WellFormed(K, V, u)
  <2>1. u \in Tables(K, V, u.n_buckets)
    <3>1. u.flags \in [0 .. n - 1 -> Flag]
      <4>1. {"empty", "live"} \subseteq Flag
        BY DEF Flag
      <4>. QED
        BY <1>8, <1>11, <4>1
    <3>2. u.upper_bound \in Nat
      BY <1>11, HashUpper
    <3>. QED
      BY <1>1, <1>11, <1>12, <3>1, <3>2 DEF Tables
  <2>2. \A i \in Live(u) : u.keys[i] \in K
    <3>1. \A i \in LiveIn(st.new) : st.keys[i] \in K
      BY <1>4, <1>6, MovingParts
    <3>. QED
      BY <1>12, <1>13, <3>1
  <2>3. Cardinality(Live(u)) = t.size
    <3>1. IsFiniteSet(Live(t)) /\ Cardinality(Live(t)) = t.size
      BY <1>4, RehashingParts
    <3>2. Cardinality(Places(st)) = Cardinality(Live(t))
      BY <1>14, <3>1, PlacesCount
    <3>. QED
      BY <1>9, <1>13, <3>1, <3>2
  <2>4. u.n_occupied <= u.upper_bound
    <3>1. ac_hash_upper(n) \in Nat
      BY HashUpper
    <3>. QED
      BY <1>1, <1>11, <3>1
  <2>5. n # 0
    BY <1>1
  <2>. QED
    BY <1>11, <1>13, <2>1, <2>2, <2>3, <2>4, <2>5 DEF WellFormed
<1>18. \A i \in Live(u) : Reached(H, u, i)
  <2>1. SUFFICES ASSUME NEW i \in LiveIn(st.new)
                 PROVE  Reached(H, u, i)
    BY <1>13
  <2>2. NewReached(H, n, st, i)
    BY <1>6 DEF Moving
  <2>3. PICK s \in 0 .. n - 1 :
          /\ Probe(n, H.hash[st.keys[i]], s) = i
          /\ \A r \in 0 .. s - 1 : st.new[Probe(n, H.hash[st.keys[i]], r)] = "live"
    BY <2>2 DEF NewReached
  <2>. QED
    BY <1>11, <1>12, <2>3 DEF Reached
<1>. QED
  BY <1>11, <1>16, <1>17, <1>18 DEF u, st

(* After kh_put has made room there is room.  A table of fewer than 2^22   *)
(* keys never has to grow beyond 2^23 buckets.                             *)
LEMMA MakeRoomMakesRoom ==
  ASSUME NEW H, NEW K, NEW V, NEW t, WellFormed(K, V, t), Hashing(H, K),
         t.size < 2 ^ 22
  PROVE  LET u == MakeRoom(H, t)
         IN  /\ WellFormed(K, V, u) /\ Copied(t, u)
             /\ u = t \/ \A i \in Live(u) : Reached(H, u, i)
             /\ u.size = t.size /\ u.n_occupied < u.upper_bound
<1>1. /\ t.n_buckets \in Nat /\ t.size \in Nat /\ t.n_occupied \in Nat
      /\ t.upper_bound \in Nat /\ t.size <= t.n_occupied
  BY TableParts, LiveBuckets
<1>2. CASE t.n_occupied < t.upper_bound
  <2>1. MakeRoom(H, t) = t
    BY <1>2 DEF MakeRoom
  <2>. QED
    BY <1>2, <2>1, CopiedItself
<1>3. CASE ~(t.n_occupied < t.upper_bound)
  <2> DEFINE wanted == IF t.n_buckets > 2 * t.size THEN t.n_buckets - 1
                       ELSE t.n_buckets + 1
             n == Max({ac_roundup32(wanted), 4})
  <2>1. n \in Sizes /\ t.size < ac_hash_upper(n)
    <3>1. t.n_occupied = t.upper_bound
      <4>1. t.n_occupied <= t.upper_bound
        BY DEF WellFormed
      <4>. QED
        BY <1>1, <1>3, <4>1
    <3>2. n = SizeFor(wanted)
      BY DEF SizeFor
    <3>. HIDE DEF n
    <3>3. CASE t.n_buckets = 0
      <4>1. t.upper_bound = 0
        BY <3>3 DEF WellFormed
      <4>2. t.size = 0
        BY <1>1, <3>1, <4>1
      <4>3. wanted = 1
        BY <3>3, <4>2
      <4>4. n = 4 /\ 4 \in Sizes
        BY <3>2, <4>3, SizeForFirst
      <4>5. ac_hash_upper(4) \in Nat /\ 4 <= 2 * ac_hash_upper(4)
        BY <4>4, HashUpper
      <4>. QED
        BY <4>2, <4>4, <4>5
    <3>4. CASE t.n_buckets # 0
      <4>1. t.n_buckets \in Sizes /\ t.upper_bound = ac_hash_upper(t.n_buckets)
        BY <3>4 DEF WellFormed
      <4>2. /\ ac_hash_upper(t.n_buckets) \in Nat
            /\ t.n_buckets <= 2 * ac_hash_upper(t.n_buckets)
            /\ ac_hash_upper(t.n_buckets) < t.n_buckets
        BY <4>1, HashUpper
      <4>3. CASE t.n_buckets > 2 * t.size
        <5>1. wanted = t.n_buckets - 1
          BY <4>3
        <5>2. n = t.n_buckets
          BY <3>2, <4>1, <5>1, SizeForSame
        <5>. QED
          BY <1>1, <4>1, <4>2, <4>3, <5>2
      <4>4. CASE ~(t.n_buckets > 2 * t.size)
        <5>1. wanted = t.n_buckets + 1
          BY <4>4
        <5>2. t.n_buckets # 2 ^ 23
          <6>1. 2 ^ 22 \in Nat /\ 2 ^ (22 + 1) = 2 * 2 ^ 22
            <7>1. 22 \in 0 .. 30
              OBVIOUS
            <7>. QED
              BY <7>1, PowersOfTwo, Zenon
          <6>2. 2 ^ 23 = 2 * 2 ^ 22
            <7>1. 22 + 1 = 23
              OBVIOUS
            <7>. QED
              BY <6>1, <7>1
          <6> DEFINE p == 2 ^ 22
                     q == 2 ^ 23
          <6>3. p \in Nat /\ q = 2 * p /\ t.size < p
            BY <6>1, <6>2
          <6>. HIDE DEF p, q
          <6>4. t.n_buckets # q
            BY <1>1, <4>4, <6>3
          <6>. QED
            BY <6>4 DEF q
        <5>3. 2 * t.n_buckets \in Sizes
          BY <4>1, <5>2, SizesGoOn
        <5>4. n = 2 * t.n_buckets
          BY <3>2, <4>1, <5>1, <5>3, SizeForTwice
        <5>5. ac_hash_upper(n) \in Nat /\ n <= 2 * ac_hash_upper(n)
          BY <5>3, <5>4, HashUpper
        <5>. QED
          BY <1>1, <3>1, <4>1, <4>2, <5>3, <5>4, <5>5
      <4>. QED
        BY <4>3, <4>4
    <3>. QED
      BY <3>3, <3>4
  <2>2. ac_hash_upper(n) \in Nat
    BY <2>1, HashUpper
  <2>3. MakeRoom(H, t) = Resized(t, n, Moved(H, t, n))
    <3>1. MakeRoom(H, t) = kh_resize(H, t, wanted)
      BY <1>3 DEF MakeRoom
    <3>2. ~(t.size >= ac_hash_upper(n))
      BY <1>1, <2>1, <2>2
    <3>. QED
      BY <3>1, <3>2 DEF kh_resize
  <2>. HIDE DEF n
  <2>4. LET u == Resized(t, n, Moved(H, t, n))
        IN  /\ WellFormed(K, V, u) /\ Copied(t, u)
            /\ \A i \in Live(u) : Reached(H, u, i)
            /\ u.size = t.size /\ u.n_occupied = t.size
            /\ u.upper_bound = ac_hash_upper(n)
    BY <2>1, ResizedIsRight
  <2> DEFINE u == Resized(t, n, Moved(H, t, n))
  <2>5. /\ WellFormed(K, V, u) /\ Copied(t, u) /\ \A i \in Live(u) : Reached(H, u, i)
        /\ u.size = t.size /\ u.n_occupied = t.size /\ u.upper_bound = ac_hash_upper(n)
    BY <2>4
  <2>. HIDE DEF u
  <2>6. u.n_occupied < u.upper_bound
    BY <2>1, <2>5
  <2>7. MakeRoom(H, t) = u
    BY <2>3 DEF u
  <2>. QED
    BY <2>5, <2>6, <2>7
<1>. QED
  BY <1>2, <1>3

-----------------------------------------------------------------------------
(* Writing a value, and deleting.                                          *)

LEMMA ValueWritten ==
  ASSUME NEW K, NEW V, NEW t, WellFormed(K, V, t), NEW x \in Live(t),
         NEW v \in V \cup {Null}
  PROVE  LET u == [t EXCEPT !.vals[x] = v]
         IN  /\ WellFormed(K, V, u)
             /\ u.n_buckets = t.n_buckets /\ u.size = t.size /\ u.flags = t.flags
             /\ u.keys = t.keys /\ Live(u) = Live(t)
             /\ u.vals[x] = v /\ \A i \in Live(t) : i # x => u.vals[i] = t.vals[i]
<1> DEFINE u == [t EXCEPT !.vals[x] = v]
<1>1. t \in Tables(K, V, t.n_buckets)
  BY DEF WellFormed
<1>2. /\ u.n_buckets = t.n_buckets /\ u.size = t.size /\ u.n_occupied = t.n_occupied
      /\ u.upper_bound = t.upper_bound /\ u.flags = t.flags /\ u.keys = t.keys
      /\ u.vals = [t.vals EXCEPT ![x] = v]
      /\ u = [n_buckets |-> u.n_buckets, size |-> u.size, n_occupied |-> u.n_occupied,
              upper_bound |-> u.upper_bound, flags |-> u.flags, keys |-> u.keys,
              vals |-> u.vals]
  BY <1>1 DEF Tables
<1>. HIDE DEF u
<1>3. Live(t) \subseteq 0 .. t.n_buckets - 1
  BY LiveBuckets
<1>4. t.vals \in [0 .. t.n_buckets - 1 -> V \cup {Null}]
  BY TableParts
<1>5. /\ u.vals \in [0 .. t.n_buckets - 1 -> V \cup {Null}]
      /\ u.vals[x] = v /\ \A i \in Live(t) : i # x => u.vals[i] = t.vals[i]
  BY <1>2, <1>3, <1>4
<1>6. Live(u) = Live(t) /\ Occupied(u) = Occupied(t)
  BY <1>2 DEF Live, Occupied
<1>7. u \in Tables(K, V, u.n_buckets)
  <2>1. /\ t.flags \in [0 .. t.n_buckets - 1 -> Flag]
        /\ t.keys \in [0 .. t.n_buckets - 1 -> K \cup {Null}]
        /\ t.size \in Nat /\ t.n_occupied \in Nat /\ t.upper_bound \in Nat
    BY TableParts
  <2>. QED
    BY <1>2, <1>5, <2>1 DEF Tables
<1>8. WellFormed(K, V, u)
  BY <1>2, <1>6, <1>7 DEF WellFormed
<1>. QED
  BY <1>2, <1>5, <1>6, <1>8 DEF u

(* u is t with the buckets D deleted.                                      *)
Deleted(t, u, D) ==
  /\ D \subseteq Live(t)
  /\ u = [t EXCEPT !.flags = [i \in DOMAIN t.flags |-> IF i \in D THEN "deleted" ELSE t.flags[i]],
                   !.keys = [i \in DOMAIN t.keys |-> IF i \in D THEN Null ELSE t.keys[i]],
                   !.vals = [i \in DOMAIN t.vals |-> IF i \in D THEN Null ELSE t.vals[i]],
                   !.size = @ - Cardinality(D)]

LEMMA DeletedParts ==
  ASSUME NEW K, NEW V, NEW t, WellFormed(K, V, t), NEW D, NEW u, Deleted(t, u, D)
  PROVE  /\ WellFormed(K, V, u)
         /\ u.n_buckets = t.n_buckets
         /\ Live(u) = Live(t) \ D
         /\ \A i \in Live(u) : u.keys[i] = t.keys[i] /\ u.vals[i] = t.vals[i]
         /\ \A i \in 0 .. t.n_buckets - 1 : u.flags[i] = "empty" <=> t.flags[i] = "empty"
<1> DEFINE f == [i \in DOMAIN t.flags |-> IF i \in D THEN "deleted" ELSE t.flags[i]]
           ks == [i \in DOMAIN t.keys |-> IF i \in D THEN Null ELSE t.keys[i]]
           vs == [i \in DOMAIN t.vals |-> IF i \in D THEN Null ELSE t.vals[i]]
<1>1. t \in Tables(K, V, t.n_buckets)
  BY DEF WellFormed
<1>2. /\ t.flags \in [0 .. t.n_buckets - 1 -> Flag]
      /\ t.keys \in [0 .. t.n_buckets - 1 -> K \cup {Null}]
      /\ t.vals \in [0 .. t.n_buckets - 1 -> V \cup {Null}]
      /\ t.size \in Nat /\ t.n_occupied \in Nat /\ t.upper_bound \in Nat
  BY TableParts
<1>3. D \subseteq Live(t) /\ u = [t EXCEPT !.flags = f, !.keys = ks, !.vals = vs,
                                           !.size = @ - Cardinality(D)]
  BY DEF Deleted
<1>4. /\ f \in [0 .. t.n_buckets - 1 -> Flag]
      /\ ks \in [0 .. t.n_buckets - 1 -> K \cup {Null}]
      /\ vs \in [0 .. t.n_buckets - 1 -> V \cup {Null}]
  <2>1. "deleted" \in Flag
    BY DEF Flag
  <2>. QED
    BY <1>2, <2>1
<1>5. \A i \in 0 .. t.n_buckets - 1 :
        /\ f[i] = IF i \in D THEN "deleted" ELSE t.flags[i]
        /\ i \notin D => ks[i] = t.keys[i] /\ vs[i] = t.vals[i]
  BY <1>2
<1>. HIDE DEF f, ks, vs
<1>6. /\ u.n_buckets = t.n_buckets /\ u.size = t.size - Cardinality(D)
      /\ u.n_occupied = t.n_occupied
      /\ u.upper_bound = t.upper_bound /\ u.flags = f /\ u.keys = ks /\ u.vals = vs
      /\ u = [n_buckets |-> u.n_buckets, size |-> u.size, n_occupied |-> u.n_occupied,
              upper_bound |-> u.upper_bound, flags |-> u.flags, keys |-> u.keys,
              vals |-> u.vals]
  BY <1>1, <1>3 DEF Tables
<1>7. /\ Live(t) = {i \in 0 .. t.n_buckets - 1 : t.flags[i] = "live"}
      /\ IsFiniteSet(Live(t)) /\ Cardinality(Live(t)) = t.size
  BY LiveBuckets DEF WellFormed
<1>8. Live(u) = Live(t) \ D
  <2>1. Live(u) = {i \in 0 .. t.n_buckets - 1 : f[i] = "live"}
    BY <1>4, <1>6 DEF Live
  <2>. QED
    BY <1>3, <1>5, <1>7, <2>1
<1>9. \A i \in Live(u) : u.keys[i] = t.keys[i] /\ u.vals[i] = t.vals[i]
  BY <1>5, <1>6, <1>7, <1>8
<1>10. \A i \in 0 .. t.n_buckets - 1 : u.flags[i] = "empty" <=> t.flags[i] = "empty"
  BY <1>3, <1>5, <1>6, <1>7
<1>11. Occupied(u) = Occupied(t)
  <2>1. /\ Occupied(u) = {i \in 0 .. t.n_buckets - 1 : u.flags[i] # "empty"}
        /\ Occupied(t) = {i \in 0 .. t.n_buckets - 1 : t.flags[i] # "empty"}
    BY <1>2, <1>4, <1>6 DEF Occupied
  <2>. QED
    BY <1>10, <2>1
<1>12. /\ Cardinality(Live(t) \ D) = t.size - Cardinality(D)
       /\ Cardinality(Live(t) \ D) \in Nat
  <2>1. Live(t) \cap D = D
    BY <1>3
  <2>2. /\ Cardinality(Live(t) \ D) = Cardinality(Live(t)) - Cardinality(Live(t) \cap D)
        /\ IsFiniteSet(Live(t) \ D)
    BY <1>7, FS_Difference
  <2>3. Cardinality(Live(t) \ D) \in Nat
    BY <2>2, FS_CardinalityType
  <2>. QED
    BY <1>7, <2>1, <2>2, <2>3
<1>13. u \in Tables(K, V, u.n_buckets)
  <2>1. u.size \in Nat
    BY <1>6, <1>12
  <2>. QED
    BY <1>2, <1>4, <1>6, <2>1 DEF Tables
<1>14. \A i \in Live(u) : u.keys[i] \in K
  BY <1>8, <1>9 DEF WellFormed
<1>15. WellFormed(K, V, u)
  BY <1>6, <1>8, <1>11, <1>12, <1>13, <1>14 DEF WellFormed
<1>. QED
  BY <1>6, <1>8, <1>9, <1>10, <1>15

(* A deleted bucket is not an empty one: what was reached is reached.      *)
LEMMA DeletedReached ==
  ASSUME NEW H, NEW K, NEW V, NEW t, WellFormed(K, V, t), Hashing(H, K),
         NEW D, NEW u, Deleted(t, u, D), NEW i \in Live(u), Reached(H, t, i)
  PROVE  Reached(H, u, i)
<1>1. /\ u.n_buckets = t.n_buckets /\ Live(u) = Live(t) \ D
      /\ \A j \in Live(u) : u.keys[j] = t.keys[j] /\ u.vals[j] = t.vals[j]
      /\ \A j \in 0 .. t.n_buckets - 1 : u.flags[j] = "empty" <=> t.flags[j] = "empty"
  BY DeletedParts
<1>2. PICK s \in 0 .. t.n_buckets - 1 :
        /\ Probe(t.n_buckets, H.hash[t.keys[i]], s) = i
        /\ \A r \in 0 .. s - 1 : t.flags[Probe(t.n_buckets, H.hash[t.keys[i]], r)] # "empty"
  BY DEF Reached
<1>3. t.n_buckets \in Sizes /\ t.n_buckets \in Nat /\ H.hash[t.keys[i]] \in Int
  <2>1. i \in 0 .. t.n_buckets - 1 /\ t.keys[i] \in K
    BY <1>1, LiveBuckets DEF WellFormed
  <2>2. t.n_buckets \in Nat
    BY TableParts
  <2>3. t.n_buckets \in Sizes
    BY <2>1, <2>2 DEF WellFormed
  <2>4. H.hash[t.keys[i]] \in Int
    BY <2>1 DEF Hashing
  <2>. QED
    BY <2>2, <2>3, <2>4
<1>4. \A r \in 0 .. s - 1 :
        Probe(t.n_buckets, H.hash[t.keys[i]], r) \in 0 .. t.n_buckets - 1
  <2>1. \A r \in 0 .. s - 1 : r \in Nat
    BY <1>3
  <2>. QED
    BY <1>3, <2>1, ProbeInTable
<1>5. \A r \in 0 .. s - 1 : u.flags[Probe(t.n_buckets, H.hash[t.keys[i]], r)] # "empty"
  BY <1>1, <1>2, <1>4
<1>. QED
  BY <1>1, <1>2, <1>5 DEF Reached

(* kh_del deletes one bucket.                                              *)
LEMMA DelDeletes ==
  ASSUME NEW K, NEW V, NEW t, WellFormed(K, V, t), NEW x \in Live(t)
  PROVE  Deleted(t, kh_del(t, x), {x})
<1>1. t \in Tables(K, V, t.n_buckets)
  BY DEF WellFormed
<1>2. /\ t.flags \in [0 .. t.n_buckets - 1 -> Flag]
      /\ t.keys \in [0 .. t.n_buckets - 1 -> K \cup {Null}]
      /\ t.vals \in [0 .. t.n_buckets - 1 -> V \cup {Null}] /\ t.n_buckets \in Nat
  BY TableParts
<1>3. x \in 0 .. t.n_buckets - 1 /\ t.flags[x] = "live"
  BY LiveBuckets
<1>4. x # t.n_buckets
  BY <1>2, <1>3
<1>5. kh_del(t, x) = [t EXCEPT !.flags[x] = "deleted", !.size = @ - 1,
                               !.keys[x] = Null, !.vals[x] = Null]
  BY <1>3, <1>4 DEF kh_del
<1>6. /\ [t.flags EXCEPT ![x] = "deleted"] =
           [i \in DOMAIN t.flags |-> IF i \in {x} THEN "deleted" ELSE t.flags[i]]
      /\ [t.keys EXCEPT ![x] = Null] =
           [i \in DOMAIN t.keys |-> IF i \in {x} THEN Null ELSE t.keys[i]]
      /\ [t.vals EXCEPT ![x] = Null] =
           [i \in DOMAIN t.vals |-> IF i \in {x} THEN Null ELSE t.vals[i]]
  BY <1>2
<1>7. Cardinality({x}) = 1
  BY FS_Singleton
<1> DEFINE f == [i \in DOMAIN t.flags |-> IF i \in {x} THEN "deleted" ELSE t.flags[i]]
           ks == [i \in DOMAIN t.keys |-> IF i \in {x} THEN Null ELSE t.keys[i]]
           vs == [i \in DOMAIN t.vals |-> IF i \in {x} THEN Null ELSE t.vals[i]]
<1>8. kh_del(t, x) = [t EXCEPT !.flags = f, !.keys = ks, !.vals = vs, !.size = @ - 1]
  <2>1. /\ f = [t.flags EXCEPT ![x] = "deleted"] /\ ks = [t.keys EXCEPT ![x] = Null]
        /\ vs = [t.vals EXCEPT ![x] = Null]
    BY <1>6
  <2>. HIDE DEF f, ks, vs
  <2>. QED
    BY <1>1, <1>5, <2>1 DEF Tables
<1>9. kh_del(t, x) = [t EXCEPT !.flags = f, !.keys = ks, !.vals = vs,
                               !.size = @ - Cardinality({x})]
  BY <1>7, <1>8
<1>10. {x} \subseteq Live(t)
  OBVIOUS
<1>. QED
  BY <1>9, <1>10 DEF Deleted

-----------------------------------------------------------------------------
(* Dictionaries.                                                           *)

(* A table in which each key is once, and found.                           *)
HoldsOnce(t) == \A i, j \in Live(t) : t.keys[i] = t.keys[j] => i = j

(* The symbols hashed by their addresses h.                                *)
By(h) == [hash |-> h, name |-> [k \in Key |-> k]]

Fine(h, t) ==
  /\ h \in [Key -> Hashes]
  /\ WellFormed(Key, Val, t)
  /\ \A i \in Live(t) : t.vals[i] \in Val
  /\ HoldsOnce(t)
  /\ \A i \in Live(t) : Reached(By(h), t, i)

(* The keys that a dictionary-for-each has not come to.                    *)
Ahead == {dict.keys[i] : i \in {j \in Live(dict) : j >= walk.at}}

(* As long as no key is set, what has been seen and what lies ahead make   *)
(* up the goal, and have no key in common.                                 *)
WalkInv ==
  /\ walk \in [on : BOOLEAN, at : Nat, seen : SUBSET Key, goal : SUBSET Key,
               quiet : BOOLEAN, again : BOOLEAN]
  /\ walk.on /\ walk.quiet =>
       /\ ~walk.again
       /\ walk.goal = walk.seen \cup Ahead /\ walk.seen \cap Ahead = {}

IInv == Fine(hash, dict) /\ WalkInv

-----------------------------------------------------------------------------
(* What a table holds.                                                     *)

BucketOf(t, k) == CHOOSE i \in Live(t) : t.keys[i] = k

Content(t) == [k \in Keys(t) |-> t.vals[BucketOf(t, k)]]

LEMMA ContentAt ==
  ASSUME NEW t, HoldsOnce(t), NEW i \in Live(t)
  PROVE  t.keys[i] \in Keys(t) /\ Content(t)[t.keys[i]] = t.vals[i]
<1>1. t.keys[i] \in Keys(t)
  BY DEF Keys
<1>2. BucketOf(t, t.keys[i]) = i
  BY DEF BucketOf, HoldsOnce
<1>. QED
  BY <1>1, <1>2 DEF Content

(* A function that is what the buckets say is the content.                 *)
LEMMA ContentIs ==
  ASSUME NEW t, HoldsOnce(t), NEW f, f = [k \in DOMAIN f |-> f[k]],
         DOMAIN f = Keys(t), \A i \in Live(t) : f[t.keys[i]] = t.vals[i]
  PROVE  Content(t) = f
<1>1. \A k \in Keys(t) : Content(t)[k] = f[k]
  <2>1. SUFFICES ASSUME NEW k \in Keys(t)
                 PROVE  Content(t)[k] = f[k]
    OBVIOUS
  <2>2. PICK i \in Live(t) : k = t.keys[i]
    BY DEF Keys
  <2>. QED
    BY <2>2, ContentAt
<1>2. Content(t) = [k \in Keys(t) |-> Content(t)[k]]
  BY DEF Content
<1>. HIDE DEF Content
<1>. QED
  BY <1>1, <1>2

LEMMA CopiedContent ==
  ASSUME NEW t, NEW u, Copied(t, u), HoldsOnce(t)
  PROVE  HoldsOnce(u) /\ Keys(u) = Keys(t) /\ Content(u) = Content(t)
<1>1. PICK g \in [Live(t) -> Live(u)] :
        /\ \A b, c \in Live(t) : g[b] = g[c] => b = c
        /\ \A i \in Live(u) : \E b \in Live(t) : g[b] = i
        /\ \A b \in Live(t) : u.keys[g[b]] = t.keys[b] /\ u.vals[g[b]] = t.vals[b]
  BY DEF Copied
<1>2. HoldsOnce(u)
  <2>1. SUFFICES ASSUME NEW i \in Live(u), NEW j \in Live(u), u.keys[i] = u.keys[j]
                 PROVE  i = j
    BY DEF HoldsOnce
  <2>2. PICK b \in Live(t) : g[b] = i
    BY <1>1
  <2>3. PICK c \in Live(t) : g[c] = j
    BY <1>1
  <2>4. t.keys[b] = t.keys[c]
    BY <1>1, <2>1, <2>2, <2>3
  <2>. QED
    BY <2>2, <2>3, <2>4 DEF HoldsOnce
<1>3. Keys(u) = Keys(t)
  <2>1. ASSUME NEW k \in Keys(u) PROVE k \in Keys(t)
    <3>1. PICK i \in Live(u) : k = u.keys[i]
      BY DEF Keys
    <3>2. PICK b \in Live(t) : g[b] = i
      BY <1>1
    <3>. QED
      BY <1>1, <3>1, <3>2 DEF Keys
  <2>2. ASSUME NEW k \in Keys(t) PROVE k \in Keys(u)
    <3>1. PICK b \in Live(t) : k = t.keys[b]
      BY DEF Keys
    <3>2. g[b] \in Live(u) /\ k = u.keys[g[b]]
      BY <1>1, <3>1
    <3>. QED
      BY <3>2 DEF Keys
  <2>. QED
    BY <2>1, <2>2
<1>4. \A i \in Live(u) : Content(t)[u.keys[i]] = u.vals[i]
  <2>1. SUFFICES ASSUME NEW i \in Live(u)
                 PROVE  Content(t)[u.keys[i]] = u.vals[i]
    OBVIOUS
  <2>2. PICK b \in Live(t) : g[b] = i
    BY <1>1
  <2>3. u.keys[i] = t.keys[b] /\ u.vals[i] = t.vals[b]
    BY <1>1, <2>2
  <2>. QED
    BY <2>3, ContentAt
<1>5. DOMAIN Content(t) = Keys(u) /\ Content(t) = [k \in DOMAIN Content(t) |-> Content(t)[k]]
  BY <1>3 DEF Content
<1>6. Content(u) = Content(t)
  <2>. HIDE DEF Content
  <2>. QED
    BY <1>2, <1>4, <1>5, ContentIs
<1>. QED
  BY <1>2, <1>3, <1>6

(* The addresses of symbols make a hash function.                          *)
LEMMA Addresses ==
  ASSUME NEW h \in [Key -> Hashes]
  PROVE  /\ Hashing(By(h), Key)
         /\ \A j, k \in Key : By(h).name[j] = By(h).name[k] <=> j = k
<1>1. Hashes \subseteq Int
  BY HashesAreInts
<1>. QED
  BY <1>1 DEF By, Hashing

LEMMA NotTooLarge ==
  ASSUME NEW h, NEW t, Fine(h, t)
  PROVE  t.size < 2 ^ 22
<1>1. WellFormed(Key, Val, t) /\ HoldsOnce(t)
  BY DEF Fine
<1> DEFINE f == [i \in Live(t) |-> t.keys[i]]
<1>2. f \in [Live(t) -> Key]
  BY <1>1 DEF WellFormed
<1>3. \A i, j \in Live(t) : f[i] = f[j] => i = j
  BY <1>1 DEF HoldsOnce
<1>4. f \in Injection(Live(t), Key)
  <2>. HIDE DEF f
  <2>. QED
    BY <1>2, <1>3, Fun_IsInj
<1>5. IsFiniteSet(Key) /\ Cardinality(Key) < 2 ^ 22
  BY FewKeys
<1>6. Cardinality(Live(t)) <= Cardinality(Key) /\ Cardinality(Key) \in Nat
  BY <1>4, <1>5, FS_Injection, FS_CardinalityType
<1>7. t.size = Cardinality(Live(t)) /\ t.size \in Nat
  BY <1>1, TableParts DEF WellFormed
<1>8. 2 ^ 22 \in Nat
  <2>1. 22 \in 0 .. 30
    OBVIOUS
  <2>. QED
    BY <2>1, PowersOfTwo, Zenon
<1> DEFINE p == 2 ^ 22
<1>9. Cardinality(Key) < p /\ p \in Nat
  BY <1>5, <1>8
<1>. HIDE DEF p
<1>10. t.size < p
  BY <1>6, <1>7, <1>9
<1>. QED
  BY <1>10 DEF p

(* dictionary-ref finds what the dictionary holds.                         *)
LEMMA FindsContent ==
  ASSUME NEW h, NEW t, Fine(h, t)
  PROVE  /\ \A k \in Key : kh_get(By(h), t, k) # t.n_buckets <=> k \in Keys(t)
         /\ \A k \in Keys(t) : /\ k \in Key /\ kh_get(By(h), t, k) \in Live(t)
                               /\ t.keys[kh_get(By(h), t, k)] = k
                               /\ t.vals[kh_get(By(h), t, k)] = Content(t)[k]
<1>1. /\ h \in [Key -> Hashes] /\ WellFormed(Key, Val, t) /\ HoldsOnce(t)
      /\ \A i \in Live(t) : Reached(By(h), t, i)
  BY DEF Fine
<1>2. /\ Hashing(By(h), Key)
      /\ \A j, k \in Key : By(h).name[j] = By(h).name[k] <=> j = k
  BY <1>1, Addresses
<1>3. \A i \in Live(t) : t.keys[i] \in Key
  BY <1>1 DEF WellFormed
<1>4. ASSUME NEW k \in Key, kh_get(By(h), t, k) # t.n_buckets
      PROVE  kh_get(By(h), t, k) \in Live(t) /\ t.keys[kh_get(By(h), t, k)] = k
  <2>1. /\ kh_get(By(h), t, k) \in Live(t)
        /\ By(h).name[t.keys[kh_get(By(h), t, k)]] = By(h).name[k]
    BY <1>1, <1>2, <1>4, GetFindsEqual
  <2>. QED
    BY <1>2, <1>3, <2>1
<1>5. ASSUME NEW k \in Keys(t)
      PROVE  k \in Key /\ kh_get(By(h), t, k) # t.n_buckets
  <2>1. PICK b \in Live(t) : k = t.keys[b]
    BY DEF Keys
  <2>2. k \in Key /\ By(h).name[t.keys[b]] = By(h).name[k] /\ Reached(By(h), t, b)
    BY <1>1, <1>3, <2>1
  <2>3. kh_get(By(h), t, k) # t.n_buckets
    BY <1>1, <1>2, <2>2, GetFindsReached
  <2>. QED
    BY <2>2, <2>3
<1>6. \A k \in Key : kh_get(By(h), t, k) # t.n_buckets => k \in Keys(t)
  BY <1>4 DEF Keys
<1>7. \A k \in Keys(t) :
        t.vals[kh_get(By(h), t, k)] = Content(t)[k]
  BY <1>1, <1>4, <1>5, ContentAt
<1>. QED
  BY <1>4, <1>5, <1>6, <1>7

-----------------------------------------------------------------------------
(* The operations.                                                         *)

LEMMA EmptyIsFine ==
  ASSUME NEW h \in [Key -> Hashes]
  PROVE  Fine(h, kh_init) /\ Keys(kh_init) = {}
<1>1. WellFormed(Key, Val, kh_init) /\ Live(kh_init) = {}
  BY EmptyIsWellFormed
<1>. QED
  BY <1>1 DEF Fine, HoldsOnce, Keys

(* pic_dict_set changes the content at its key alone, wherever it puts it. *)
LEMMA SetKeeps ==
  ASSUME NEW h, NEW t, Fine(h, t), NEW k \in Key, NEW v \in Val
  PROVE  LET p == kh_put(By(h), t, k)
             z == [p.t EXCEPT !.vals[p.x] = v]
         IN  /\ Fine(h, z) /\ Keys(z) = Keys(t) \cup {k}
             /\ Content(z) = [j \in Keys(t) \cup {k} |-> IF j = k THEN v ELSE Content(t)[j]]
<1> DEFINE H == By(h)
           u == MakeRoom(H, t)
           p == kh_put(H, t, k)
           w == p.t
           x == p.x
           z == [w EXCEPT !.vals[x] = v]
<1>1. /\ h \in [Key -> Hashes] /\ WellFormed(Key, Val, t) /\ HoldsOnce(t)
      /\ \A i \in Live(t) : t.vals[i] \in Val /\ Reached(H, t, i)
  BY DEF Fine
<1>2. Hashing(H, Key) /\ \A i, j \in Key : H.name[i] = H.name[j] <=> i = j
  BY <1>1, Addresses
<1>3. t.size < 2 ^ 22
  BY NotTooLarge
<1>. HIDE DEF H
<1>4. LET r == MakeRoom(H, t)
      IN  /\ WellFormed(Key, Val, r) /\ Copied(t, r)
          /\ r = t \/ \A i \in Live(r) : Reached(H, r, i)
          /\ r.size = t.size /\ r.n_occupied < r.upper_bound
  BY <1>1, <1>2, <1>3, MakeRoomMakesRoom
<1>5. p = PutAt(u, k, Site(H, u, k))
  BY DEF kh_put
<1>. HIDE DEF p
<1>6. /\ WellFormed(Key, Val, u) /\ Copied(t, u) /\ u.n_occupied < u.upper_bound
      /\ u = t \/ \A i \in Live(u) : Reached(H, u, i)
  BY <1>4
<1>7. LET q == PutAt(u, k, Site(H, u, k))
      IN  \/ /\ q.ret = 0 /\ q.t = u
             /\ q.x = kh_get(H, u, k) /\ q.x # u.n_buckets
          \/ /\ q.ret # 0 /\ kh_get(H, u, k) = u.n_buckets
             /\ Added(u, q.t, q.x, k) /\ q.t.keys[q.x] = k
             /\ WellFormed(Key, Val, q.t) /\ Reached(H, q.t, q.x)
  <2>. HIDE DEF u
  <2>. QED
    BY <1>2, <1>6, PutWithRoom
<1>. HIDE DEF u
<1>8. \A i \in Live(u) : Reached(H, u, i)
  BY <1>1, <1>6
<1>9. HoldsOnce(u) /\ Keys(u) = Keys(t) /\ Content(u) = Content(t)
  BY <1>1, <1>6, CopiedContent
<1>10. \A i \in Live(u) : u.vals[i] \in Val /\ u.keys[i] \in Key
  <2>1. PICK g \in [Live(t) -> Live(u)] :
          /\ \A i \in Live(u) : \E b \in Live(t) : g[b] = i
          /\ \A b \in Live(t) : u.keys[g[b]] = t.keys[b] /\ u.vals[g[b]] = t.vals[b]
    BY <1>6 DEF Copied
  <2>2. \A i \in Live(u) : u.vals[i] \in Val
    BY <1>1, <2>1
  <2>. QED
    BY <1>6, <2>2 DEF WellFormed
<1>11. /\ WellFormed(Key, Val, w) /\ x \in Live(w) /\ w.keys[x] = k
       /\ Live(w) = Live(u) \cup {x} /\ w.vals = u.vals
       /\ \A i \in Live(u) : w.keys[i] = u.keys[i]
       /\ \A i \in Live(u) : i # x => u.keys[i] # k
       /\ \A i \in Live(w) : Reached(H, w, i)
  <2>1. CASE p.ret = 0
    <3>1. w = u /\ x = kh_get(H, u, k) /\ x # u.n_buckets
      BY <1>5, <1>7, <2>1
    <3>2. kh_get(H, u, k) \in Live(u) /\ H.name[u.keys[kh_get(H, u, k)]] = H.name[k]
      BY <1>2, <1>6, <3>1, GetFindsEqual
    <3>3. x \in Live(u) /\ u.keys[x] = k
      BY <1>2, <1>10, <3>1, <3>2
    <3>4. Live(u) = Live(u) \cup {x}
      BY <3>3
    <3>5. \A i \in Live(u) : i # x => u.keys[i] # k
      BY <1>9, <3>3 DEF HoldsOnce
    <3>. QED
      BY <1>6, <1>8, <3>1, <3>3, <3>4, <3>5
  <2>2. CASE p.ret # 0
    <3>1. /\ kh_get(H, u, k) = u.n_buckets /\ Added(u, w, x, k) /\ w.keys[x] = k
          /\ WellFormed(Key, Val, w) /\ Reached(H, w, x)
      BY <1>5, <1>7, <2>2
    <3>. HIDE DEF w, x
    <3>2. \A r : Added(u, r, x, k) =>
            /\ Live(r) = Live(u) \cup {x}
            /\ r.keys[x] = k /\ \A i \in Live(u) : i # x /\ r.keys[i] = u.keys[i]
      BY <1>6, AddedLive
    <3>3. Live(w) = Live(u) \cup {x} /\ \A i \in Live(u) : i # x /\ w.keys[i] = u.keys[i]
      BY <3>1, <3>2
    <3>4. w.vals = u.vals
      BY <3>1 DEF Added
    <3>5. \A i \in Live(u) : u.keys[i] # k
      <4>1. SUFFICES ASSUME NEW i \in Live(u), u.keys[i] = k
                     PROVE  FALSE
        OBVIOUS
      <4>2. H.name[u.keys[i]] = H.name[k] /\ Reached(H, u, i)
        BY <1>8, <4>1
      <4>3. kh_get(H, u, k) # u.n_buckets
        BY <1>2, <1>6, <4>2, GetFindsReached
      <4>. QED
        BY <3>1, <4>3
    <3>6. \A i \in Live(u) : Reached(H, w, i)
      BY <1>2, <1>6, <1>8, <3>1, StillReached
    <3>. QED
      BY <3>1, <3>3, <3>4, <3>5, <3>6
  <2>. QED
    BY <2>1, <2>2
<1>. HIDE DEF w, x
<1>12. LET r == [w EXCEPT !.vals[x] = v]
       IN  /\ WellFormed(Key, Val, r)
           /\ r.n_buckets = w.n_buckets /\ r.size = w.size /\ r.flags = w.flags
           /\ r.keys = w.keys /\ Live(r) = Live(w)
           /\ r.vals[x] = v /\ \A i \in Live(w) : i # x => r.vals[i] = w.vals[i]
  BY <1>11, ValueWritten
<1>13. /\ WellFormed(Key, Val, z) /\ z.n_buckets = w.n_buckets /\ z.flags = w.flags
       /\ z.keys = w.keys /\ Live(z) = Live(w)
       /\ z.vals[x] = v /\ \A i \in Live(w) : i # x => z.vals[i] = w.vals[i]
  BY <1>12
<1>. HIDE DEF z
<1>14. HoldsOnce(z)
  BY <1>9, <1>11, <1>13 DEF HoldsOnce
<1>15. \A i \in Live(z) : z.vals[i] \in Val
  BY <1>10, <1>11, <1>13
<1>16. \A i \in Live(z) : Reached(H, z, i)
  BY <1>11, <1>13 DEF Reached
<1>17. Fine(h, z)
  BY <1>1, <1>13, <1>14, <1>15, <1>16 DEF Fine, H
<1>18. Keys(z) = Keys(t) \cup {k}
  <2>1. Keys(z) = {z.keys[i] : i \in Live(u) \cup {x}}
    BY <1>11, <1>13 DEF Keys
  <2>2. z.keys[x] = k /\ \A i \in Live(u) : z.keys[i] = u.keys[i]
    BY <1>11, <1>13
  <2>3. Keys(z) = Keys(u) \cup {k}
    BY <2>1, <2>2 DEF Keys
  <2>. QED
    BY <1>9, <2>3
<1> DEFINE f == [j \in Keys(t) \cup {k} |-> IF j = k THEN v ELSE Content(t)[j]]
<1>19. \A i \in Live(z) : f[z.keys[i]] = z.vals[i]
  <2>1. SUFFICES ASSUME NEW i \in Live(z)
                 PROVE  f[z.keys[i]] = z.vals[i]
    OBVIOUS
  <2>2. CASE i = x
    BY <1>11, <1>13, <2>2
  <2>3. CASE i # x
    <3>1. /\ i \in Live(u) /\ z.keys[i] = u.keys[i] /\ z.vals[i] = u.vals[i]
          /\ u.keys[i] # k
      BY <1>11, <1>13, <2>3
    <3>2. u.keys[i] \in Keys(u) /\ Content(u)[u.keys[i]] = u.vals[i]
      BY <1>9, <3>1, ContentAt
    <3>. QED
      BY <1>9, <3>1, <3>2
  <2>. QED
    BY <2>2, <2>3
<1>20. f = [j \in DOMAIN f |-> f[j]] /\ DOMAIN f = Keys(z)
  BY <1>18
<1>21. Content(z) = f
  <2>. HIDE DEF f
  <2>. QED
    BY <1>14, <1>19, <1>20, ContentIs
<1>. QED
  BY <1>17, <1>18, <1>21 DEF z, w, x, p, H

(* Deleting a key takes it out and nothing else.                           *)
LEMMA DeleteKeeps ==
  ASSUME NEW h, NEW t, Fine(h, t), NEW k \in Keys(t)
  PROVE  LET x == kh_get(By(h), t, k)
             z == kh_del(t, x)
         IN  /\ Fine(h, z)
             /\ x \in Live(t) /\ t.keys[x] = k /\ Live(z) = Live(t) \ {x}
             /\ \A i \in Live(z) : z.keys[i] = t.keys[i]
             /\ Keys(z) = Keys(t) \ {k}
             /\ Content(z) = [j \in Keys(t) \ {k} |-> Content(t)[j]]
<1> DEFINE x == kh_get(By(h), t, k)
           z == kh_del(t, x)
<1>1. /\ h \in [Key -> Hashes] /\ WellFormed(Key, Val, t) /\ HoldsOnce(t)
      /\ \A i \in Live(t) : t.vals[i] \in Val /\ Reached(By(h), t, i)
  BY DEF Fine
<1>2. x \in Live(t) /\ t.keys[x] = k
  BY FindsContent
<1>. HIDE DEF x
<1>3. Deleted(t, z, {x})
  BY <1>1, <1>2, DelDeletes
<1>. HIDE DEF z
<1>4. /\ WellFormed(Key, Val, z) /\ Live(z) = Live(t) \ {x}
      /\ \A i \in Live(z) : z.keys[i] = t.keys[i] /\ z.vals[i] = t.vals[i]
  <2>1. \A u : Deleted(t, u, {x}) =>
          /\ WellFormed(Key, Val, u)
          /\ u.n_buckets = t.n_buckets
          /\ Live(u) = Live(t) \ {x}
          /\ \A i \in Live(u) : u.keys[i] = t.keys[i] /\ u.vals[i] = t.vals[i]
          /\ \A i \in 0 .. t.n_buckets - 1 : u.flags[i] = "empty" <=> t.flags[i] = "empty"
    BY <1>1, DeletedParts
  <2>. QED
    BY <1>3, <2>1
<1>5. HoldsOnce(z)
  BY <1>1, <1>4 DEF HoldsOnce
<1>6. \A i \in Live(z) : Reached(By(h), z, i)
  <2>1. Hashing(By(h), Key)
    BY <1>1, Addresses
  <2>2. \A i \in Live(z) : Reached(By(h), t, i)
    BY <1>1, <1>4
  <2>. QED
    BY <1>1, <1>3, <2>1, <2>2, DeletedReached
<1>7. Fine(h, z)
  BY <1>1, <1>4, <1>5, <1>6 DEF Fine
<1>8. Keys(z) = Keys(t) \ {k}
  <2>1. \A i \in Live(z) : t.keys[i] # k
    BY <1>1, <1>2, <1>4 DEF HoldsOnce
  <2>2. \A j \in Keys(t) \ {k} : \E i \in Live(z) : j = t.keys[i]
    BY <1>2, <1>4 DEF Keys
  <2>3. \A i \in Live(z) : z.keys[i] = t.keys[i] /\ i \in Live(t)
    BY <1>4
  <2>. QED
    BY <2>1, <2>2, <2>3 DEF Keys
<1> DEFINE f == [j \in Keys(t) \ {k} |-> Content(t)[j]]
<1>9. \A i \in Live(z) : f[z.keys[i]] = z.vals[i]
  <2>1. SUFFICES ASSUME NEW i \in Live(z)
                 PROVE  f[z.keys[i]] = z.vals[i]
    OBVIOUS
  <2>2. z.keys[i] = t.keys[i] /\ z.vals[i] = t.vals[i] /\ i \in Live(t)
    BY <1>4
  <2>3. z.keys[i] \in Keys(z)
    BY DEF Keys
  <2>4. Content(t)[t.keys[i]] = t.vals[i]
    BY <1>1, <2>2, ContentAt
  <2>. QED
    BY <1>8, <2>2, <2>3, <2>4
<1>10. f = [j \in DOMAIN f |-> f[j]] /\ DOMAIN f = Keys(z)
  BY <1>8
<1>11. Content(z) = f
  <2>. HIDE DEF f
  <2>. QED
    BY <1>5, <1>9, <1>10, ContentIs
<1>. QED
  BY <1>2, <1>4, <1>7, <1>8, <1>11 DEF z, x

-----------------------------------------------------------------------------
(* The invariant.                                                          *)

LEMMA MinOfBuckets ==
  ASSUME NEW n \in Nat, NEW S \in SUBSET (0 .. n - 1)
  PROVE  /\ Min(S \cup {n}) \in S \cup {n}
         /\ \A i \in S : Min(S \cup {n}) <= i
<1> DEFINE T == S \cup {n}
<1>1. T \in SUBSET Nat /\ T # {} /\ T \in SUBSET Int
  OBVIOUS
<1>2. PICK m \in T : \A i \in T : m <= i
  <2>. HIDE DEF T
  <2>. QED
    BY <1>1, LeastNatural
<1>3. Min(T) = m
  <2>. HIDE DEF T
  <2>. QED
    BY <1>1, <1>2, MinOf
<1>. QED
  BY <1>2, <1>3

(* What pic_dict_next finds next is the first of the buckets ahead.        *)
LEMMA NextIsAhead ==
  ASSUME NEW h, NEW t, Fine(h, t), NEW at \in Nat
  PROVE  LET i == NextAt(t, at)
         IN  /\ i \in Nat /\ t.n_buckets \in Nat
             /\ i # t.n_buckets => i \in Live(t) /\ i >= at
             /\ i = t.n_buckets => \A j \in Live(t) : ~(j >= at)
             /\ \A j \in Live(t) : j >= at => i <= j
<1> DEFINE S == {j \in Live(t) : j >= at}
<1>1. t.n_buckets \in Nat /\ Live(t) \subseteq 0 .. t.n_buckets - 1
  BY TableParts, LiveBuckets DEF Fine
<1>2. S \in SUBSET (0 .. t.n_buckets - 1)
  BY <1>1
<1>3. NextAt(t, at) = Min(S \cup {t.n_buckets})
  BY DEF NextAt
<1>4. /\ NextAt(t, at) \in S \cup {t.n_buckets}
      /\ \A j \in S : NextAt(t, at) <= j
  <2>. HIDE DEF S
  <2>1. /\ Min(S \cup {t.n_buckets}) \in S \cup {t.n_buckets}
        /\ \A j \in S : Min(S \cup {t.n_buckets}) <= j
    BY <1>1, <1>2, MinOfBuckets
  <2>. QED
    BY <1>3, <2>1
<1>. QED
  BY <1>1, <1>4

LEMMA InitIsFine == Init => IInv
<1>. SUFFICES ASSUME Init
              PROVE  IInv
  OBVIOUS
<1>1. Fine(hash, dict)
  BY EmptyIsFine DEF Init
<1>2. WalkInv
  BY DEF Init, NoWalk, WalkInv
<1>. QED
  BY <1>1, <1>2 DEF IInv

(* What a table holds is what is found in it.                              *)
FoundBy(h, t) ==
  LET at == [k \in Key |-> kh_get(By(h), t, k)]
  IN  [k \in {j \in Key : at[j] # t.n_buckets} |-> t.vals[at[k]]]

LEMMA FoundIsContent ==
  ASSUME NEW h, NEW t, Fine(h, t)
  PROVE  FoundBy(h, t) = Content(t)
<1> DEFINE at == [k \in Key |-> kh_get(By(h), t, k)]
<1>1. {j \in Key : at[j] # t.n_buckets} = Keys(t)
  BY FindsContent
<1>2. \A k \in Keys(t) : t.vals[at[k]] = Content(t)[k]
  BY FindsContent
<1>3. Content(t) = [k \in Keys(t) |-> Content(t)[k]]
  BY DEF Content
<1>4. FoundBy(h, t) = [k \in {j \in Key : at[j] # t.n_buckets} |-> t.vals[at[k]]]
  BY DEF FoundBy
<1>. HIDE DEF at, Content
<1>. QED
  BY <1>1, <1>2, <1>3, <1>4

(* Found and Ref in terms of the lemmas above.                             *)
LEMMA Abbreviations ==
  /\ Table = By(hash)
  /\ \A t, k : Ref(t, k) = kh_get(By(hash), t, k)
  /\ Fine(hash, dict) => Found(dict) = Content(dict)
<1>1. Table = By(hash)
  BY DEF Table, By
<1>2. \A t, k : Ref(t, k) = kh_get(By(hash), t, k)
  BY <1>1 DEF Ref
<1>3. ASSUME Fine(hash, dict)
      PROVE  Found(dict) = Content(dict)
  BY <1>3, FoundIsContent DEF Found, Ref, Table, FoundBy, By
<1>. QED
  BY <1>1, <1>2, <1>3

(* What a step does to the content.                                        *)
LEMMA SetStep ==
  ASSUME NEW k \in Key, NEW v \in Val, IInv, DictionarySet(k, v)
  PROVE  /\ Fine(hash', dict') /\ WalkInv'
         /\ Content(dict') = [j \in DOMAIN Content(dict) \cup {k} |->
                                IF j = k THEN v ELSE Content(dict)[j]]
<1>1. Fine(hash, dict) /\ hash' = hash /\ Table = By(hash)
  BY Abbreviations DEF IInv, DictionarySet
<1>2. dict' = [kh_put(By(hash), dict, k).t EXCEPT !.vals[kh_put(By(hash), dict, k).x] = v]
  BY <1>1 DEF DictionarySet, Set
<1>3. LET p == kh_put(By(hash), dict, k)
          z == [p.t EXCEPT !.vals[p.x] = v]
      IN  /\ Fine(hash, z) /\ Keys(z) = Keys(dict) \cup {k}
          /\ Content(z) = [j \in Keys(dict) \cup {k} |->
                             IF j = k THEN v ELSE Content(dict)[j]]
  BY <1>1, SetKeeps
<1>4. DOMAIN Content(dict) = Keys(dict)
  BY DEF Content
<1>5. /\ Fine(hash', dict')
      /\ Content(dict') = [j \in DOMAIN Content(dict) \cup {k} |->
                             IF j = k THEN v ELSE Content(dict)[j]]
  BY <1>1, <1>2, <1>3, <1>4
<1>6. WalkInv'
  <2>1. walk' = Disturbed(walk)
    BY DEF DictionarySet
  <2>2. walk \in [on : BOOLEAN, at : Nat, seen : SUBSET Key, goal : SUBSET Key,
                  quiet : BOOLEAN, again : BOOLEAN]
    BY DEF IInv, WalkInv
  <2>3. CASE walk.on
    <3>1. walk' = [on |-> TRUE, at |-> walk.at, seen |-> {}, goal |-> {}, quiet |-> FALSE,
                   again |-> FALSE]
      BY <2>1, <2>3 DEF Disturbed, NoWalk
    <3>2. walk.at \in Nat
      BY <2>2
    <3>. QED
      BY <3>1, <3>2 DEF WalkInv
  <2>4. CASE ~walk.on
    <3>1. walk' = walk
      BY <2>1, <2>4 DEF Disturbed
    <3>. QED
      BY <2>2, <2>4, <3>1 DEF WalkInv
  <2>. QED
    BY <2>3, <2>4
<1>. QED
  BY <1>5, <1>6

LEMMA DeleteStep ==
  ASSUME NEW k \in Key, IInv, DictionaryDelete(k)
  PROVE  /\ Fine(hash', dict') /\ WalkInv' /\ k \in DOMAIN Content(dict)
         /\ Content(dict') = [j \in DOMAIN Content(dict) \ {k} |-> Content(dict)[j]]
<1>1. Fine(hash, dict) /\ hash' = hash /\ Ref(dict, k) = kh_get(By(hash), dict, k)
  BY Abbreviations DEF IInv, DictionaryDelete
<1>2. k \in Keys(dict)
  BY <1>1, FindsContent DEF DictionaryDelete, Has
<1>3. dict' = kh_del(dict, kh_get(By(hash), dict, k))
  BY <1>1 DEF DictionaryDelete
<1>4. LET x == kh_get(By(hash), dict, k)
          z == kh_del(dict, x)
      IN  /\ Fine(hash, z)
          /\ x \in Live(dict) /\ dict.keys[x] = k /\ Live(z) = Live(dict) \ {x}
          /\ \A i \in Live(z) : z.keys[i] = dict.keys[i]
          /\ Keys(z) = Keys(dict) \ {k}
          /\ Content(z) = [j \in Keys(dict) \ {k} |-> Content(dict)[j]]
  BY <1>1, <1>2, DeleteKeeps
<1>5. DOMAIN Content(dict) = Keys(dict)
  BY DEF Content
<1>6. /\ Fine(hash', dict')
      /\ Content(dict') = [j \in DOMAIN Content(dict) \ {k} |-> Content(dict)[j]]
  BY <1>1, <1>3, <1>4, <1>5
<1> DEFINE x == kh_get(By(hash), dict, k)
<1>7. /\ x \in Live(dict) /\ dict.keys[x] = k /\ Live(dict') = Live(dict) \ {x}
      /\ \A i \in Live(dict') : dict'.keys[i] = dict.keys[i]
  BY <1>3, <1>4
<1>. HIDE DEF x
<1>8. HoldsOnce(dict)
  BY <1>1 DEF Fine
<1>9. WalkInv'
  <2>1. walk' = [walk EXCEPT !.goal = IF k \in walk.seen THEN walk.goal ELSE walk.goal \ {k}]
    BY DEF DictionaryDelete
  <2>2. walk \in [on : BOOLEAN, at : Nat, seen : SUBSET Key, goal : SUBSET Key,
                  quiet : BOOLEAN, again : BOOLEAN]
    BY DEF IInv, WalkInv
  <2>3. /\ walk' \in [on : BOOLEAN, at : Nat, seen : SUBSET Key, goal : SUBSET Key,
                      quiet : BOOLEAN, again : BOOLEAN]
        /\ walk'.on = walk.on /\ walk'.at = walk.at /\ walk'.seen = walk.seen
        /\ walk'.quiet = walk.quiet /\ walk'.again = walk.again
        /\ walk'.goal = IF k \in walk.seen THEN walk.goal ELSE walk.goal \ {k}
    BY <2>1, <2>2
  <2>4. Ahead' = Ahead \ {k}
    <3>1. Ahead' = {dict'.keys[i] : i \in {j \in Live(dict') : j >= walk.at}}
      BY <2>3 DEF Ahead
    <3>2. \A i \in Live(dict) : i # x => dict.keys[i] # k
      BY <1>7, <1>8 DEF HoldsOnce
    <3>. QED
      BY <1>7, <3>1, <3>2 DEF Ahead
  <2>5. ASSUME walk.on, walk.quiet
        PROVE  /\ ~walk'.again
               /\ walk'.goal = walk'.seen \cup Ahead' /\ walk'.seen \cap Ahead' = {}
    <3>1. /\ ~walk.again
          /\ walk.goal = walk.seen \cup Ahead /\ walk.seen \cap Ahead = {}
      BY <2>5 DEF IInv, WalkInv
    <3>2. ~walk'.again
      BY <2>3, <3>1
    <3>. QED
      BY <2>3, <2>4, <3>1, <3>2
  <2>6. walk'.on /\ walk'.quiet =>
          /\ ~walk'.again
          /\ walk'.goal = walk'.seen \cup Ahead' /\ walk'.seen \cap Ahead' = {}
    BY <2>3, <2>5
  <2>. QED
    BY <2>3, <2>6 DEF WalkInv
<1>. QED
  BY <1>2, <1>5, <1>6, <1>9

LEMMA ForEachStep ==
  ASSUME IInv, ForEachStart \/ ForEachCall \/ ForEachEnd
  PROVE  hash' = hash /\ dict' = dict /\ WalkInv'
<1>1. hash' = hash /\ dict' = dict
  BY DEF ForEachStart, ForEachCall, ForEachEnd
<1>2. /\ walk \in [on : BOOLEAN, at : Nat, seen : SUBSET Key, goal : SUBSET Key,
                   quiet : BOOLEAN, again : BOOLEAN]
      /\ Fine(hash, dict) /\ HoldsOnce(dict)
  BY DEF IInv, WalkInv, Fine
<1>3. /\ dict.n_buckets \in Nat /\ Live(dict) \subseteq 0 .. dict.n_buckets - 1
      /\ \A i \in Live(dict) : dict.keys[i] \in Key
  <2>1. WellFormed(Key, Val, dict)
    BY <1>2 DEF Fine
  <2>. QED
    BY <2>1, TableParts, LiveBuckets DEF WellFormed
<1>4. CASE ForEachStart
  <2>1. walk' = [NoWalk EXCEPT !.on = TRUE, !.goal = Keys(dict)]
    BY <1>4 DEF ForEachStart
  <2>2. walk' = [on |-> TRUE, at |-> 0, seen |-> {}, goal |-> Keys(dict), quiet |-> TRUE,
                 again |-> FALSE]
    BY <2>1 DEF NoWalk
  <2>3. Keys(dict) \in SUBSET Key
    BY <1>3 DEF Keys
  <2>4. Ahead' = Keys(dict)
    <3>1. Ahead' = {dict.keys[i] : i \in {j \in Live(dict) : j >= 0}}
      BY <1>1, <2>2 DEF Ahead
    <3>2. {j \in Live(dict) : j >= 0} = Live(dict)
      BY <1>3
    <3>. QED
      BY <3>1, <3>2 DEF Keys
  <2>. QED
    BY <1>1, <2>2, <2>3, <2>4 DEF WalkInv
<1>5. CASE ForEachEnd
  <2>1. walk' = [on |-> FALSE, at |-> 0, seen |-> {}, goal |-> {}, quiet |-> TRUE,
                 again |-> FALSE]
    BY <1>5 DEF ForEachEnd, NoWalk
  <2>. QED
    BY <1>1, <2>1 DEF WalkInv
<1>6. CASE ForEachCall
  <2> DEFINE i == NextAt(dict, walk.at)
  <2>1. /\ walk.on /\ i # dict.n_buckets
        /\ walk' = [walk EXCEPT !.at = i + 1,
                      !.seen  = IF walk.quiet THEN walk.seen \cup {dict.keys[i]} ELSE walk.seen,
                      !.again = walk.again \/ dict.keys[i] \in walk.seen]
    BY <1>6 DEF ForEachCall
  <2>2. walk.at \in Nat
    BY <1>2
  <2>3. /\ i \in Nat /\ i \in Live(dict) /\ i >= walk.at
        /\ \A j \in Live(dict) : j >= walk.at => i <= j
    BY <1>2, <2>1, <2>2, NextIsAhead
  <2>. HIDE DEF i
  <2>4. /\ walk' \in [on : BOOLEAN, at : Nat, seen : SUBSET Key, goal : SUBSET Key,
                      quiet : BOOLEAN, again : BOOLEAN]
        /\ walk'.on = walk.on /\ walk'.at = i + 1 /\ walk'.goal = walk.goal
        /\ walk'.quiet = walk.quiet
        /\ walk.quiet => walk'.seen = walk.seen \cup {dict.keys[i]}
        /\ walk'.again = (walk.again \/ dict.keys[i] \in walk.seen)
    <3> DEFINE s == IF walk.quiet THEN walk.seen \cup {dict.keys[i]} ELSE walk.seen
               a == walk.again \/ dict.keys[i] \in walk.seen
    <3>1. /\ walk.on \in BOOLEAN /\ walk.seen \in SUBSET Key /\ walk.goal \in SUBSET Key
          /\ walk.quiet \in BOOLEAN
          /\ walk = [on |-> walk.on, at |-> walk.at, seen |-> walk.seen, goal |-> walk.goal,
                     quiet |-> walk.quiet, again |-> walk.again]
      BY <1>2
    <3>2. i + 1 \in Nat /\ dict.keys[i] \in Key
      BY <1>3, <2>3
    <3>3. s \in SUBSET Key
      BY <3>1, <3>2
    <3>4. a \in BOOLEAN
      OBVIOUS
    <3>5. walk' = [walk EXCEPT !.at = i + 1, !.seen = s, !.again = a]
      BY <2>1
    <3>6. walk.quiet => s = walk.seen \cup {dict.keys[i]}
      OBVIOUS
    <3>. HIDE DEF s, a
    <3>7. walk' = [on |-> walk.on, at |-> i + 1, seen |-> s, goal |-> walk.goal,
                   quiet |-> walk.quiet, again |-> a]
      BY <3>1, <3>5
    <3>8. walk' \in [on : BOOLEAN, at : Nat, seen : SUBSET Key, goal : SUBSET Key,
                     quiet : BOOLEAN, again : BOOLEAN]
      BY <3>1, <3>2, <3>3, <3>4, <3>7, Zenon
    <3>9. walk'.again = a
      BY <3>7, Zenon
    <3>. QED
      BY <3>6, <3>7, <3>8, <3>9, Zenon DEF a
  <2>5. Ahead = {dict.keys[i]} \cup Ahead' /\ dict.keys[i] \notin Ahead'
    <3>1. Ahead' = {dict.keys[j] : j \in {l \in Live(dict) : l >= i + 1}}
      BY <1>1, <2>4 DEF Ahead
    <3>2. {l \in Live(dict) : l >= walk.at} = {i} \cup {l \in Live(dict) : l >= i + 1}
      BY <1>3, <2>2, <2>3
    <3>3. Ahead = {dict.keys[i]} \cup Ahead'
      BY <3>1, <3>2 DEF Ahead
    <3>4. dict.keys[i] \notin Ahead'
      <4>1. SUFFICES ASSUME NEW j \in Live(dict), j >= i + 1, dict.keys[j] = dict.keys[i]
                     PROVE  FALSE
        BY <3>1
      <4>2. j = i
        BY <1>2, <2>3, <4>1 DEF HoldsOnce
      <4>. QED
        BY <2>3, <4>1, <4>2
    <3>. QED
      BY <3>3, <3>4
  <2>6. ASSUME walk.quiet
        PROVE  /\ ~walk'.again
               /\ walk'.goal = walk'.seen \cup Ahead' /\ walk'.seen \cap Ahead' = {}
    <3>1. /\ ~walk.again
          /\ walk.goal = walk.seen \cup Ahead /\ walk.seen \cap Ahead = {}
      BY <2>1, <2>6 DEF IInv, WalkInv
    <3>2. dict.keys[i] \notin walk.seen
      BY <2>5, <3>1
    <3>3. ~walk'.again
      BY <2>4, <3>1, <3>2, Zenon
    <3>4. walk'.seen = walk.seen \cup {dict.keys[i]} /\ walk'.goal = walk.goal
      BY <2>4, <2>6
    <3>. QED
      BY <2>5, <3>1, <3>3, <3>4
  <2>7. walk'.on /\ walk'.quiet =>
          /\ ~walk'.again
          /\ walk'.goal = walk'.seen \cup Ahead' /\ walk'.seen \cap Ahead' = {}
    BY <2>4, <2>6
  <2>. QED
    BY <1>1, <2>4, <2>7, Zenon DEF WalkInv
<1>. QED
  BY <1>1, <1>4, <1>5, <1>6

LEMMA NextKeepsIInv == IInv /\ [Next]_vars => IInv'
<1>. SUFFICES ASSUME IInv, [Next]_vars
              PROVE  IInv'
  OBVIOUS
<1>1. ASSUME NEW k \in Key, DictionaryDelete(k)
      PROVE  IInv'
  BY <1>1, DeleteStep DEF IInv
<1>2. ASSUME NEW k \in Key, NEW v \in Val, DictionarySet(k, v)
      PROVE  IInv'
  BY <1>2, SetStep DEF IInv
<1>3. CASE ForEachStart \/ ForEachCall \/ ForEachEnd
  BY <1>3, ForEachStep DEF IInv
<1>4. CASE UNCHANGED vars
  BY <1>4 DEF vars, IInv, WalkInv, Ahead
<1>. QED
  BY <1>1, <1>2, <1>3, <1>4 DEF Next

(* The table is well formed, each key is in it once and found, and what a  *)
(* dictionary-for-each has called its procedure with is what lay before    *)
(* its index.                                                              *)
THEOREM DictionaryInvariant == Spec => []IInv
<1>1. Init => IInv
  BY InitIsFine
<1>2. IInv /\ [Next]_vars => IInv'
  BY NextKeepsIInv
<1>. QED
  BY <1>1, <1>2, PTL DEF Spec

(* ProbesEnd: however long keys are set and deleted, the table's counts    *)
(* are true and some bucket is empty, so every search of it ends.          *)
THEOREM EveryProbeEnds == Spec => []ProbesEnd
<1>1. IInv => ProbesEnd
  BY WellFormedIsSound DEF IInv, Fine, ProbesEnd
<1>. QED
  BY <1>1, DictionaryInvariant, PTL

(* CalledOnce: while the procedure of a dictionary-for-each deletes keys   *)
(* but sets none, it is called once with each key that was there and not   *)
(* deleted first.                                                          *)
THEOREM ForEachCallsOnce == Spec => []CalledOnce
<1>1. IInv => CalledOnce
  <2>. SUFFICES ASSUME IInv, walk.on, walk.quiet
                PROVE  /\ ~walk.again /\ walk.seen \subseteq walk.goal
                       /\ NextAt(dict, walk.at) = dict.n_buckets => walk.seen = walk.goal
    BY DEF CalledOnce
  <2>1. /\ ~walk.again /\ walk.at \in Nat
        /\ walk.goal = walk.seen \cup Ahead /\ walk.seen \cap Ahead = {}
    BY DEF IInv, WalkInv
  <2>2. ASSUME NextAt(dict, walk.at) = dict.n_buckets
        PROVE  Ahead = {}
    <3>1. Fine(hash, dict)
      BY DEF IInv
    <3>2. \A j \in Live(dict) : ~(j >= walk.at)
      BY <2>1, <2>2, <3>1, NextIsAhead
    <3>. QED
      BY <3>2 DEF Ahead
  <2>. QED
    BY <2>1, <2>2
<1>. QED
  BY <1>1, DictionaryInvariant, PTL

(* ImplementsMap: what dictionary-ref finds is a finite map, which setting *)
(* a key and deleting one change at that key alone, and nothing else       *)
(* changes; a rehash of the table shows in nothing it finds.               *)
THEOREM DictionaryIsAMap == Spec => ImplementsMap
<1>1. Init => Map!Init
  <2>. SUFFICES ASSUME Init
                PROVE  Map!Init
    OBVIOUS
  <2>1. Fine(hash, dict) /\ Keys(dict) = {}
    BY EmptyIsFine DEF Init
  <2>2. Found(dict) = Content(dict)
    BY <2>1, Abbreviations
  <2>3. Content(dict) = [k \in {} |-> Val]
    BY <2>1 DEF Content
  <2>. QED
    BY <2>2, <2>3 DEF Map!Init
<1>2. IInv /\ IInv' /\ [Next]_vars => [Map!Next]_(Found(dict))
  <2>. SUFFICES ASSUME IInv, IInv', [Next]_vars
                PROVE  Map!Next \/ Found(dict)' = Found(dict)
    OBVIOUS
  <2>1. Found(dict) = Content(dict)
    BY Abbreviations DEF IInv
  <2>2. Found(dict)' = Content(dict')
    <3>1. Fine(hash', dict')
      BY DEF IInv
    <3>. QED
      BY <3>1, FoundIsContent DEF Found, Ref, Table, FoundBy, By
  <2>3. ASSUME NEW k \in Key, DictionaryDelete(k)
        PROVE  Map!Next
    <3>1. Map!Delete(k)
      BY <2>1, <2>2, <2>3, DeleteStep DEF Map!Delete
    <3>. QED
      BY <3>1 DEF Map!Next
  <2>4. ASSUME NEW k \in Key, NEW v \in Val, DictionarySet(k, v)
        PROVE  Map!Next
    <3>1. Map!Set(k, v)
      <4>1. Content(dict') = [j \in DOMAIN Content(dict) \cup {k} |->
                                IF j = k THEN v ELSE Content(dict)[j]]
        BY <2>4, SetStep
      <4>. QED
        BY <2>1, <2>2, <4>1, Zenon DEF Map!Set
    <3>. QED
      BY <3>1 DEF Map!Next
  <2>5. CASE ForEachStart \/ ForEachCall \/ ForEachEnd
    <3>1. dict' = dict
      BY <2>5, ForEachStep
    <3>. QED
      BY <2>1, <2>2, <3>1
  <2>6. CASE UNCHANGED vars
    BY <2>1, <2>2, <2>6 DEF vars
  <2>. QED
    BY <2>3, <2>4, <2>5, <2>6 DEF Next
<1>. QED
  BY <1>1, <1>2, DictionaryInvariant, PTL DEF Spec, ImplementsMap, Map!Spec

-----------------------------------------------------------------------------
(* The symbol table.                                                       *)

(* Strings that read n, whose texts hash as h says.                        *)
Names(h, n) == [hash |-> [s \in String |-> h[n[s]]], name |-> n]

(* A name that is not written into lies where its hash leads, and no other *)
(* such name reads the same.  Of the names written into nothing is known:  *)
(* they may lie anywhere, and one may be in the table twice.               *)
Right(h, n, t, w) ==
  /\ h \in [Text -> Hashes] /\ n \in [String -> Text]
  /\ WellFormed(String, SymbolOf, t)
  /\ \A i \in Live(t) : t.vals[i].name = t.keys[i]
  /\ \A i \in Live(t) : t.keys[i] \notin w => Reached(Names(h, n), t, i)
  /\ \A i, j \in Live(t) :
       t.keys[i] \notin w /\ t.keys[j] \notin w /\ n[t.keys[i]] = n[t.keys[j]] => i = j

Named(t) == {t.vals[i] : i \in Live(t)}

SymbolIInv ==
  /\ Right(hashOf, reads, oblist, written)
  /\ held \subseteq Named(oblist)
  /\ ops \in 0 .. MaxOps /\ oblist.size <= ops

-----------------------------------------------------------------------------

LEMMA NamesHash ==
  ASSUME NEW h \in [Text -> Hashes], NEW n \in [String -> Text]
  PROVE  /\ Hashing(Names(h, n), String)
         /\ \A s \in String : /\ Names(h, n).name[s] = n[s]
                              /\ Names(h, n).hash[s] = h[n[s]]
<1>1. \A s \in String : h[n[s]] \in Int
  BY HashesAreInts
<1>2. /\ Names(h, n).hash = [s \in String |-> h[n[s]]]
      /\ Names(h, n).name = n
  BY DEF Names
<1>. QED
  BY <1>1, <1>2 DEF Hashing

(* An untouched name is found for its text, unless a name written into     *)
(* bears the same.                                                         *)
LEMMA FoundByText ==
  ASSUME NEW h, NEW n, NEW t, NEW w, Right(h, n, t, w),
         NEW i \in Live(t), t.keys[i] \notin w,
         \A s \in w : n[s] # n[t.keys[i]]
  PROVE  kh_get(Names(h, n), t, t.keys[i]) = i /\ i # t.n_buckets
<1> DEFINE H == Names(h, n)
           k == t.keys[i]
           b == kh_get(H, t, k)
<1>1. /\ h \in [Text -> Hashes] /\ n \in [String -> Text]
      /\ WellFormed(String, SymbolOf, t)
  BY DEF Right
<1>2. Hashing(H, String) /\ \A s \in String : H.name[s] = n[s]
  BY <1>1, NamesHash
<1>3. \A j \in Live(t) : t.keys[j] \in String
  BY <1>1 DEF WellFormed
<1>4. Reached(H, t, i)
  BY DEF Right
<1>. HIDE DEF H
<1>5. b # t.n_buckets
  BY <1>1, <1>2, <1>3, <1>4, GetFindsReached
<1>6. b \in Live(t) /\ H.name[t.keys[b]] = H.name[k]
  BY <1>1, <1>2, <1>3, <1>5, GetFindsEqual
<1>7. n[t.keys[b]] = n[k]
  BY <1>2, <1>3, <1>6
<1>8. t.keys[b] \notin w
  BY <1>7
<1>9. b = i
  BY <1>6, <1>7, <1>8 DEF Right
<1>. QED
  BY <1>5, <1>9 DEF H

LEMMA CopiedRight ==
  ASSUME NEW h, NEW n, NEW t, NEW w, Right(h, n, t, w),
         NEW u, WellFormed(String, SymbolOf, u), Copied(t, u),
         u = t \/ \A i \in Live(u) : Reached(Names(h, n), u, i)
  PROVE  Right(h, n, u, w) /\ Named(u) = Named(t)
<1>1. PICK g \in [Live(t) -> Live(u)] :
        /\ \A i \in Live(u) : \E b \in Live(t) : g[b] = i
        /\ \A b \in Live(t) : u.keys[g[b]] = t.keys[b] /\ u.vals[g[b]] = t.vals[b]
  BY DEF Copied
<1>2. \A i \in Live(u) : u.vals[i].name = u.keys[i]
  BY <1>1 DEF Right
<1>3. \A i, j \in Live(u) :
        u.keys[i] \notin w /\ u.keys[j] \notin w /\ n[u.keys[i]] = n[u.keys[j]] => i = j
  <2>1. SUFFICES ASSUME NEW i \in Live(u), NEW j \in Live(u),
                        u.keys[i] \notin w, u.keys[j] \notin w, n[u.keys[i]] = n[u.keys[j]]
                 PROVE  i = j
    OBVIOUS
  <2>2. PICK b \in Live(t) : g[b] = i
    BY <1>1
  <2>3. PICK c \in Live(t) : g[c] = j
    BY <1>1
  <2>4. t.keys[b] = u.keys[i] /\ t.keys[c] = u.keys[j]
    BY <1>1, <2>2, <2>3
  <2>5. b = c
    BY <2>1, <2>4 DEF Right
  <2>. QED
    BY <2>2, <2>3, <2>5
<1>4. \A i \in Live(u) : u.keys[i] \notin w => Reached(Names(h, n), u, i)
  BY DEF Right
<1>5. Named(u) = Named(t)
  <2>1. \A i \in Live(u) : \E b \in Live(t) : u.vals[i] = t.vals[b]
    BY <1>1
  <2>2. \A b \in Live(t) : g[b] \in Live(u) /\ t.vals[b] = u.vals[g[b]]
    BY <1>1
  <2>. QED
    BY <2>1, <2>2 DEF Named
<1>. QED
  BY <1>2, <1>3, <1>4, <1>5 DEF Right

-----------------------------------------------------------------------------
(* The operations.                                                         *)

(* string->symbol adds a symbol for a text that no untouched name bears,   *)
(* or finds one.                                                           *)
LEMMA InternKeeps ==
  ASSUME NEW h, NEW n, NEW t, NEW w, Right(h, n, t, w), t.size < 2 ^ 22,
         NEW s \in String, NEW new \in SymbolOf, new.name = s
  PROVE  LET p == kh_put(Names(h, n), t, s)
             sym == IF p.ret = 0 THEN p.t.vals[p.x] ELSE new
             z == [p.t EXCEPT !.vals[p.x] = sym]
         IN  /\ Right(h, n, z, w) /\ Named(z) = Named(t) \cup {sym}
             /\ z.size <= t.size + 1
<1> DEFINE H == Names(h, n)
           u == MakeRoom(H, t)
           p == kh_put(H, t, s)
           v == p.t
           x == p.x
           sym == IF p.ret = 0 THEN v.vals[x] ELSE new
           z == [v EXCEPT !.vals[x] = sym]
<1>1. /\ h \in [Text -> Hashes] /\ n \in [String -> Text]
      /\ WellFormed(String, SymbolOf, t)
  BY DEF Right
<1>2. Hashing(H, String) /\ \A k \in String : H.name[k] = n[k]
  BY <1>1, NamesHash
<1>. HIDE DEF H
<1>3. LET r == MakeRoom(H, t)
      IN  /\ WellFormed(String, SymbolOf, r) /\ Copied(t, r)
          /\ r = t \/ \A i \in Live(r) : Reached(H, r, i)
          /\ r.size = t.size /\ r.n_occupied < r.upper_bound
  BY <1>1, <1>2, MakeRoomMakesRoom
<1>4. p = PutAt(u, s, Site(H, u, s))
  BY DEF kh_put
<1>. HIDE DEF p
<1>5. /\ WellFormed(String, SymbolOf, u) /\ u.n_occupied < u.upper_bound
      /\ u.size = t.size /\ t.size \in Nat
      /\ Right(h, n, u, w) /\ Named(u) = Named(t)
  <2>1. t.size \in Nat
    BY <1>1, TableParts
  <2>2. /\ WellFormed(String, SymbolOf, u) /\ Copied(t, u)
        /\ u = t \/ \A i \in Live(u) : Reached(Names(h, n), u, i)
    BY <1>3 DEF H
  <2>3. Right(h, n, u, w) /\ Named(u) = Named(t)
    <3>. HIDE DEF u
    <3>. QED
      BY <2>2, CopiedRight
  <2>. QED
    BY <1>3, <2>1, <2>3
<1>6. LET q == PutAt(u, s, Site(H, u, s))
      IN  \/ /\ q.ret = 0 /\ q.t = u
             /\ q.x = kh_get(H, u, s) /\ q.x # u.n_buckets
          \/ /\ q.ret # 0 /\ kh_get(H, u, s) = u.n_buckets
             /\ Added(u, q.t, q.x, s) /\ q.t.keys[q.x] = s
             /\ WellFormed(String, SymbolOf, q.t) /\ Reached(H, q.t, q.x)
  <2>. HIDE DEF u
  <2>. QED
    BY <1>2, <1>5, PutWithRoom
<1>. HIDE DEF u
<1>7. /\ \A i \in Live(u) : u.keys[i] \in String /\ u.vals[i].name = u.keys[i]
      /\ \A i \in Live(u) : u.keys[i] \notin w => Reached(H, u, i)
  BY <1>5 DEF Right, WellFormed, H
<1>8. ASSUME WellFormed(String, SymbolOf, v), x \in Live(v), sym \in SymbolOf \cup {Null}
      PROVE  /\ WellFormed(String, SymbolOf, z) /\ z.n_buckets = v.n_buckets
             /\ z.size = v.size /\ z.flags = v.flags /\ z.keys = v.keys
             /\ Live(z) = Live(v)
             /\ z.vals[x] = sym /\ \A i \in Live(v) : i # x => z.vals[i] = v.vals[i]
  <2>. HIDE DEF v, x, sym
  <2>1. LET r == [v EXCEPT !.vals[x] = sym]
        IN  /\ WellFormed(String, SymbolOf, r)
            /\ r.n_buckets = v.n_buckets /\ r.size = v.size /\ r.flags = v.flags
            /\ r.keys = v.keys /\ Live(r) = Live(v)
            /\ r.vals[x] = sym /\ \A i \in Live(v) : i # x => r.vals[i] = v.vals[i]
    BY <1>8, ValueWritten
  <2>. QED
    BY <2>1
<1>9. CASE p.ret = 0
  <2>1. v = u /\ x = kh_get(H, u, s) /\ x # u.n_buckets /\ sym = u.vals[x]
    BY <1>4, <1>6, <1>9
  <2>2. x \in Live(u)
    BY <1>2, <1>5, <2>1, GetFindsEqual
  <2>3. sym \in SymbolOf \cup {Null}
    <3>. HIDE DEF u, v, x, sym
    <3>1. /\ u.vals \in [0 .. u.n_buckets - 1 -> SymbolOf \cup {Null}]
          /\ Live(u) \subseteq 0 .. u.n_buckets - 1
      BY <1>5, TableParts, LiveBuckets
    <3>. QED
      BY <2>1, <2>2, <3>1
  <2>4. /\ WellFormed(String, SymbolOf, z) /\ z.n_buckets = v.n_buckets
        /\ z.size = v.size /\ z.flags = v.flags /\ z.keys = v.keys
        /\ Live(z) = Live(v)
        /\ z.vals[x] = sym /\ \A i \in Live(v) : i # x => z.vals[i] = v.vals[i]
    BY <1>5, <1>8, <2>1, <2>2, <2>3
  <2>. HIDE DEF z, sym, x, v
  <2>5. \A i \in Live(u) : z.vals[i] = u.vals[i]
    BY <2>1, <2>4
  <2>6. Right(h, n, z, w)
    <3>1. \A i \in Live(z) : z.keys[i] \notin w => Reached(H, z, i)
      BY <1>7, <2>1, <2>4 DEF Reached
    <3>2. \A i \in Live(z) : z.vals[i].name = z.keys[i]
      BY <1>7, <2>1, <2>4, <2>5
    <3>3. \A i, j \in Live(z) :
            z.keys[i] \notin w /\ z.keys[j] \notin w /\ n[z.keys[i]] = n[z.keys[j]] => i = j
      BY <1>5, <2>1, <2>4 DEF Right
    <3>. QED
      BY <1>1, <2>4, <3>1, <3>2, <3>3 DEF Right, H
  <2>7. Named(z) = Named(t) \cup {sym}
    <3>1. Named(z) = Named(u)
      BY <2>1, <2>4, <2>5 DEF Named
    <3>2. sym \in Named(u)
      BY <2>1, <2>2 DEF Named
    <3>. QED
      BY <1>5, <3>1, <3>2
  <2>8. z.size <= t.size + 1
    BY <1>5, <2>1, <2>4
  <2>. QED
    BY <2>6, <2>7, <2>8 DEF z, sym, x, v, p, H
<1>10. CASE p.ret # 0
  <2>1. /\ kh_get(H, u, s) = u.n_buckets /\ Added(u, v, x, s) /\ v.keys[x] = s
        /\ WellFormed(String, SymbolOf, v) /\ Reached(H, v, x) /\ sym = new
    BY <1>4, <1>6, <1>10
  <2>. HIDE DEF v, x
  <2>2. /\ Live(v) = Live(u) \cup {x}
        /\ v.keys[x] = s /\ \A i \in Live(u) : i # x /\ v.keys[i] = u.keys[i]
    <3>1. \A r : Added(u, r, x, s) =>
            /\ Live(r) = Live(u) \cup {x}
            /\ r.keys[x] = s /\ \A i \in Live(u) : i # x /\ r.keys[i] = u.keys[i]
      BY <1>5, AddedLive
    <3>. QED
      BY <2>1, <3>1
  <2>3. v.vals = u.vals /\ v.size = u.size + 1
    BY <2>1 DEF Added
  <2>4. \A i \in Live(u) : u.keys[i] \notin w => Reached(H, v, i)
    BY <1>2, <1>5, <1>7, <2>1, StillReached
  <2>5. \A i \in Live(u) : u.keys[i] \notin w => n[u.keys[i]] # n[s]
    <3>1. SUFFICES ASSUME NEW i \in Live(u), u.keys[i] \notin w, n[u.keys[i]] = n[s]
                   PROVE  FALSE
      OBVIOUS
    <3>2. H.name[u.keys[i]] = H.name[s] /\ Reached(H, u, i)
      BY <1>2, <1>7, <3>1
    <3>3. kh_get(H, u, s) # u.n_buckets
      BY <1>2, <1>5, <3>2, GetFindsReached
    <3>. QED
      BY <2>1, <3>3
  <2>6. /\ WellFormed(String, SymbolOf, z) /\ z.n_buckets = v.n_buckets
        /\ z.size = v.size /\ z.flags = v.flags /\ z.keys = v.keys
        /\ Live(z) = Live(v)
        /\ z.vals[x] = new /\ \A i \in Live(v) : i # x => z.vals[i] = v.vals[i]
    BY <1>8, <2>1, <2>2
  <2>. HIDE DEF z, sym
  <2>7. Live(z) = Live(u) \cup {x} /\ \A i \in Live(u) : z.vals[i] = u.vals[i]
    BY <2>2, <2>3, <2>6
  <2>8. Right(h, n, z, w)
    <3>1. \A i \in Live(z) : z.keys[i] \notin w => Reached(H, z, i)
      <4>1. \A i \in Live(v) : v.keys[i] \notin w => Reached(H, v, i)
        BY <2>1, <2>2, <2>4
      <4>. QED
        BY <2>6, <4>1 DEF Reached
    <3>2. \A i \in Live(z) : z.vals[i].name = z.keys[i]
      BY <1>7, <2>2, <2>6, <2>7
    <3>3. \A i, j \in Live(z) :
            z.keys[i] \notin w /\ z.keys[j] \notin w /\ n[z.keys[i]] = n[z.keys[j]] => i = j
      <4>1. \A i, j \in Live(u) :
              u.keys[i] \notin w /\ u.keys[j] \notin w /\ n[u.keys[i]] = n[u.keys[j]] => i = j
        BY <1>5 DEF Right
      <4>. QED
        BY <2>2, <2>5, <2>6, <2>7, <4>1
    <3>. QED
      BY <1>1, <2>6, <3>1, <3>2, <3>3 DEF Right, H
  <2>9. Named(z) = Named(t) \cup {new}
    <3>1. Named(z) = {z.vals[i] : i \in Live(u) \cup {x}}
      BY <2>7 DEF Named
    <3>2. Named(z) = Named(u) \cup {new}
      BY <2>6, <2>7, <3>1 DEF Named
    <3>. QED
      BY <1>5, <3>2
  <2>10. z.size <= t.size + 1
    BY <1>5, <2>3, <2>6
  <2>. QED
    BY <2>1, <2>8, <2>9, <2>10 DEF z, sym, x, v, p, H
<1>. QED
  BY <1>9, <1>10

(* Writing into a name makes nothing known of it, and writing into another *)
(* string is nothing to the table.                                         *)
LEMMA WriteKeeps ==
  ASSUME NEW h, NEW n, NEW t, NEW w, Right(h, n, t, w),
         NEW s \in String, NEW x \in Text
  PROVE  Right(h, [n EXCEPT ![s] = x], t, IF \E y \in Named(t) : y.name = s THEN w \cup {s} ELSE w)
<1> DEFINE m == [n EXCEPT ![s] = x]
           v == IF \E y \in Named(t) : y.name = s THEN w \cup {s} ELSE w
<1>1. /\ h \in [Text -> Hashes] /\ n \in [String -> Text]
      /\ WellFormed(String, SymbolOf, t)
      /\ \A i \in Live(t) : t.keys[i] \in String
  BY DEF Right, WellFormed
<1>2. m \in [String -> Text]
  BY <1>1
<1>3. \A i \in Live(t) : t.keys[i] \notin v =>
        t.keys[i] \notin w /\ m[t.keys[i]] = n[t.keys[i]]
  <2>1. \A i \in Live(t) : \E y \in Named(t) : y.name = t.keys[i]
    BY DEF Right, Named
  <2>2. \A i \in Live(t) : t.keys[i] \notin v => t.keys[i] \notin w /\ t.keys[i] # s
    BY <2>1
  <2>. QED
    BY <1>1, <2>2
<1>. HIDE DEF m, v
<1>4. \A i \in Live(t) : t.keys[i] \notin v => Reached(Names(h, m), t, i)
  <2>1. SUFFICES ASSUME NEW i \in Live(t), t.keys[i] \notin v
                 PROVE  Reached(Names(h, m), t, i)
    OBVIOUS
  <2>2. Names(h, m).hash[t.keys[i]] = Names(h, n).hash[t.keys[i]]
    BY <1>1, <1>2, <1>3, <2>1, NamesHash
  <2>3. Reached(Names(h, n), t, i)
    BY <1>3, <2>1 DEF Right
  <2>. QED
    BY <2>2, <2>3 DEF Reached
<1>5. \A i, j \in Live(t) :
        t.keys[i] \notin v /\ t.keys[j] \notin v /\ m[t.keys[i]] = m[t.keys[j]] => i = j
  BY <1>3 DEF Right
<1>6. \A i \in Live(t) : t.vals[i].name = t.keys[i]
  BY DEF Right
<1>7. Right(h, m, t, v)
  BY <1>1, <1>2, <1>4, <1>5, <1>6 DEF Right
<1>. QED
  BY <1>7 DEF m, v

(* The sweep takes out the symbols that are not held.                      *)
LEMMA SweepKeeps ==
  ASSUME NEW h, NEW n, NEW t, NEW w, Right(h, n, t, w), NEW A, A \subseteq Named(t)
  PROVE  LET u == Swept(t, {i \in Live(t) : t.vals[i] \notin A})
         IN  /\ Right(h, n, u, w \cap {a.name : a \in A}) /\ A \subseteq Named(u)
             /\ u.size <= t.size
<1> DEFINE D == {i \in Live(t) : t.vals[i] \notin A}
           u == Swept(t, D)
<1>1. /\ h \in [Text -> Hashes] /\ n \in [String -> Text]
      /\ WellFormed(String, SymbolOf, t) /\ \A i \in Live(t) : t.vals[i].name = t.keys[i]
  BY DEF Right
<1>2. Deleted(t, u, D)
  BY DEF Deleted, Swept
<1>. HIDE DEF u
<1>3. D \subseteq Live(t) /\ \A i \in Live(t) : i \notin D => t.vals[i] \in A
  OBVIOUS
<1>. HIDE DEF D
<1>4. /\ WellFormed(String, SymbolOf, u)
      /\ u.n_buckets = t.n_buckets
      /\ Live(u) = Live(t) \ D
      /\ \A i \in Live(u) : u.keys[i] = t.keys[i] /\ u.vals[i] = t.vals[i]
      /\ \A i \in 0 .. t.n_buckets - 1 : u.flags[i] = "empty" <=> t.flags[i] = "empty"
  <2>1. \A r : Deleted(t, r, D) =>
          /\ WellFormed(String, SymbolOf, r)
          /\ r.n_buckets = t.n_buckets
          /\ Live(r) = Live(t) \ D
          /\ \A i \in Live(r) : r.keys[i] = t.keys[i] /\ r.vals[i] = t.vals[i]
          /\ \A i \in 0 .. t.n_buckets - 1 : r.flags[i] = "empty" <=> t.flags[i] = "empty"
    BY <1>1, DeletedParts
  <2>. QED
    BY <1>2, <2>1
<1>5. \A i \in Live(u) : u.keys[i] \notin w \cap {a.name : a \in A} => t.keys[i] \notin w
  BY <1>1, <1>3, <1>4
<1>6. \A i \in Live(u) : u.keys[i] \notin w \cap {a.name : a \in A} => Reached(Names(h, n), u, i)
  <2>1. Hashing(Names(h, n), String)
    BY <1>1, NamesHash
  <2>2. \A i \in Live(u) : Reached(Names(h, n), t, i) => Reached(Names(h, n), u, i)
    BY <1>1, <1>2, <2>1, DeletedReached
  <2>3. \A i \in Live(u) : t.keys[i] \notin w => Reached(Names(h, n), t, i)
    BY <1>4 DEF Right
  <2>. QED
    BY <1>5, <2>2, <2>3
<1>7. \A i, j \in Live(u) :
        u.keys[i] \notin w \cap {a.name : a \in A} /\ u.keys[j] \notin w \cap {a.name : a \in A} /\ n[u.keys[i]] = n[u.keys[j]]
          => i = j
  BY <1>4, <1>5 DEF Right
<1>8. Right(h, n, u, w \cap {a.name : a \in A})
  <2>1. \A i \in Live(u) : u.vals[i].name = u.keys[i]
    BY <1>1, <1>4
  <2>. QED
    BY <1>1, <1>4, <1>6, <1>7, <2>1 DEF Right
<1>9. A \subseteq Named(u)
  <2>1. SUFFICES ASSUME NEW a \in A
                 PROVE  a \in Named(u)
    OBVIOUS
  <2>2. PICK i \in Live(t) : t.vals[i] = a
    BY DEF Named
  <2>3. i \in Live(u)
    BY <1>4, <2>2 DEF D
  <2>. QED
    BY <1>4, <2>2, <2>3 DEF Named
<1>10. u.size <= t.size
  <2>1. t.size = Cardinality(Live(t)) /\ u.size = Cardinality(Live(u))
    BY <1>1, <1>4 DEF WellFormed
  <2>2. IsFiniteSet(Live(t))
    BY <1>1, LiveBuckets
  <2>. QED
    BY <1>4, <2>1, <2>2, FS_Subset
<1>. QED
  BY <1>8, <1>9, <1>10 DEF u, D

-----------------------------------------------------------------------------
(* The invariant.                                                          *)

(* ByText and Symbols in terms of the lemmas above.                        *)
LEMMA SymbolAbbreviations ==
  ByText = Names(hashOf, reads) /\ Symbols = Named(oblist)
BY DEF ByText, Names, Symbols, Named

LEMMA InitIsRight == SymbolInit => SymbolIInv
<1>. SUFFICES ASSUME SymbolInit
              PROVE  SymbolIInv
  OBVIOUS
<1>1. WellFormed(String, SymbolOf, oblist) /\ Live(oblist) = {}
  BY EmptyIsWellFormed DEF SymbolInit
<1>2. oblist.size = 0
  BY DEF SymbolInit, kh_init
<1>3. Right(hashOf, reads, oblist, written)
  BY <1>1 DEF SymbolInit, Right
<1>. QED
  BY <1>2, <1>3, FewOps DEF SymbolInit, SymbolIInv

LEMMA SymbolNextKeeps == SymbolIInv /\ [SymbolNext]_symbolVars => SymbolIInv'
<1>. SUFFICES ASSUME SymbolIInv, [SymbolNext]_symbolVars
              PROVE  SymbolIInv'
  OBVIOUS
<1>1. /\ Right(hashOf, reads, oblist, written) /\ held \subseteq Named(oblist)
      /\ ops \in 0 .. MaxOps /\ oblist.size <= ops
      /\ ByText = Names(hashOf, reads) /\ Symbols = Named(oblist)
  BY SymbolAbbreviations DEF SymbolIInv
<1>2. oblist.size \in Nat /\ MaxOps \in Nat
  BY <1>1, TableParts, FewOps DEF Right
<1>3. ASSUME ops < MaxOps, ops' = ops + 1, NEW s \in String, pic_intern(s)
      PROVE  SymbolIInv'
  <2>1. oblist.size < 2 ^ 22
    BY <1>1, <1>2, <1>3, FewOps, 2 ^ 22 \in Nat
  <2> DEFINE p == kh_put(Names(hashOf, reads), oblist, s)
  <2>0. PICK x \in IF p.ret = 0 THEN {p.t.vals[p.x]} ELSE Allocated(s) :
          /\ oblist' = [p.t EXCEPT !.vals[p.x] = x] /\ held' = held \cup {x}
          /\ hashOf' = hashOf /\ reads' = reads /\ written' = written
    BY <1>1, <1>3 DEF pic_intern
  <2> DEFINE new == IF p.ret = 0 THEN [name |-> s, nth |-> 0] ELSE x
             sym == IF p.ret = 0 THEN p.t.vals[p.x] ELSE new
  <2>7. new \in SymbolOf /\ new.name = s
    <3>1. \A y \in Allocated(s) : y \in SymbolOf /\ y.name = s
      <4>1. \A y \in Allocated(s) : \E k \in 0 .. ops : y = [name |-> s, nth |-> k]
        BY DEF Allocated
      <4>. QED
        BY <1>1, <1>2, <4>1 DEF SymbolOf
    <3>2. [name |-> s, nth |-> 0] \in SymbolOf
      BY DEF SymbolOf
    <3>3. CASE p.ret = 0
      BY <3>2, <3>3
    <3>4. CASE p.ret # 0
      <4>. HIDE DEF p
      <4>1. x \in Allocated(s) /\ new = x
        BY <2>0, <3>4
      <4>. QED
        BY <3>1, <4>1
    <3>. QED
      BY <3>3, <3>4
  <2>2. /\ oblist' = [p.t EXCEPT !.vals[p.x] = sym] /\ held' = held \cup {sym}
        /\ hashOf' = hashOf /\ reads' = reads /\ written' = written
    BY <2>0
  <2>. HIDE DEF new
  <2>3. LET q == kh_put(Names(hashOf, reads), oblist, s)
            y == IF q.ret = 0 THEN q.t.vals[q.x] ELSE new
            z == [q.t EXCEPT !.vals[q.x] = y]
        IN  /\ Right(hashOf, reads, z, written) /\ Named(z) = Named(oblist) \cup {y}
            /\ z.size <= oblist.size + 1
    BY <1>1, <2>1, <2>7, InternKeeps
  <2>4. /\ Right(hashOf, reads, oblist', written)
        /\ Named(oblist') = Named(oblist) \cup {sym}
        /\ oblist'.size <= oblist.size + 1
    BY <2>2, <2>3
  <2>. HIDE DEF p, sym
  <2>5. oblist'.size \in Nat
    BY <2>4, TableParts DEF Right
  <2>6. ops' \in 0 .. MaxOps /\ oblist'.size <= ops'
    BY <1>1, <1>2, <1>3, <2>4, <2>5
  <2>. QED
    BY <1>1, <2>2, <2>4, <2>6 DEF SymbolIInv, Named
<1>4. ASSUME ops < MaxOps, ops' = ops + 1, Forget
      PROVE  SymbolIInv'
  BY <1>1, <1>2, <1>4 DEF Forget, SymbolIInv, Named
<1>5. ASSUME ops < MaxOps, ops' = ops + 1, NEW s \in String, NEW t \in Text, StringSet(s, t)
      PROVE  SymbolIInv'
  <2>1. Right(hashOf, [reads EXCEPT ![s] = t], oblist,
              IF \E y \in Named(oblist) : y.name = s THEN written \cup {s} ELSE written)
    BY <1>1, WriteKeeps
  <2>2. Right(hashOf', reads', oblist', written')
    BY <1>1, <1>5, <2>1 DEF StringSet
  <2>. QED
    BY <1>1, <1>2, <1>5, <2>2 DEF StringSet, SymbolIInv, Named
<1>6. ASSUME ops < MaxOps, ops' = ops + 1, SweepSymbols
      PROVE  SymbolIInv'
  <2>1. LET u == Swept(oblist, {i \in Live(oblist) : oblist.vals[i] \notin held})
        IN  /\ Right(hashOf, reads, u, written \cap {a.name : a \in held}) /\ held \subseteq Named(u)
            /\ u.size <= oblist.size
    BY <1>1, SweepKeeps
  <2>2. /\ Right(hashOf, reads, oblist', written') /\ held \subseteq Named(oblist')
        /\ oblist'.size <= oblist.size
        /\ hashOf' = hashOf /\ reads' = reads /\ held' = held
    BY <1>6, <2>1 DEF SweepSymbols
  <2>3. oblist'.size \in Nat
    BY <2>2, TableParts DEF Right
  <2>4. ops' \in 0 .. MaxOps /\ oblist'.size <= ops'
    BY <1>1, <1>2, <1>6, <2>2, <2>3
  <2>. QED
    BY <2>2, <2>4 DEF SymbolIInv, Named
<1>7. CASE UNCHANGED symbolVars
  BY <1>7 DEF symbolVars, SymbolIInv, Named
<1>. QED
  BY <1>3, <1>4, <1>5, <1>6, <1>7 DEF SymbolNext

(* Of the names nothing is written into, each lies where its hash leads    *)
(* and no two read the same; every symbol held is in the table.            *)
THEOREM SymbolInvariant == SymbolSpec => []SymbolIInv
<1>1. SymbolInit => SymbolIInv
  BY InitIsRight
<1>2. SymbolIInv /\ [SymbolNext]_symbolVars => SymbolIInv'
  BY SymbolNextKeeps
<1>. QED
  BY <1>1, <1>2, PTL DEF SymbolSpec

(* SymbolsKeep: whatever the program writes into the names of other        *)
(* symbols and whatever the collector sweeps, a symbol that is held stays  *)
(* in the table, and string->symbol finds the one with an untouched name   *)
(* for its text, as long as no overwritten name bears the same text.       *)
THEOREM SymbolsStay == SymbolSpec => []SymbolsKeep
<1>1. SymbolIInv => SymbolsKeep
  <2>. SUFFICES ASSUME SymbolIInv
                PROVE  SymbolsKeep
    OBVIOUS
  <2>1. /\ Right(hashOf, reads, oblist, written) /\ held \subseteq Named(oblist)
        /\ ByText = Names(hashOf, reads) /\ Symbols = Named(oblist)
    BY SymbolAbbreviations DEF SymbolIInv
  <2>2. Sound(oblist)
    BY <2>1, WellFormedIsSound DEF Right
  <2>3. ASSUME NEW s \in held, s.name \notin written,
               \A w \in written : reads[w] # reads[s.name]
        PROVE  LET i == kh_get(ByText, oblist, s.name)
               IN  i # oblist.n_buckets /\ oblist.vals[i] = s
    <3>1. PICK i \in Live(oblist) : oblist.vals[i] = s
      BY <2>1 DEF Named
    <3>2. oblist.keys[i] = s.name
      BY <2>1, <3>1 DEF Right
    <3>3. kh_get(Names(hashOf, reads), oblist, oblist.keys[i]) = i /\ i # oblist.n_buckets
      BY <2>1, <2>3, <3>2, FoundByText
    <3>. QED
      BY <2>1, <3>1, <3>2, <3>3
  <2>. QED
    BY <2>1, <2>2, <2>3 DEF SymbolsKeep
<1>. QED
  BY <1>1, SymbolInvariant, PTL
=============================================================================
