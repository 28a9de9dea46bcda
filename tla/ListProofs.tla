----------------------------- MODULE ListProofs -----------------------------
(***************************************************************************)
(* Proofs about the list procedures of lib/pair.c, for heaps of any size   *)
(* and lists of any shape: whatever collection a round may cause, no pair  *)
(* that the procedure still holds in a C variable is reclaimed.            *)
(***************************************************************************)
EXTENDS Lists, FiniteSetTheorems, WellFoundedInduction, TLAPS

PairsOf(V) == {p \in V : IsPair(p)}

(* A heap: the fields of its pairs are values, no pair of which is missing. *)
Values(D) == {v \in Int : IsPair(v) => v \in D}
Heap(a, d) ==
  /\ DOMAIN d \subseteq 1 .. MaxPair
  /\ a \in [DOMAIN d -> Values(DOMAIN d)]
  /\ d \in [DOMAIN d -> Values(DOMAIN d)]

Closed(a, d, T) ==
  \A p \in T : (IsPair(a[p]) => a[p] \in T) /\ (IsPair(d[p]) => d[p] \in T)

(* A value that is no pair or is reached from these roots.                 *)
From(a, d, v, roots) == IsPair(v) => v \in Reachable(a, d, roots)

(* The cdrs from v on end in the empty list, if they end.                  *)
Proper(d, v) ==
  \E C \in SUBSET (DOMAIN d \cup {Nil}) : v \in C /\ \A p \in C : p # Nil => d[p] \in C

(* Cdrs lead from l to r.                                                  *)
Behind(d, l, r) ==
  \A C \in SUBSET (DOMAIN d \cup {d[p] : p \in DOMAIN d} \cup {l}) :
    l \in C /\ (\A p \in C : IsPair(p) => d[p] \in C) => r \in C

-----------------------------------------------------------------------------
(* The invariant.                                                          *)

Args == Range(args)
All  == Range(args) \cup Range(arena)
\* The roots that a pic_leave of the loop in progress leaves.
Kept == Range(args) \cup Range(SubSeq(arena, 1, loop.ai))

Built(v) == v = Nil \/ v \in Range(arena)

Elements == IF loop.pc = "list" THEN args ELSE [i \in 1 .. Given |-> args[1]]

Loops ==
  [proc : Procs,
   pc : {"reverse", "cons", "append", "list-copy", "make-list", "list", "map", "call", "push",
         "member", "assoc", "next", "length", "list?", "done", "error"},
   it : Int, acc : Int, aux : Int, ai : Nat, n : Nat]

StateInv ==
  /\ Heap(car, cdr)
  /\ args \in Seq(Values(DOMAIN cdr)) /\ Len(args) > 0
  /\ arena \in Seq(Values(DOMAIN cdr))
  /\ loop \in Loops
  /\ loop.ai <= Len(arena)

ReverseInv ==
  loop.pc = "reverse" =>
    /\ loop.proc \in {"reverse", "append", "map"}
    /\ loop.proc = "append" => loop.n < Len(args)
    /\ From(car, cdr, loop.it, Kept) /\ From(car, cdr, loop.aux, Kept)
    /\ Built(loop.acc) /\ Proper(cdr, loop.acc)

AppendInv ==
  loop.pc \in {"append", "cons"} =>
    /\ loop.proc = "append" /\ loop.n < Len(args)
    /\ From(car, cdr, loop.acc, All)
    /\ IF loop.pc = "append"
       THEN From(car, cdr, loop.it, All) /\ From(car, cdr, loop.aux, All)
       ELSE /\ Built(loop.aux) /\ (loop.aux = Nil => loop.it = Nil)
            /\ From(car, cdr, loop.it, {loop.aux}) /\ Proper(cdr, loop.it)

\* The last pair of the copy has no cdr yet.
CopyInv ==
  loop.pc = "list-copy" =>
    /\ From(car, cdr, loop.it, Args) /\ Built(loop.acc) /\ Built(loop.aux)
    /\ loop.acc # Nil => IsPair(loop.acc) /\ cdr[loop.acc] = Nil

MakeInv ==
  loop.pc \in {"make-list", "list"} =>
    loop.proc = loop.pc /\ Built(loop.acc) /\ loop.n <= Len(Elements)

\* What "it" was before the first call is not read again.
MapInv ==
  loop.pc \in {"map", "call", "push"} =>
    /\ loop.proc \in {"map", "for-each"} /\ Built(loop.acc) /\ loop.aux = Nil
    /\ loop.pc = "push" => loop.proc = "map" /\ ~IsPair(loop.it)
    /\ loop.it \in Values(DOMAIN cdr)

SearchInv ==
  loop.pc \in {"member", "assoc", "next"} =>
    /\ FirstLoop(loop.proc) \in {"member", "assoc"}
    /\ loop.pc # "next" => loop.pc = FirstLoop(loop.proc)
    /\ loop.pc = "next" => IsPair(loop.it)
    /\ From(car, cdr, loop.it, Args) /\ loop.acc = Nil /\ loop.aux = Nil

LengthInv ==
  loop.pc = "length" =>
    From(car, cdr, loop.it, Args) /\ loop.acc = Nil /\ loop.aux = Nil

\* The tortoise follows the hare.
ListPInv ==
  loop.pc = "list?" =>
    /\ From(car, cdr, loop.it, Args) /\ From(car, cdr, loop.aux, Args) /\ loop.acc = Nil
    /\ loop.n # 0 => Behind(cdr, loop.aux, loop.it)

DoneInv == loop.pc \in {"done", "error"} => loop.acc \in Values(DOMAIN cdr)

IInv == /\ StateInv /\ ReverseInv /\ AppendInv /\ CopyInv /\ MakeInv /\ MapInv
        /\ SearchInv /\ LengthInv /\ ListPInv /\ DoneInv

-----------------------------------------------------------------------------
(* What the collector spares.                                              *)

(* A set of numbers that has a member has a least one.                     *)
LEMMA LeastNumber ==
  ASSUME NEW S \in SUBSET Nat, S # {}
  PROVE  \E n \in S : \A m \in S : n <= m
<1> DEFINE T == {1 .. n : n \in S}
<1>1. T \subseteq FiniteSubsetsOf(Nat)
  BY FS_Interval DEF FiniteSubsetsOf
<1>2. PICK x \in T : \A y \in T : <<y, x>> \notin StrictSubsetOrdering(Nat)
  <2>1. T # {}
    OBVIOUS
  <2>. QED
    BY <1>1, <2>1, WFMin, FS_StrictSubsetOrderingWellFounded
<1>3. PICK n \in S : x = 1 .. n
  OBVIOUS
<1>4. ASSUME NEW m \in S, m < n
      PROVE  FALSE
  <2>1. 1 .. m \subseteq 1 .. n /\ n \in 1 .. n /\ n \notin 1 .. m
    BY <1>4
  <2>2. <<1 .. m, x>> \in StrictSubsetOrdering(Nat)
    BY <1>3, <2>1 DEF StrictSubsetOrdering
  <2>. QED
    BY <1>2, <2>2
<1>. QED
  BY <1>4

(* Iterating a function.                                                   *)
Iterates(g, x, m, f) ==
  f = [k \in 0 .. m |-> IF k = 0 THEN x ELSE g[f[k - 1]]]

LEMMA IteratesExist ==
  ASSUME NEW g, NEW x, NEW m \in Nat
  PROVE  \E f : Iterates(g, x, m, f)
<1> DEFINE S == {c \in Nat : ~ \E f : Iterates(g, x, c, f)}
<1>1. SUFFICES ASSUME S # {}
               PROVE  FALSE
  OBVIOUS
<1>2. PICK c \in S : \A e \in S : c <= e
  <2>1. S \in SUBSET Nat
    OBVIOUS
  <2>. HIDE DEF S
  <2>. QED
    BY <1>1, <2>1, LeastNumber
<1>3. c \in Nat /\ ~ \E f : Iterates(g, x, c, f)
  BY <1>2
<1>4. CASE c = 0
  <2> DEFINE f == [k \in 0 .. c |-> x]
  <2>1. f = [k \in 0 .. c |-> IF k = 0 THEN x ELSE g[f[k - 1]]]
    BY <1>4
  <2>. HIDE DEF f
  <2>2. Iterates(g, x, c, f)
    BY <2>1 DEF Iterates
  <2>. QED
    BY <1>3, <2>2
<1>5. CASE c # 0
  <2>1. c - 1 \in Nat /\ c - 1 \notin S
    BY <1>2, <1>3, <1>5
  <2>2. PICK h : Iterates(g, x, c - 1, h)
    BY <2>1
  <2>3. h = [k \in 0 .. c - 1 |-> IF k = 0 THEN x ELSE g[h[k - 1]]]
    BY <2>2 DEF Iterates
  <2> DEFINE f == [k \in 0 .. c |-> IF k = c THEN g[h[c - 1]] ELSE h[k]]
  <2>4. \A k \in 0 .. c : f[k] = IF k = 0 THEN x ELSE g[f[k - 1]]
    <3>1. SUFFICES ASSUME NEW k \in 0 .. c
                   PROVE  f[k] = IF k = 0 THEN x ELSE g[f[k - 1]]
      OBVIOUS
    <3>2. CASE k = c
      <4>1. f[k] = g[h[c - 1]] /\ f[k - 1] = h[c - 1]
        BY <1>3, <1>5, <3>2
      <4>. QED
        BY <1>5, <3>2, <4>1
    <3>3. CASE k # c
      <4>1. k \in 0 .. c - 1
        BY <1>3, <3>3
      <4>2. h[k] = IF k = 0 THEN x ELSE g[h[k - 1]]
        BY <2>3, <4>1
      <4>3. f[k] = h[k]
        BY <3>3
      <4>4. k # 0 => f[k - 1] = h[k - 1]
        BY <1>3, <4>1
      <4>. HIDE DEF f
      <4>. QED
        BY <4>2, <4>3, <4>4
    <3>. QED
      BY <3>2, <3>3
  <2>5. f = [k \in 0 .. c |-> f[k]]
    OBVIOUS
  <2>. HIDE DEF f
  <2>6. Iterates(g, x, c, f)
    BY <2>4, <2>5 DEF Iterates
  <2>. QED
    BY <1>3, <2>6
<1>. QED
  BY <1>4, <1>5

(* The pairs of a heap within so many steps of the roots.                  *)
Further(a, d, V) == UNION {PairsOf({p, a[p], d[p]}) : p \in V}

Steps(a, d, roots, f) ==
  f = [n \in 0 .. MaxPair |-> IF n = 0 THEN PairsOf(roots) ELSE Further(a, d, f[n - 1])]

LEMMA FurtherStays ==
  ASSUME NEW a, NEW d, Heap(a, d), NEW V \in SUBSET DOMAIN d
  PROVE  Further(a, d, V) \in SUBSET DOMAIN d /\ V \subseteq Further(a, d, V)
<1>1. \A p \in V : p \in Int /\ IsPair(p) /\ a[p] \in Values(DOMAIN d) /\ d[p] \in Values(DOMAIN d)
  BY DEF Heap, IsPair
<1>. QED
  BY <1>1 DEF Further, PairsOf, Values

LEMMA StepsExist ==
  ASSUME NEW a, NEW d, Heap(a, d), NEW roots, PairsOf(roots) \subseteq DOMAIN d
  PROVE  \E f \in [0 .. MaxPair -> SUBSET DOMAIN d] : Steps(a, d, roots, f)
<1> DEFINE g == [V \in SUBSET DOMAIN d |-> Further(a, d, V)]
<1>1. MaxPair \in Nat
  BY ListAssumption
<1>2. PICK f : f = [k \in 0 .. MaxPair |-> IF k = 0 THEN PairsOf(roots) ELSE g[f[k - 1]]]
  <2>. HIDE DEF g
  <2>1. \E f : Iterates(g, PairsOf(roots), MaxPair, f)
    BY <1>1, IteratesExist
  <2>. QED
    BY <2>1 DEF Iterates
<1>3. \A k \in 0 .. MaxPair : f[k] \in SUBSET DOMAIN d
  <2> DEFINE S == {k \in 0 .. MaxPair : f[k] \notin SUBSET DOMAIN d}
  <2>1. SUFFICES ASSUME S # {}
                 PROVE  FALSE
    OBVIOUS
  <2>2. PICK c \in S : \A e \in S : c <= e
    <3>1. S \in SUBSET Nat
      BY <1>1
    <3>. HIDE DEF S
    <3>. QED
      BY <2>1, <3>1, LeastNumber
  <2>3. c \in 0 .. MaxPair /\ f[c] \notin SUBSET DOMAIN d
    BY <2>2
  <2>4. f[c] = IF c = 0 THEN PairsOf(roots) ELSE g[f[c - 1]]
    BY <1>2, <2>3
  <2>5. c # 0
    BY <2>3, <2>4
  <2>6. c - 1 \in 0 .. MaxPair /\ c - 1 \notin S
    BY <1>1, <2>2, <2>3, <2>5
  <2>7. f[c - 1] \in SUBSET DOMAIN d
    BY <2>6
  <2>. QED
    BY <2>3, <2>4, <2>5, <2>7, FurtherStays
<1>4. \A k \in 0 .. MaxPair :
        f[k] = IF k = 0 THEN PairsOf(roots) ELSE Further(a, d, f[k - 1])
  <2>1. SUFFICES ASSUME NEW k \in 0 .. MaxPair
                 PROVE  f[k] = IF k = 0 THEN PairsOf(roots) ELSE Further(a, d, f[k - 1])
    OBVIOUS
  <2>2. f[k] = IF k = 0 THEN PairsOf(roots) ELSE g[f[k - 1]]
    BY <1>2
  <2>3. k # 0 => f[k - 1] \in SUBSET DOMAIN d
    BY <1>1, <1>3
  <2>. QED
    BY <2>2, <2>3
<1>5. f = [n \in 0 .. MaxPair |-> f[n]]
  <2>. HIDE DEF g
  <2>. QED
    BY <1>2
<1>6. Steps(a, d, roots, f)
  BY <1>4, <1>5 DEF Steps
<1>. QED
  BY <1>3, <1>5, <1>6

(* Reachable is closed, as many steps being made as the heap has pairs,    *)
(* and is the least closed set that has the roots.                         *)
LEMMA ReachableIs ==
  ASSUME NEW a, NEW d, Heap(a, d), NEW roots, PairsOf(roots) \subseteq DOMAIN d
  PROVE  /\ PairsOf(roots) \subseteq Reachable(a, d, roots)
         /\ Reachable(a, d, roots) \subseteq DOMAIN d
         /\ Closed(a, d, Reachable(a, d, roots))
         /\ \A T : PairsOf(roots) \subseteq T /\ Closed(a, d, T)
                    => Reachable(a, d, roots) \subseteq T
<1> DEFINE f == CHOOSE h : Steps(a, d, roots, h)
           N == Cardinality(DOMAIN d)
<1>1. MaxPair \in Nat /\ DOMAIN d \subseteq 1 .. MaxPair
  BY ListAssumption DEF Heap
<1>2. IsFiniteSet(DOMAIN d) /\ N \in 0 .. MaxPair
  <2>1. IsFiniteSet(1 .. MaxPair) /\ Cardinality(1 .. MaxPair) = MaxPair
    BY <1>1, FS_Interval
  <2>2. IsFiniteSet(DOMAIN d) /\ N \in Nat /\ N <= MaxPair
    BY <1>1, <2>1, FS_Subset, FS_CardinalityType
  <2>. QED
    BY <1>1, <2>2
<1>3. Steps(a, d, roots, f)
  BY StepsExist
<1>4. Reachable(a, d, roots) = f[N]
  BY DEF Reachable, Steps, Further, PairsOf
<1>. HIDE DEF f
<1>5. /\ f[0] = PairsOf(roots)
      /\ \A n \in 0 .. MaxPair : n # 0 => f[n] = Further(a, d, f[n - 1])
  BY <1>1, <1>3 DEF Steps
<1>6. \A n \in 0 .. MaxPair : f[n] \in SUBSET DOMAIN d
  <2> DEFINE S == {n \in 0 .. MaxPair : f[n] \notin SUBSET DOMAIN d}
  <2>1. SUFFICES ASSUME S # {}
                 PROVE  FALSE
    OBVIOUS
  <2>2. PICK c \in S : \A e \in S : c <= e
    <3>1. S \in SUBSET Nat
      BY <1>1
    <3>. HIDE DEF S
    <3>. QED
      BY <2>1, <3>1, LeastNumber
  <2>3. c \in 0 .. MaxPair /\ f[c] \notin SUBSET DOMAIN d /\ c # 0
    BY <1>5, <2>2
  <2>4. c - 1 \in 0 .. MaxPair /\ c - 1 \notin S
    BY <1>1, <2>2, <2>3
  <2>5. f[c - 1] \in SUBSET DOMAIN d /\ f[c] = Further(a, d, f[c - 1])
    BY <1>5, <2>3, <2>4
  <2>. QED
    BY <2>3, <2>5, FurtherStays
<1>7. \A n \in 0 .. MaxPair : n # 0 => f[n - 1] \subseteq f[n]
  <2>1. SUFFICES ASSUME NEW n \in 0 .. MaxPair, n # 0
                 PROVE  f[n - 1] \subseteq f[n]
    OBVIOUS
  <2>2. n - 1 \in 0 .. MaxPair
    BY <1>1, <2>1
  <2>. QED
    BY <1>5, <1>6, <2>1, <2>2, FurtherStays
<1>8. PairsOf(roots) \subseteq f[N]
  <2> DEFINE S == {n \in 0 .. MaxPair : ~(f[0] \subseteq f[n])}
  <2>1. SUFFICES ASSUME S # {}
                 PROVE  FALSE
    BY <1>2, <1>5
  <2>2. PICK c \in S : \A e \in S : c <= e
    <3>1. S \in SUBSET Nat
      BY <1>1
    <3>. HIDE DEF S
    <3>. QED
      BY <2>1, <3>1, LeastNumber
  <2>3. c \in 0 .. MaxPair /\ ~(f[0] \subseteq f[c]) /\ c # 0
    BY <2>2
  <2>4. c - 1 \in 0 .. MaxPair /\ c - 1 \notin S
    BY <1>1, <2>2, <2>3
  <2>5. f[0] \subseteq f[c - 1]
    BY <2>4
  <2>. QED
    BY <1>7, <2>3, <2>5
<1>9. \A n \in 0 .. MaxPair : Closed(a, d, f[n]) <=> Further(a, d, f[n]) \subseteq f[n]
  <2>1. SUFFICES ASSUME NEW n \in 0 .. MaxPair
                 PROVE  Closed(a, d, f[n]) <=> Further(a, d, f[n]) \subseteq f[n]
    OBVIOUS
  <2>2. \A p \in f[n] : IsPair(p)
    BY <1>1, <1>6 DEF IsPair
  <2>. QED
    BY <2>2 DEF Closed, Further, PairsOf
<1>10. \A n \in 0 .. MaxPair : Closed(a, d, f[n]) \/ Cardinality(f[n]) > n
  <2> DEFINE S == {n \in 0 .. MaxPair : ~(Closed(a, d, f[n]) \/ Cardinality(f[n]) > n)}
  <2>1. SUFFICES ASSUME S # {}
                 PROVE  FALSE
    OBVIOUS
  <2>2. PICK c \in S : \A e \in S : c <= e
    <3>1. S \in SUBSET Nat
      BY <1>1
    <3>. HIDE DEF S
    <3>. QED
      BY <2>1, <3>1, LeastNumber
  <2>3. c \in 0 .. MaxPair /\ ~Closed(a, d, f[c]) /\ ~(Cardinality(f[c]) > c)
    BY <2>2
  <2>4. IsFiniteSet(f[c]) /\ Cardinality(f[c]) \in Nat
    BY <1>2, <1>6, <2>3, FS_Subset, FS_CardinalityType
  <2>5. CASE c = 0
    <3>1. Cardinality(f[c]) = 0
      BY <2>3, <2>4, <2>5
    <3>2. f[c] = {}
      BY <2>4, <3>1, FS_EmptySet
    <3>. QED
      BY <2>3, <3>2 DEF Closed
  <2>6. CASE c # 0
    <3>1. c - 1 \in 0 .. MaxPair /\ c - 1 \notin S
      BY <1>1, <2>2, <2>3, <2>6
    <3>2. f[c] = Further(a, d, f[c - 1]) /\ f[c - 1] \subseteq f[c]
      BY <1>5, <1>7, <2>3, <2>6
    <3>3. ~Closed(a, d, f[c - 1])
      <4>1. SUFFICES ASSUME Closed(a, d, f[c - 1])
                     PROVE  FALSE
        OBVIOUS
      <4>2. f[c] = f[c - 1]
        BY <1>9, <3>1, <3>2, <4>1
      <4>. QED
        BY <2>3, <4>1, <4>2
    <3>4. Cardinality(f[c - 1]) > c - 1 /\ IsFiniteSet(f[c - 1]) /\ Cardinality(f[c - 1]) \in Nat
      BY <1>2, <1>6, <3>1, <3>3, FS_Subset, FS_CardinalityType
    <3>5. f[c - 1] # f[c]
      BY <1>9, <3>1, <3>2, <3>3
    <3>6. /\ Cardinality(f[c - 1]) <= Cardinality(f[c])
          /\ Cardinality(f[c - 1]) = Cardinality(f[c]) => f[c - 1] = f[c]
      <4>1. f[c - 1] \in SUBSET f[c]
        BY <3>2
      <4>. QED
        BY <2>4, <4>1, FS_Subset
    <3>. QED
      BY <2>3, <2>4, <3>4, <3>5, <3>6
  <2>. QED
    BY <2>5, <2>6
<1>11. Closed(a, d, f[N])
  <2>1. Cardinality(f[N]) <= N
    BY <1>2, <1>6, FS_Subset
  <2>2. Cardinality(f[N]) \in Nat
    BY <1>2, <1>6, FS_Subset, FS_CardinalityType
  <2>. QED
    BY <1>2, <1>10, <2>1, <2>2
<1>12. ASSUME NEW T, PairsOf(roots) \subseteq T, Closed(a, d, T)
       PROVE  f[N] \subseteq T
  <2> DEFINE S == {n \in 0 .. MaxPair : ~(f[n] \subseteq T)}
  <2>1. SUFFICES ASSUME S # {}
                 PROVE  FALSE
    BY <1>2
  <2>2. PICK c \in S : \A e \in S : c <= e
    <3>1. S \in SUBSET Nat
      BY <1>1
    <3>. HIDE DEF S
    <3>. QED
      BY <2>1, <3>1, LeastNumber
  <2>3. c \in 0 .. MaxPair /\ ~(f[c] \subseteq T) /\ c # 0
    BY <1>5, <1>12, <2>2
  <2>4. c - 1 \in 0 .. MaxPair /\ c - 1 \notin S
    BY <1>1, <2>2, <2>3
  <2>5. f[c - 1] \subseteq T /\ f[c] = Further(a, d, f[c - 1])
    BY <1>5, <2>3, <2>4
  <2>. QED
    BY <1>12, <2>3, <2>5 DEF Closed, Further, PairsOf
<1>. QED
  BY <1>2, <1>4, <1>6, <1>8, <1>11, <1>12

LEMMA MoreRoots ==
  ASSUME NEW a, NEW d, Heap(a, d), NEW R, NEW S, R \subseteq S, PairsOf(S) \subseteq DOMAIN d
  PROVE  Reachable(a, d, R) \subseteq Reachable(a, d, S)
<1>1. PairsOf(R) \subseteq PairsOf(S)
  BY DEF PairsOf
<1>. QED
  BY <1>1, ReachableIs

(* A root, and the fields of what is reached.                              *)
LEMMA FromRoots ==
  ASSUME NEW a, NEW d, Heap(a, d), NEW S, PairsOf(S) \subseteq DOMAIN d
  PROVE  /\ \A v \in S : From(a, d, v, S)
         /\ \A p : IsPair(p) /\ From(a, d, p, S)
                     => /\ p \in DOMAIN d /\ p \in Reachable(a, d, S)
                        /\ From(a, d, a[p], S) /\ From(a, d, d[p], S)
         /\ \A v : v \in Int /\ From(a, d, v, S) => v \in Values(DOMAIN d)
         /\ \A R, v : R \subseteq S /\ From(a, d, v, R) => From(a, d, v, S)
         /\ \A v : ~IsPair(v) => From(a, d, v, S)
<1>1. /\ PairsOf(S) \subseteq Reachable(a, d, S)
      /\ Reachable(a, d, S) \subseteq DOMAIN d
      /\ Closed(a, d, Reachable(a, d, S))
  BY ReachableIs
<1>2. \A R : R \subseteq S => Reachable(a, d, R) \subseteq Reachable(a, d, S)
  BY MoreRoots
<1>. QED
  BY <1>1, <1>2 DEF From, PairsOf, Closed, Values

(* What was reached from roots that a collection has spared is reached     *)
(* from them again, whatever pair has joined the heap.                     *)
LEMMA ReachedAgain ==
  ASSUME NEW a, NEW d, Heap(a, d), NEW b, NEW e, Heap(b, e),
         NEW S, PairsOf(S) \subseteq DOMAIN d,
         Reachable(a, d, S) \subseteq DOMAIN e,
         \A p \in Reachable(a, d, S) : b[p] = a[p] /\ (e[p] = d[p] \/ ~IsPair(d[p])),
         NEW R \in SUBSET S
  PROVE  \A v : From(a, d, v, R) => From(b, e, v, R)
<1> DEFINE L == Reachable(a, d, S)
           T == Reachable(b, e, R) \cap L
<1>1. PairsOf(S) \subseteq L /\ Closed(a, d, L)
  BY ReachableIs
<1>2. PairsOf(R) \subseteq L
  BY <1>1 DEF PairsOf
<1>3. PairsOf(R) \subseteq Reachable(b, e, R) /\ Closed(b, e, Reachable(b, e, R))
  BY <1>2, ReachableIs
<1>4. Closed(a, d, T)
  <2>. HIDE DEF L
  <2>. QED
    BY <1>1, <1>3, \A p \in L : b[p] = a[p] /\ (e[p] = d[p] \/ ~IsPair(d[p])) DEF Closed, L
<1>5. Reachable(a, d, R) \subseteq T
  <2>1. PairsOf(R) \subseteq DOMAIN d
    BY <1>2, ReachableIs
  <2>. HIDE DEF L
  <2>. QED
    BY <1>2, <1>3, <1>4, <2>1, ReachableIs
<1>. QED
  BY <1>5 DEF From

(* A proper list whose first pair is spared stays one.                     *)
LEMMA StaysProper ==
  ASSUME NEW a, NEW d, Heap(a, d), NEW e, NEW S, PairsOf(S) \subseteq DOMAIN d,
         Reachable(a, d, S) \subseteq DOMAIN e,
         \A p \in Reachable(a, d, S) : e[p] = d[p],
         NEW v, Proper(d, v), From(a, d, v, S)
  PROVE  Proper(e, v)
<1> DEFINE L == Reachable(a, d, S)
<1>1. PICK C \in SUBSET (DOMAIN d \cup {Nil}) : v \in C /\ \A p \in C : p # Nil => d[p] \in C
  BY DEF Proper
<1>2. L \subseteq DOMAIN d /\ Closed(a, d, L)
  BY ReachableIs
<1>3. \A p \in C : p # Nil => IsPair(p)
  BY <1>1 DEF Heap, IsPair
<1> DEFINE B == (C \cap L) \cup ({Nil} \cap C)
<1>4. v \in B
  BY <1>1, <1>3 DEF From
<1>5. \A p \in B : p # Nil => e[p] \in B
  <2>1. SUFFICES ASSUME NEW p \in B, p # Nil
                 PROVE  e[p] \in B
    OBVIOUS
  <2>2. p \in C /\ p \in L
    BY <2>1
  <2>3. d[p] \in C /\ e[p] = d[p]
    BY <1>1, <2>1, <2>2
  <2>4. d[p] = Nil \/ IsPair(d[p])
    BY <1>3, <2>3
  <2>. HIDE DEF L
  <2>. QED
    BY <1>2, <2>2, <2>3, <2>4 DEF Closed
<1>6. B \in SUBSET (DOMAIN e \cup {Nil})
  OBVIOUS
<1>. QED
  BY <1>4, <1>5, <1>6 DEF Proper

(* What an allocation leaves: the pairs spared and the new one.            *)
Allocated(a, d, L, x, head, tail, b, e) ==
  /\ x \notin L /\ IsPair(x)
  /\ DOMAIN e = L \cup {x}
  /\ b[x] = head /\ e[x] = tail
  /\ \A p \in L : b[p] = a[p]

LEMMA Allocation ==
  ASSUME NEW a, NEW d, Heap(a, d), NEW S, PairsOf(S) \subseteq DOMAIN d,
         NEW x \in (1 .. MaxPair) \ Reachable(a, d, S),
         NEW head \in Int, From(a, d, head, S), NEW tail \in Int, From(a, d, tail, S),
         NEW g, \A p \in Reachable(a, d, S) : g[p] = d[p] \/ g[p] = x,
         NEW b \in [Reachable(a, d, S) \cup {x} -> Int],
         \A p \in Reachable(a, d, S) \cup {x} : b[p] = IF p = x THEN head ELSE a[p],
         NEW e \in [Reachable(a, d, S) \cup {x} -> Int],
         \A p \in Reachable(a, d, S) \cup {x} : e[p] = IF p = x THEN tail ELSE g[p]
  PROVE  Heap(b, e) /\ Allocated(a, d, Reachable(a, d, S), x, head, tail, b, e)
<1> DEFINE L == Reachable(a, d, S)
           N == L \cup {x}
<1>1. L \subseteq DOMAIN d /\ Closed(a, d, L)
  BY ReachableIs
<1>. HIDE DEF L
<1>2. N \subseteq 1 .. MaxPair
  BY <1>1 DEF Heap
<1>3. \A p \in N : (IF p = x THEN head ELSE a[p]) \in Values(N)
  BY <1>1 DEF Heap, Values, Closed, From, L
<1>4. \A p \in N : (IF p = x THEN tail ELSE g[p]) \in Values(N)
  <2>1. x \in Values(N)
    BY DEF Values
  <2>2. tail \in Values(N)
    BY DEF Values, From, L
  <2>3. \A p \in L : d[p] \in Values(N)
    BY <1>1 DEF Heap, Values, Closed
  <2>. QED
    BY <2>1, <2>2, <2>3 DEF L
<1>5. /\ b \in [N -> Int] /\ \A p \in N : b[p] = IF p = x THEN head ELSE a[p]
      /\ e \in [N -> Int] /\ \A p \in N : e[p] = IF p = x THEN tail ELSE g[p]
  BY DEF L
<1>6. b \in [N -> Values(N)] /\ e \in [N -> Values(N)] /\ DOMAIN e = N
  BY <1>3, <1>4, <1>5
<1>7. Heap(b, e)
  BY <1>2, <1>6 DEF Heap
<1>8. x \notin L /\ IsPair(x)
  BY DEF L, IsPair
<1>. QED
  BY <1>5, <1>6, <1>7, <1>8 DEF Allocated, L

(* What a collection leaves.                                               *)
LEMMA Reclamation ==
  ASSUME NEW a, NEW d, Heap(a, d), NEW S, PairsOf(S) \subseteq DOMAIN d,
         NEW b, b = [p \in Reachable(a, d, S) |-> a[p]],
         NEW e, e = [p \in Reachable(a, d, S) |-> d[p]]
  PROVE  Heap(b, e) /\ DOMAIN e = Reachable(a, d, S)
<1> DEFINE L == Reachable(a, d, S)
<1>1. L \subseteq DOMAIN d /\ Closed(a, d, L)
  BY ReachableIs
<1>. HIDE DEF L
<1>2. \A p \in L : a[p] \in Values(L) /\ d[p] \in Values(L)
  BY <1>1 DEF Heap, Values, Closed
<1>. QED
  BY <1>1, <1>2 DEF Heap, L

(* A pair cut off.                                                         *)
LEMMA CutIsHeap ==
  ASSUME NEW a, NEW d, Heap(a, d), NEW p, NEW v \in Values(DOMAIN d)
  PROVE  Heap(a, [d EXCEPT ![p] = v]) /\ DOMAIN [d EXCEPT ![p] = v] = DOMAIN d
BY DEF Heap

LEMMA Sequences ==
  ASSUME NEW V, NEW s \in Seq(V), NEW x, NEW k \in 0 .. Len(s)
  PROVE  /\ Range(s) \subseteq V
         /\ SubSeq(s, 1, k) \in Seq(V) /\ Len(SubSeq(s, 1, k)) = k
         /\ Range(SubSeq(s, 1, k)) \subseteq Range(s)
         /\ Range(Append(s, x)) = Range(s) \cup {x}
         /\ Len(Append(s, x)) = Len(s) + 1
         /\ SubSeq(Append(s, x), 1, k) = SubSeq(s, 1, k)
<1>1. \A i \in 1 .. Len(s) : s[i] \in V
  OBVIOUS
<1>2. Range(s) = {s[i] : i \in 1 .. Len(s)}
  BY DEF Range
<1>3. Range(s) \subseteq V
  BY <1>1, <1>2
<1>4. /\ SubSeq(s, 1, k) \in Seq(V) /\ Len(SubSeq(s, 1, k)) = k
      /\ \A i \in 1 .. k : SubSeq(s, 1, k)[i] = s[i]
  OBVIOUS
<1> DEFINE u == SubSeq(s, 1, k)
<1>5. Range(SubSeq(s, 1, k)) = {SubSeq(s, 1, k)[i] : i \in 1 .. k}
  <2>1. u \in Seq(V) /\ Len(u) = k
    BY <1>4
  <2>. HIDE DEF u
  <2>2. DOMAIN u = 1 .. k
    BY <2>1
  <2>3. Range(u) = {u[i] : i \in 1 .. k}
    BY <2>2 DEF Range
  <2>. QED
    BY <2>3 DEF u
<1>6. Range(SubSeq(s, 1, k)) \subseteq Range(s)
  BY <1>2, <1>4, <1>5
<1> DEFINE t == Append(s, x)
<1>7. /\ Len(t) = Len(s) + 1 /\ t \in Seq(V \cup {x})
      /\ \A i \in 1 .. Len(s) : t[i] = s[i]
      /\ t[Len(s) + 1] = x
  OBVIOUS
<1>8. Range(t) = {t[i] : i \in 1 .. Len(s) + 1}
  BY <1>7 DEF Range
<1>9. Range(t) = Range(s) \cup {x}
  BY <1>2, <1>7, <1>8
<1>10. SubSeq(t, 1, k) = SubSeq(s, 1, k)
  OBVIOUS
<1>. QED
  BY <1>3, <1>4, <1>6, <1>7, <1>9, <1>10

-----------------------------------------------------------------------------
(* The steps of a heap.                                                    *)

LEMMA Roots ==
  ASSUME StateInv
  PROVE  /\ PairsOf(All) \subseteq DOMAIN cdr /\ All \subseteq Values(DOMAIN cdr)
         /\ Args \subseteq Kept /\ Kept \subseteq All
         /\ \A v \in Range(arena) : From(car, cdr, v, All)
         /\ \A v \in Args : From(car, cdr, v, Args) /\ From(car, cdr, v, Kept)
         /\ \A R \in SUBSET All : PairsOf(R) \subseteq DOMAIN cdr
<1>1. Range(args) \subseteq Values(DOMAIN cdr) /\ Range(arena) \subseteq Values(DOMAIN cdr)
  BY Sequences, 0 \in 0 .. Len(args), 0 \in 0 .. Len(arena) DEF StateInv
<1>2. Range(SubSeq(arena, 1, loop.ai)) \subseteq Range(arena)
  <2>1. loop.ai \in 0 .. Len(arena) /\ arena \in Seq(Values(DOMAIN cdr))
    BY DEF StateInv, Loops
  <2>. QED
    BY <2>1, Sequences
<1>3. PairsOf(All) \subseteq DOMAIN cdr
  BY <1>1 DEF All, PairsOf, Values
<1>4. Args \subseteq Kept /\ Kept \subseteq All /\ All \subseteq Values(DOMAIN cdr)
  BY <1>1, <1>2 DEF Args, Kept, All
<1>5. \A R \in SUBSET All : PairsOf(R) \subseteq DOMAIN cdr
  BY <1>3 DEF PairsOf
<1>6. Heap(car, cdr)
  BY DEF StateInv
<1>7. \A v \in Range(arena) : From(car, cdr, v, All)
  BY <1>3, <1>6, FromRoots DEF All
<1>8. \A v \in Args : From(car, cdr, v, Args) /\ From(car, cdr, v, Kept)
  BY <1>4, <1>5, <1>6, FromRoots DEF All
<1>. QED
  BY <1>3, <1>4, <1>5, <1>7, <1>8

LEMMA SequencesOfRoots ==
  ASSUME StateInv
  PROVE  /\ arena \in Seq(All) /\ SubSeq(arena, 1, loop.ai) \in Seq(All)
         /\ Len(SubSeq(arena, 1, loop.ai)) = loop.ai
         /\ \A x : /\ Range(Append(arena, x)) = Range(arena) \cup {x}
                   /\ SubSeq(Append(SubSeq(arena, 1, loop.ai), x), 1, loop.ai)
                        = SubSeq(arena, 1, loop.ai)
                   /\ Range(Append(SubSeq(arena, 1, loop.ai), x))
                        = Range(SubSeq(arena, 1, loop.ai)) \cup {x}
         /\ \A i \in DOMAIN args : args[i] \in Args
         /\ DOMAIN args = 1 .. Len(args) /\ Len(args) \in Nat
<1> DEFINE V == Values(DOMAIN cdr)
           s == SubSeq(arena, 1, loop.ai)
<1>1. /\ arena \in Seq(V) /\ args \in Seq(V)
      /\ loop.ai \in 0 .. Len(arena)
  BY DEF StateInv, Loops
<1>. HIDE DEF V
<1>2. Range(arena) \subseteq All /\ Range(s) \subseteq All
  BY Roots DEF All, Kept
<1>3. s \in Seq(V) /\ Len(s) = loop.ai
  BY <1>1, Sequences
<1>4. \A i \in 1 .. Len(arena) : arena[i] \in All
  BY <1>1, <1>2 DEF Range
<1>5. arena \in Seq(All)
  BY <1>1, <1>4
<1>. HIDE DEF s
<1>6. \A i \in 1 .. Len(s) : s[i] \in All
  BY <1>2, <1>3 DEF Range
<1>7. s \in Seq(All)
  BY <1>3, <1>6
<1>8. \A x : /\ SubSeq(Append(s, x), 1, loop.ai) = SubSeq(s, 1, loop.ai)
             /\ Range(Append(s, x)) = Range(s) \cup {x}
             /\ Range(Append(arena, x)) = Range(arena) \cup {x}
  BY <1>1, <1>3, Sequences, loop.ai \in 0 .. Len(s)
<1>9. SubSeq(s, 1, loop.ai) = s
  BY <1>3
<1>10. \A i \in DOMAIN args : args[i] \in Args
  BY DEF Args, Range
<1>11. DOMAIN args = 1 .. Len(args) /\ Len(args) \in Nat
  BY <1>1
<1>. QED
  BY <1>3, <1>5, <1>7, <1>8, <1>9, <1>10, <1>11 DEF s

LEMMA RootsAnywhere ==
  ASSUME NEW b, NEW e, Heap(b, e),
         NEW s \in Seq(Values(DOMAIN e)), NEW t \in Seq(Values(DOMAIN e))
  PROVE  LET S == Range(s) \cup Range(t)
         IN  /\ S \subseteq Values(DOMAIN e) /\ PairsOf(S) \subseteq DOMAIN e
             /\ \A v \in S : From(b, e, v, S)
<1>1. Range(s) \subseteq Values(DOMAIN e) /\ Range(t) \subseteq Values(DOMAIN e)
  BY Sequences, 0 \in 0 .. Len(s), 0 \in 0 .. Len(t)
<1> DEFINE S == Range(s) \cup Range(t)
<1>2. PairsOf(S) \subseteq DOMAIN e
  BY <1>1 DEF PairsOf, Values
<1>. HIDE DEF S
<1>3. \A v \in S : From(b, e, v, S)
  BY <1>2, FromRoots
<1>. QED
  BY <1>1, <1>2, <1>3 DEF S

LEMMA BuiltIsHeld ==
  ASSUME StateInv, NEW v, Built(v)
  PROVE  From(car, cdr, v, All) /\ v \in Values(DOMAIN cdr)
<1>1. CASE v = Nil
  BY <1>1 DEF From, IsPair, Nil, Values
<1>2. CASE v \in Range(arena)
  BY <1>2, Roots DEF All
<1>. QED
  BY <1>1, <1>2 DEF Built

LEMMA NewPairIsNew ==
  ASSUME StateInv, NEW x \in Fresh
  PROVE  x \in (1 .. MaxPair) \ Spared
<1>1. x = Min((1 .. MaxPair) \ Spared) /\ Spared # 1 .. MaxPair
  BY DEF Fresh
<1>2. Spared \subseteq 1 .. MaxPair
  <2>1. Spared \subseteq DOMAIN cdr
    BY Roots, ReachableIs DEF Spared, All, StateInv
  <2>. QED
    BY <2>1 DEF StateInv, Heap
<1> DEFINE S == (1 .. MaxPair) \ Spared
<1>3. S # {} /\ S \in SUBSET Nat
  <2>1. 1 .. MaxPair \subseteq Nat
    BY ListAssumption
  <2>2. ~(1 .. MaxPair \subseteq Spared)
    BY <1>1, <1>2
  <2>. QED
    BY <2>1, <2>2
<1>. HIDE DEF S
<1>4. \E n \in S : \A m \in S : n <= m
  BY <1>3, LeastNumber
<1>5. Min(S) \in S
  BY <1>4 DEF Min
<1>. QED
  BY <1>1, <1>5 DEF S

(* A round that makes a pair: the roots it keeps reach what they did.      *)
LEMMA RoundAllocates ==
  ASSUME StateInv, NEW x \in Fresh,
         NEW head \in Int, From(car, cdr, head, All),
         NEW tail \in Int, From(car, cdr, tail, All),
         NEW left \in Seq(All),
         NEW g, \A p \in Spared : g[p] = cdr[p] \/ (g[p] = x /\ ~IsPair(cdr[p])),
         NewPair(x, head, tail, left, g), args' = args
  PROVE  /\ Heap(car', cdr')
         /\ Allocated(car, cdr, Spared, x, head, tail, car', cdr')
         /\ \A p \in Spared : cdr'[p] = g[p]
         /\ args' \in Seq(Values(DOMAIN cdr'))
         /\ arena' \in Seq(Values(DOMAIN cdr')) /\ arena' = Append(left, x)
         /\ \A R \in SUBSET All : \A v : From(car, cdr, v, R) => From(car', cdr', v, R)
<1>1. Heap(car, cdr) /\ PairsOf(All) \subseteq DOMAIN cdr /\ All \subseteq Values(DOMAIN cdr)
  BY Roots DEF StateInv
<1>2. Spared = Reachable(car, cdr, All)
  BY DEF Spared, All
<1>3. /\ car' = [p \in Spared \cup {x} |-> IF p = x THEN head ELSE car[p]]
      /\ cdr' = [p \in Spared \cup {x} |-> IF p = x THEN tail ELSE g[p]]
      /\ arena' = Append(left, x)
  BY DEF NewPair
<1>4. x \in (1 .. MaxPair) \ Spared
  BY NewPairIsNew
<1>5. Heap(car', cdr') /\ Allocated(car, cdr, Spared, x, head, tail, car', cdr')
  <2> DEFINE L == Reachable(car, cdr, All)
  <2>1. x \in (1 .. MaxPair) \ L /\ \A p \in L : g[p] = cdr[p] \/ g[p] = x
    BY <1>2, <1>4
  <2>2. /\ car' = [p \in L \cup {x} |-> IF p = x THEN head ELSE car[p]]
        /\ cdr' = [p \in L \cup {x} |-> IF p = x THEN tail ELSE g[p]]
    BY <1>2, <1>3
  <2>3. L \subseteq DOMAIN cdr
    BY <1>1, ReachableIs
  <2>4. x \in Int /\ \A p \in L : car[p] \in Int /\ g[p] \in Int
    BY <1>1, <2>1, <2>3 DEF Heap, Values
  <2>5. car' \in [L \cup {x} -> Int] /\ cdr' \in [L \cup {x} -> Int]
    BY <2>2, <2>4
  <2>6. /\ \A p \in L \cup {x} : car'[p] = IF p = x THEN head ELSE car[p]
        /\ \A p \in L \cup {x} : cdr'[p] = IF p = x THEN tail ELSE g[p]
    BY <2>2
  <2>7. Heap(car', cdr') /\ Allocated(car, cdr, L, x, head, tail, car', cdr')
    BY <1>1, <2>1, <2>5, <2>6, Allocation
  <2>. QED
    BY <1>2, <2>7
<1>6. \A p \in Spared : cdr'[p] = g[p] /\ car'[p] = car[p]
  BY <1>3, <1>4
<1>7. DOMAIN cdr' = Spared \cup {x}
  BY <1>3
<1>8. \A R \in SUBSET All : \A v : From(car, cdr, v, R) => From(car', cdr', v, R)
  <2>1. \A p \in Spared : car'[p] = car[p] /\ (cdr'[p] = cdr[p] \/ ~IsPair(cdr[p]))
    BY <1>6
  <2>. QED
    BY <1>1, <1>2, <1>5, <1>7, <2>1, ReachedAgain
<1>9. All \subseteq Values(DOMAIN cdr') /\ x \in Values(DOMAIN cdr')
  <2>1. \A v \in All : From(car, cdr, v, All)
    BY <1>1, FromRoots
  <2>. QED
    BY <1>1, <1>2, <1>4, <1>7, <2>1 DEF From, Values
<1>10. arena' \in Seq(Values(DOMAIN cdr'))
  <2>1. left \in Seq(Values(DOMAIN cdr'))
    BY <1>9
  <2>. HIDE DEF NewPair
  <2>. QED
    BY <1>3, <1>9, <2>1
<1>11. args \in Seq(Values(DOMAIN cdr'))
  <2>1. Range(args) \subseteq Values(DOMAIN cdr')
    BY <1>9 DEF All
  <2>2. args \in Seq(Values(DOMAIN cdr))
    BY DEF StateInv
  <2>3. \A i \in 1 .. Len(args) : args[i] \in Values(DOMAIN cdr')
    BY <2>1, <2>2 DEF Range
  <2>. QED
    BY <2>2, <2>3
<1>. QED
  BY <1>3, <1>5, <1>6, <1>8, <1>10, <1>11

LEMMA RoundConses ==
  ASSUME StateInv, NEW x \in Fresh,
         NEW head \in Int, From(car, cdr, head, All),
         NEW tail \in Int, From(car, cdr, tail, All),
         NEW left \in Seq(All), pic_cons(x, head, tail, left), args' = args
  PROVE  /\ Heap(car', cdr') /\ x \in Int /\ IsPair(x)
         /\ Allocated(car, cdr, Spared, x, head, tail, car', cdr')
         /\ \A p \in Spared : cdr'[p] = cdr[p]
         /\ args' \in Seq(Values(DOMAIN cdr'))
         /\ arena' \in Seq(Values(DOMAIN cdr')) /\ arena' = Append(left, x)
         /\ \A R \in SUBSET All : \A v : From(car, cdr, v, R) => From(car', cdr', v, R)
<1>1. NewPair(x, head, tail, left, cdr)
  BY DEF pic_cons
<1>2. x \in 1 .. MaxPair
  BY NewPairIsNew
<1>3. x \in Int /\ IsPair(x)
  BY <1>2 DEF IsPair
<1>. QED
  BY <1>1, <1>3, RoundAllocates

(* A call of a procedure, which may cut one of the lists.                  *)
LEMMA CallReclaims ==
  ASSUME StateInv, Callback, args' = args
  PROVE  /\ Heap(car', cdr') /\ arena' = arena
         /\ args' \in Seq(Values(DOMAIN cdr')) /\ arena' \in Seq(Values(DOMAIN cdr'))
         /\ loop.proc \notin Mutating =>
              \A R \in SUBSET All : \A v : From(car, cdr, v, R) => From(car', cdr', v, R)
<1>1. Heap(car, cdr) /\ PairsOf(All) \subseteq DOMAIN cdr /\ All \subseteq Values(DOMAIN cdr)
  BY Roots DEF StateInv
<1>2. PICK d \in {cdr} \cup {[cdr EXCEPT ![p] = Nil] :
                              p \in IF loop.proc \in Mutating
                                    THEN Reachable(car, cdr, Range(args)) ELSE {}} :
        /\ car' = [p \in Reachable(car, d, All) |-> car[p]]
        /\ cdr' = [p \in Reachable(car, d, All) |-> d[p]]
        /\ arena' = arena
  BY DEF Callback, All
<1>3. Heap(car, d) /\ DOMAIN d = DOMAIN cdr
  <2>1. Nil \in Values(DOMAIN cdr)
    BY DEF Nil, Values, IsPair
  <2>2. \A p : Heap(car, [cdr EXCEPT ![p] = Nil]) /\ DOMAIN [cdr EXCEPT ![p] = Nil] = DOMAIN cdr
    BY <1>1, <2>1, CutIsHeap
  <2>3. d = cdr \/ \E p : d = [cdr EXCEPT ![p] = Nil]
    BY <1>2
  <2>. QED
    BY <1>1, <2>2, <2>3
<1>4. Heap(car', cdr') /\ DOMAIN cdr' = Reachable(car, d, All)
  BY <1>1, <1>2, <1>3, Reclamation
<1>5. All \subseteq Values(DOMAIN cdr')
  <2>1. \A v \in All : From(car, d, v, All)
    BY <1>1, <1>3, FromRoots
  <2>. QED
    BY <1>1, <1>4, <2>1 DEF From, Values
<1>6. args \in Seq(Values(DOMAIN cdr')) /\ arena \in Seq(Values(DOMAIN cdr'))
  <2>1. args \in Seq(Values(DOMAIN cdr)) /\ arena \in Seq(Values(DOMAIN cdr))
    BY DEF StateInv
  <2>2. \A i \in 1 .. Len(args) : args[i] \in Values(DOMAIN cdr')
    BY <1>5, <2>1 DEF Range, All
  <2>3. \A i \in 1 .. Len(arena) : arena[i] \in Values(DOMAIN cdr')
    BY <1>5, <2>1 DEF Range, All
  <2>. QED
    BY <2>1, <2>2, <2>3
<1>7. ASSUME loop.proc \notin Mutating, NEW R \in SUBSET All, NEW v, From(car, cdr, v, R)
      PROVE  From(car', cdr', v, R)
  <2>1. d = cdr
    BY <1>2, <1>7
  <2>2. \A p \in Reachable(car, cdr, All) : car'[p] = car[p] /\ cdr'[p] = cdr[p]
    BY <1>2, <2>1
  <2>. QED
    BY <1>1, <1>4, <1>7, <2>1, <2>2, ReachedAgain
<1>. QED
  BY <1>2, <1>4, <1>6, <1>7

LEMMA ConsIsProper ==
  ASSUME NEW e, NEW v, Proper(e, v), NEW x \in DOMAIN e, e[x] = v
  PROVE  Proper(e, x)
<1>1. PICK C \in SUBSET (DOMAIN e \cup {Nil}) : v \in C /\ \A p \in C : p # Nil => e[p] \in C
  BY DEF Proper
<1>2. C \cup {x} \in SUBSET (DOMAIN e \cup {Nil})
  BY <1>1
<1>3. \A p \in C \cup {x} : p # Nil => e[p] \in C \cup {x}
  BY <1>1
<1>. QED
  BY <1>2, <1>3 DEF Proper

LEMMA NilIsProper ==
  ASSUME NEW e
  PROVE  Proper(e, Nil)
BY {Nil} \in SUBSET (DOMAIN e \cup {Nil}) DEF Proper

LEMMA CdrIsProper ==
  ASSUME NEW a, NEW e, Heap(a, e), NEW v, Proper(e, v), v # Nil
  PROVE  v \in DOMAIN e /\ IsPair(v) /\ Proper(e, e[v])
BY DEF Proper, Heap, IsPair

LEMMA Fields ==
  ASSUME StateInv, NEW R \in SUBSET All, NEW p \in Int, IsPair(p), From(car, cdr, p, R)
  PROVE  /\ p \in DOMAIN cdr /\ car[p] \in Int /\ cdr[p] \in Int
         /\ car[p] \in Values(DOMAIN cdr) /\ cdr[p] \in Values(DOMAIN cdr)
         /\ From(car, cdr, p, All)
         /\ From(car, cdr, car[p], R) /\ From(car, cdr, cdr[p], R)
         /\ From(car, cdr, car[p], All) /\ From(car, cdr, cdr[p], All)
<1>1. Heap(car, cdr) /\ PairsOf(R) \subseteq DOMAIN cdr /\ PairsOf(All) \subseteq DOMAIN cdr
  BY Roots DEF StateInv
<1>2. /\ p \in DOMAIN cdr
      /\ From(car, cdr, car[p], R) /\ From(car, cdr, cdr[p], R)
  BY <1>1, FromRoots
<1>3. car[p] \in Values(DOMAIN cdr) /\ cdr[p] \in Values(DOMAIN cdr)
  BY <1>1, <1>2 DEF Heap
<1>4. \A v : From(car, cdr, v, R) => From(car, cdr, v, All)
  BY <1>1, FromRoots
<1>. QED
  BY <1>2, <1>3, <1>4 DEF Values

LEMMA Held ==
  ASSUME StateInv, NEW R \in SUBSET All, NEW v, From(car, cdr, v, R)
  PROVE  From(car, cdr, v, All) /\ (v \in Int => v \in Values(DOMAIN cdr))
<1>1. Heap(car, cdr) /\ PairsOf(All) \subseteq DOMAIN cdr
  BY Roots DEF StateInv
<1>. QED
  BY <1>1, FromRoots

-----------------------------------------------------------------------------
(* The rounds.                                                             *)

LEMMA ReverseRoundKeeps == IInv /\ ReverseRound => IInv'
<1>. SUFFICES ASSUME IInv, ReverseRound
              PROVE  IInv'
  OBVIOUS
<1>1. /\ StateInv /\ loop.pc = "reverse" /\ loop.it # Nil /\ args' = args
      /\ loop.proc \in {"reverse", "append", "map"}
      /\ loop.proc = "append" => loop.n < Len(args)
      /\ From(car, cdr, loop.it, Kept) /\ From(car, cdr, loop.aux, Kept)
      /\ Built(loop.acc) /\ Proper(cdr, loop.acc)
  BY DEF ReverseRound, IInv, ReverseInv
<1>2. From(car, cdr, loop.acc, All) /\ loop.acc \in Values(DOMAIN cdr)
  BY <1>1, BuiltIsHeld
<1>3. loop \in Loops
  BY <1>1 DEF StateInv
<1>4. CASE IsPair(loop.it)
  <2> DEFINE left == SubSeq(arena, 1, loop.ai)
  <2>1. PICK x \in Fresh :
          /\ pic_cons(x, car[loop.it], loop.acc, left)
          /\ loop' = [loop EXCEPT !.it = cdr[loop.it], !.acc = x]
    BY <1>4 DEF ReverseRound
  <2>2. Kept \in SUBSET All
    BY <1>1, Roots
  <2>3. /\ car[loop.it] \in Int /\ cdr[loop.it] \in Int
        /\ From(car, cdr, car[loop.it], All) /\ From(car, cdr, cdr[loop.it], Kept)
    BY <1>1, <1>3, <1>4, <2>2, Fields DEF Loops
  <2>4. left \in Seq(All) /\ Len(left) = loop.ai
    BY <1>1, SequencesOfRoots
  <2>. HIDE DEF left
  <2>5. /\ Heap(car', cdr') /\ x \in Int /\ IsPair(x)
        /\ Allocated(car, cdr, Spared, x, car[loop.it], loop.acc, car', cdr')
        /\ \A p \in Spared : cdr'[p] = cdr[p]
        /\ args' \in Seq(Values(DOMAIN cdr'))
        /\ arena' \in Seq(Values(DOMAIN cdr')) /\ arena' = Append(left, x)
        /\ \A R \in SUBSET All : \A v : From(car, cdr, v, R) => From(car', cdr', v, R)
    BY <1>1, <1>2, <1>3, <2>1, <2>3, <2>4, RoundConses DEF Loops
  <2>6. Len(arena') = loop.ai + 1 /\ SubSeq(arena', 1, loop.ai) = left
        /\ Range(arena') = Range(left) \cup {x}
    BY <1>1, <2>4, <2>5, SequencesOfRoots DEF left
  <2>8. loop'.pc = "reverse" /\ loop'.it = cdr[loop.it] /\ loop'.acc = x /\ loop'.aux = loop.aux
        /\ loop'.ai = loop.ai /\ loop'.n = loop.n /\ loop'.proc = loop.proc
    BY <1>1, <1>3, <2>1 DEF Loops
  <2>9. StateInv'
    <3>1. loop' \in Loops
      BY <1>3, <2>1, <2>3, <2>5 DEF Loops
    <3>2. loop'.ai <= Len(arena') /\ Len(args') > 0
      BY <1>1, <1>3, <2>6, <2>8 DEF StateInv, Loops
    <3>. QED
      BY <2>5, <3>1, <3>2 DEF StateInv
  <2>10. Kept' = Kept
    BY <1>1, <2>6, <2>8 DEF Kept, left
  <2>11. Proper(cdr', x)
    <3>1. Proper(cdr', loop.acc)
      <4>1. Spared \subseteq DOMAIN cdr' /\ Spared = Reachable(car, cdr, All)
        BY <2>5 DEF Allocated, Spared, All
      <4>. QED
        BY <1>1, <1>2, <2>5, <4>1, Roots, StaysProper DEF StateInv
    <3>2. x \in DOMAIN cdr' /\ cdr'[x] = loop.acc
      BY <2>5 DEF Allocated
    <3>. QED
      BY <3>1, <3>2, ConsIsProper
  <2>12. ReverseInv'
    <3>1. Built(x)'
      BY <2>6 DEF Built
    <3>. QED
      BY <1>1, <2>2, <2>3, <2>5, <2>8, <2>10, <2>11, <3>1 DEF ReverseInv, Built
  <2>. QED
    BY <2>8, <2>9, <2>12 DEF IInv, AppendInv, CopyInv, MakeInv, MapInv, SearchInv, LengthInv, ListPInv, DoneInv
<1>5. CASE ~IsPair(loop.it)
  <2>1. loop' = [loop EXCEPT !.pc = "error"] /\ UNCHANGED <<car, cdr, arena>>
    BY <1>5 DEF ReverseRound, Raise
  <2>2. loop'.pc = "error" /\ loop'.acc = loop.acc
    BY <1>3, <2>1 DEF Loops
  <2>3. StateInv'
    BY <1>1, <2>1 DEF StateInv, Loops
  <2>. QED
    BY <1>2, <2>1, <2>2, <2>3 DEF IInv, ReverseInv, AppendInv, CopyInv, MakeInv, MapInv, SearchInv, LengthInv, ListPInv, DoneInv
<1>. QED
  BY <1>4, <1>5

LEMMA ReverseEndKeeps == IInv /\ ReverseEnd => IInv'
<1>. SUFFICES ASSUME IInv, ReverseEnd
              PROVE  IInv'
  OBVIOUS
<1>1. /\ StateInv /\ loop.it = Nil /\ args' = args /\ UNCHANGED <<car, cdr, arena>>
      /\ loop \in Loops
      /\ loop.proc = "append" => loop.n < Len(args)
      /\ From(car, cdr, loop.aux, Kept)
      /\ Built(loop.acc) /\ Proper(cdr, loop.acc)
  BY DEF ReverseEnd, Quiet, IInv, ReverseInv, StateInv
<1>2. From(car, cdr, loop.acc, All) /\ loop.acc \in Values(DOMAIN cdr)
  BY <1>1, BuiltIsHeld
<1>3. CASE loop.proc = "append"
  <2>1. loop' = [loop EXCEPT !.pc = "cons", !.it = loop.acc, !.aux = loop.acc, !.acc = loop.aux]
    BY <1>3 DEF ReverseEnd
  <2>2. /\ loop'.pc = "cons" /\ loop'.it = loop.acc /\ loop'.aux = loop.acc
        /\ loop'.acc = loop.aux /\ loop'.n = loop.n /\ loop'.proc = loop.proc
    BY <1>1, <2>1 DEF Loops
  <2>3. StateInv'
    BY <1>1, <2>1 DEF StateInv, Loops
  <2>4. From(car, cdr, loop.aux, All)
    BY <1>1, Roots, Held
  <2>5. From(car, cdr, loop.acc, {loop.acc})
    BY <1>1, <1>2, FromRoots DEF PairsOf, Values, StateInv
  <2>6. All' = All
    BY <1>1 DEF All
  <2>7. AppendInv'
    BY <1>1, <1>3, <2>2, <2>4, <2>5, <2>6 DEF AppendInv, Built
  <2>. QED
    BY <2>2, <2>3, <2>7 DEF IInv, ReverseInv, CopyInv, MakeInv, MapInv, SearchInv, LengthInv, ListPInv, DoneInv
<1>4. CASE loop.proc # "append"
  <2>1. loop' = [loop EXCEPT !.pc = "done", !.acc = loop.acc]
    BY <1>4 DEF ReverseEnd, Return
  <2>2. loop'.pc = "done" /\ loop'.acc = loop.acc
    BY <1>1, <2>1 DEF Loops
  <2>3. StateInv'
    BY <1>1, <2>1 DEF StateInv, Loops
  <2>. QED
    BY <1>1, <1>2, <2>2, <2>3 DEF IInv, ReverseInv, AppendInv, CopyInv, MakeInv, MapInv, SearchInv, LengthInv, ListPInv, DoneInv
<1>. QED
  BY <1>3, <1>4

LEMMA AppendListKeeps == IInv /\ AppendList => IInv'
<1>. SUFFICES ASSUME IInv, AppendList
              PROVE  IInv'
  OBVIOUS
<1> DEFINE list == IF loop.n = 0 THEN Last(args) ELSE loop.acc
           i == Len(args) - 1 - loop.n
<1>1. /\ StateInv /\ args' = args /\ UNCHANGED <<car, cdr, arena>>
      /\ loop \in Loops
      /\ loop.proc = "append" /\ loop.n < Len(args)
      /\ From(car, cdr, loop.acc, All)
      /\ IF i = 0 THEN Return(list)
         ELSE loop' = [loop EXCEPT !.pc = "reverse", !.it = args[i], !.acc = Nil, !.aux = list,
                                   !.ai = Len(arena), !.n = loop.n + 1]
  BY DEF AppendList, Quiet, IInv, AppendInv, StateInv
<1>2. DOMAIN args = 1 .. Len(args) /\ Len(args) \in Nat /\ Len(args) > 0
      /\ \A j \in DOMAIN args : args[j] \in Args
  BY <1>1, SequencesOfRoots DEF StateInv
<1>3. From(car, cdr, list, All) /\ list \in Int
  <2>1. Last(args) \in Args
    BY <1>2 DEF Last
  <2>2. From(car, cdr, Last(args), All) /\ Last(args) \in Int
    BY <1>1, <2>1, Roots, Held DEF Values
  <2>. QED
    BY <1>1, <2>2 DEF Loops
<1>. HIDE DEF list
<1>4. list \in Values(DOMAIN cdr)
  BY <1>1, <1>3, Held
<1>5. CASE i = 0
  <2>1. loop' = [loop EXCEPT !.pc = "done", !.acc = list]
    BY <1>1, <1>5 DEF Return
  <2>2. loop'.pc = "done" /\ loop'.acc = list
    BY <1>1, <2>1 DEF Loops
  <2>3. StateInv'
    BY <1>1, <1>3, <2>1 DEF StateInv, Loops
  <2>. QED
    BY <1>1, <1>4, <2>2, <2>3 DEF IInv, ReverseInv, AppendInv, CopyInv, MakeInv, MapInv, SearchInv, LengthInv, ListPInv, DoneInv
<1>6. CASE i # 0
  <2>1. loop' = [loop EXCEPT !.pc = "reverse", !.it = args[i], !.acc = Nil, !.aux = list,
                             !.ai = Len(arena), !.n = loop.n + 1]
    BY <1>1, <1>6
  <2>2. /\ loop'.pc = "reverse" /\ loop'.it = args[i] /\ loop'.acc = Nil /\ loop'.aux = list
        /\ loop'.ai = Len(arena) /\ loop'.n = loop.n + 1 /\ loop'.proc = "append"
    BY <1>1, <2>1 DEF Loops
  <2>3. i \in DOMAIN args /\ loop.n + 1 < Len(args) /\ loop.n + 1 \in Nat
    BY <1>1, <1>2, <1>6 DEF Loops
  <2>4. args[i] \in Args /\ args[i] \in Int
    BY <1>1, <1>2, <2>3, Roots DEF Values, Args, All
  <2>5. arena \in Seq(All) /\ Len(arena) \in Nat
    BY <1>1, SequencesOfRoots
  <2>6. StateInv'
    <3>1. loop' \in Loops
      <4>. HIDE DEF i
      <4>1. Nil \in Int /\ args[i] \in Int /\ list \in Int /\ Len(arena) \in Nat
            /\ loop.n + 1 \in Nat
        BY <1>3, <2>3, <2>4, <2>5 DEF Nil
      <4>. QED
        BY <1>1, <2>1, <4>1 DEF Loops
    <3>. QED
      BY <1>1, <2>2, <2>5, <3>1 DEF StateInv
  <2>7. Kept' = All
    <3>1. SubSeq(arena, 1, Len(arena)) = arena
      BY <2>5
    <3>. QED
      BY <1>1, <2>2, <3>1 DEF Kept, All
  <2>8. From(car, cdr, args[i], All)
    BY <1>1, <2>4, Roots, Held
  <2>9. ReverseInv'
    BY <1>1, <1>3, <2>2, <2>3, <2>7, <2>8, NilIsProper DEF ReverseInv, Built
  <2>. QED
    BY <2>2, <2>6, <2>9 DEF IInv, AppendInv, CopyInv, MakeInv, MapInv, SearchInv, LengthInv, ListPInv, DoneInv
<1>. QED
  BY <1>5, <1>6

LEMMA AppendRoundKeeps == IInv /\ AppendRound => IInv'
<1>. SUFFICES ASSUME IInv, AppendRound
              PROVE  IInv'
  OBVIOUS
<1> DEFINE kept == SubSeq(arena, 1, loop.ai)
           left == Append(kept, loop.aux)
<1>1. /\ StateInv /\ loop.pc = "cons" /\ loop.it # Nil /\ args' = args
      /\ loop \in Loops
      /\ loop.proc = "append" /\ loop.n < Len(args)
      /\ From(car, cdr, loop.acc, All)
      /\ loop.aux \in Range(arena)
      /\ From(car, cdr, loop.it, {loop.aux}) /\ Proper(cdr, loop.it)
  BY DEF AppendRound, IInv, AppendInv, StateInv, Built
<1>2. PICK x \in Fresh : /\ pic_cons(x, car[loop.it], loop.acc, left)
                         /\ loop' = [loop EXCEPT !.it = cdr[loop.it], !.acc = x]
  BY DEF AppendRound
<1>3. loop.aux \in All /\ {loop.aux} \in SUBSET All
  BY <1>1 DEF All
<1>4. IsPair(loop.it) /\ Proper(cdr, cdr[loop.it])
  BY <1>1, CdrIsProper DEF StateInv
<1>5. /\ car[loop.it] \in Int /\ cdr[loop.it] \in Int
      /\ From(car, cdr, car[loop.it], All) /\ From(car, cdr, cdr[loop.it], All)
      /\ From(car, cdr, cdr[loop.it], {loop.aux})
  BY <1>1, <1>3, <1>4, Fields DEF Loops
<1>6. kept \in Seq(All) /\ Len(kept) = loop.ai
  BY <1>1, SequencesOfRoots
<1>7. left \in Seq(All) /\ Len(left) = loop.ai + 1 /\ loop.aux \in Range(left)
  <2>1. 0 \in 0 .. Len(kept)
    BY <1>1, <1>6 DEF Loops
  <2>. HIDE DEF kept
  <2>2. Range(left) = Range(kept) \cup {loop.aux} /\ Len(left) = Len(kept) + 1
    BY <1>6, <2>1, Sequences
  <2>3. left \in Seq(All)
    BY <1>3, <1>6
  <2>. QED
    BY <1>6, <2>2, <2>3
<1>. HIDE DEF left, kept
<1>8. /\ Heap(car', cdr') /\ x \in Int /\ IsPair(x)
      /\ Allocated(car, cdr, Spared, x, car[loop.it], loop.acc, car', cdr')
      /\ \A p \in Spared : cdr'[p] = cdr[p]
      /\ args' \in Seq(Values(DOMAIN cdr'))
      /\ arena' \in Seq(Values(DOMAIN cdr')) /\ arena' = Append(left, x)
      /\ \A R \in SUBSET All : \A v : From(car, cdr, v, R) => From(car', cdr', v, R)
  BY <1>1, <1>2, <1>5, <1>7, RoundConses DEF Loops
<1>9. Len(arena') = loop.ai + 2 /\ Range(arena') = Range(left) \cup {x}
  <2>1. 0 \in 0 .. Len(left) /\ loop.ai \in Nat
    BY <1>1, <1>7 DEF Loops
  <2>. QED
    BY <1>7, <1>8, <2>1, Sequences
<1>10. /\ loop'.pc = "cons" /\ loop'.it = cdr[loop.it] /\ loop'.acc = x /\ loop'.aux = loop.aux
       /\ loop'.ai = loop.ai /\ loop'.n = loop.n /\ loop'.proc = loop.proc
  BY <1>1, <1>2 DEF Loops
<1>11. StateInv'
  <2>1. loop' \in Loops
    BY <1>1, <1>2, <1>5, <1>8 DEF Loops
  <2>2. loop'.ai <= Len(arena') /\ Len(args') > 0
    BY <1>1, <1>9, <1>10 DEF StateInv, Loops
  <2>. QED
    BY <1>8, <2>1, <2>2 DEF StateInv
<1>12. From(car, cdr, x, All)' /\ x # Nil
  <2>1. x \in All'
    BY <1>9 DEF All
  <2>2. \A v \in Range(args') \cup Range(arena') :
          From(car', cdr', v, Range(args') \cup Range(arena'))
    BY <1>8, RootsAnywhere
  <2>3. x # Nil
    BY <1>8 DEF IsPair, Nil
  <2>. QED
    BY <2>1, <2>2, <2>3 DEF All
<1>13. Proper(cdr', cdr[loop.it])
  <2>1. Spared \subseteq DOMAIN cdr' /\ Spared = Reachable(car, cdr, All)
    BY <1>8 DEF Allocated, Spared, All
  <2>. QED
    BY <1>1, <1>4, <1>5, <1>8, <2>1, Roots, StaysProper DEF StateInv
<1>14. Built(loop.aux)' /\ loop.aux # Nil
  <2>1. loop.aux # Nil
    BY <1>1, <1>4 DEF IInv, AppendInv
  <2>. QED
    BY <1>7, <1>9, <1>10, <2>1 DEF Built
<1>15. AppendInv'
  BY <1>1, <1>3, <1>5, <1>8, <1>10, <1>12, <1>13, <1>14 DEF AppendInv, Built
<1>. QED
  BY <1>10, <1>11, <1>15 DEF IInv, ReverseInv, CopyInv, MakeInv, MapInv, SearchInv, LengthInv, ListPInv, DoneInv

LEMMA AppendEndKeeps == IInv /\ AppendEnd => IInv'
<1>. SUFFICES ASSUME IInv, AppendEnd
              PROVE  IInv'
  OBVIOUS
<1>1. /\ StateInv /\ loop.it = Nil /\ args' = args /\ UNCHANGED <<car, cdr, arena>>
      /\ loop \in Loops /\ loop' = [loop EXCEPT !.pc = "append"]
      /\ loop.proc = "append" /\ loop.n < Len(args)
      /\ From(car, cdr, loop.acc, All) /\ Built(loop.aux)
  BY DEF AppendEnd, Quiet, IInv, AppendInv, StateInv
<1>2. /\ loop'.pc = "append" /\ loop'.it = Nil /\ loop'.acc = loop.acc /\ loop'.aux = loop.aux
      /\ loop'.n = loop.n /\ loop'.proc = loop.proc
  BY <1>1 DEF Loops
<1>3. StateInv'
  BY <1>1 DEF StateInv, Loops
<1>4. From(car, cdr, loop.aux, All) /\ From(car, cdr, Nil, All) /\ All' = All
  <2>1. From(car, cdr, loop.aux, All)
    BY <1>1, BuiltIsHeld
  <2>2. From(car, cdr, Nil, All)
    BY DEF From, IsPair, Nil
  <2>. QED
    BY <1>1, <2>1, <2>2 DEF All
<1>5. AppendInv'
  BY <1>1, <1>2, <1>4 DEF AppendInv
<1>. QED
  BY <1>2, <1>3, <1>5 DEF IInv, ReverseInv, CopyInv, MakeInv, MapInv, SearchInv, LengthInv, ListPInv, DoneInv

LEMMA CopyRoundKeeps == IInv /\ CopyRound => IInv'
<1>. SUFFICES ASSUME IInv, CopyRound
              PROVE  IInv'
  OBVIOUS
<1>1. /\ StateInv /\ loop.pc = "list-copy" /\ IsPair(loop.it) /\ args' = args
      /\ loop \in Loops
      /\ From(car, cdr, loop.it, Args) /\ Built(loop.acc) /\ Built(loop.aux)
      /\ loop.acc # Nil => IsPair(loop.acc) /\ cdr[loop.acc] = Nil
  BY DEF CopyRound, IInv, CopyInv, StateInv
<1> DEFINE g(x) == IF loop.acc = Nil THEN cdr ELSE [cdr EXCEPT ![loop.acc] = x]
<1>2. PICK x \in Fresh :
        /\ NewPair(x, car[loop.it], Nil, arena, g(x))
        /\ loop' = [loop EXCEPT !.it = cdr[loop.it], !.acc = x,
                                !.aux = IF loop.aux = Nil THEN x ELSE loop.aux]
  BY DEF CopyRound
<1>3. Args \in SUBSET All
  BY <1>1, Roots
<1>4. /\ car[loop.it] \in Int /\ cdr[loop.it] \in Int
      /\ From(car, cdr, car[loop.it], All) /\ From(car, cdr, cdr[loop.it], Args)
  BY <1>1, <1>3, Fields DEF Loops
<1>5. arena \in Seq(All) /\ Range(Append(arena, x)) = Range(arena) \cup {x}
      /\ Len(Append(arena, x)) = Len(arena) + 1
  BY <1>1, SequencesOfRoots
<1>6. From(car, cdr, Nil, All) /\ Nil \in Int
  BY DEF From, Nil, IsPair
<1>7. \A p \in Spared : g(x)[p] = cdr[p] \/ (g(x)[p] = x /\ ~IsPair(cdr[p]))
  <2>1. \A p \in Spared : p \in DOMAIN cdr
    BY <1>1, Roots, ReachableIs DEF Spared, All, StateInv
  <2>. QED
    BY <1>1, <2>1 DEF Nil, IsPair
<1>. HIDE DEF g
<1>8. /\ Heap(car', cdr')
      /\ Allocated(car, cdr, Spared, x, car[loop.it], Nil, car', cdr')
      /\ args' \in Seq(Values(DOMAIN cdr'))
      /\ arena' \in Seq(Values(DOMAIN cdr')) /\ arena' = Append(arena, x)
      /\ \A R \in SUBSET All : \A v : From(car, cdr, v, R) => From(car', cdr', v, R)
  BY <1>1, <1>2, <1>4, <1>5, <1>6, <1>7, RoundAllocates
<1>9. IsPair(x) /\ x \in Int /\ cdr'[x] = Nil
  BY <1>1, <1>8, NewPairIsNew DEF Allocated
<1>10. /\ loop'.pc = "list-copy" /\ loop'.it = cdr[loop.it] /\ loop'.acc = x
       /\ loop'.aux \in {x, loop.aux} /\ loop'.ai = loop.ai
  BY <1>1, <1>2 DEF Loops
<1>11. StateInv'
  <2>1. loop' \in Loops
    BY <1>1, <1>2, <1>4, <1>9 DEF Loops
  <2>2. loop'.ai <= Len(arena') /\ Len(args') > 0
    BY <1>1, <1>5, <1>8, <1>10 DEF StateInv, Loops
  <2>. QED
    BY <1>8, <2>1, <2>2 DEF StateInv
<1>12. CopyInv'
  <2>1. \A v \in {x, loop.aux} : Built(v)'
    BY <1>1, <1>5, <1>8 DEF Built
  <2>2. From(car', cdr', cdr[loop.it], Args) /\ Args' = Args
    BY <1>1, <1>3, <1>4, <1>8 DEF Args
  <2>. QED
    BY <1>9, <1>10, <2>1, <2>2 DEF CopyInv, Built
<1>. QED
  BY <1>10, <1>11, <1>12 DEF IInv, ReverseInv, AppendInv, MakeInv, MapInv, SearchInv, LengthInv, ListPInv, DoneInv

LEMMA CopyEndKeeps == IInv /\ CopyEnd => IInv'
<1>. SUFFICES ASSUME IInv, CopyEnd
              PROVE  IInv'
  OBVIOUS
<1>1. /\ StateInv /\ ~IsPair(loop.it) /\ UNCHANGED <<car, args, arena>>
      /\ loop \in Loops /\ Built(loop.acc) /\ Built(loop.aux)
  BY DEF CopyEnd, IInv, CopyInv, StateInv
<1>2. loop.it \in Values(DOMAIN cdr) /\ loop.aux \in Values(DOMAIN cdr)
  BY <1>1, BuiltIsHeld DEF Values, Loops
<1>3. PICK v \in {loop.it, loop.aux} : loop' = [loop EXCEPT !.pc = "done", !.acc = v]
  BY DEF CopyEnd, Return
<1>4. cdr' = cdr \/ cdr' = [cdr EXCEPT ![loop.acc] = loop.it]
  BY DEF CopyEnd
<1>5. Heap(car', cdr') /\ DOMAIN cdr' = DOMAIN cdr
  <2>1. Heap(car, cdr)
    BY <1>1 DEF StateInv
  <2>2. /\ Heap(car, [cdr EXCEPT ![loop.acc] = loop.it])
        /\ DOMAIN [cdr EXCEPT ![loop.acc] = loop.it] = DOMAIN cdr
    BY <1>2, <2>1, CutIsHeap
  <2>. QED
    BY <1>1, <1>4, <2>1, <2>2
<1>6. loop'.pc = "done" /\ loop'.acc \in Values(DOMAIN cdr')
  BY <1>1, <1>2, <1>3, <1>5 DEF Loops
<1>7. loop' \in Loops /\ loop'.ai = loop.ai
  BY <1>1, <1>2, <1>3 DEF Loops, Values
<1>8. StateInv'
  BY <1>1, <1>5, <1>7 DEF StateInv
<1>. QED
  BY <1>6, <1>8 DEF IInv, ReverseInv, AppendInv, CopyInv, MakeInv, MapInv, SearchInv, LengthInv, ListPInv, DoneInv

LEMMA MakeRoundKeeps == IInv /\ MakeRound => IInv'
<1>. SUFFICES ASSUME IInv, MakeRound
              PROVE  IInv'
  OBVIOUS
<1>1. /\ StateInv /\ loop.pc \in {"make-list", "list"} /\ args' = args
      /\ loop \in Loops /\ loop.proc = loop.pc /\ Built(loop.acc) /\ loop.n <= Len(Elements)
  BY DEF MakeRound, IInv, MakeInv, StateInv
<1>2. From(car, cdr, loop.acc, All) /\ loop.acc \in Values(DOMAIN cdr)
  BY <1>1, BuiltIsHeld
<1>3. CASE loop.n = Len(Elements)
  <2>1. loop' = [loop EXCEPT !.pc = "done", !.acc = loop.acc] /\ UNCHANGED <<car, cdr, arena>>
    BY <1>3 DEF MakeRound, Return, Quiet, Elements
  <2>2. loop'.pc = "done" /\ loop'.acc = loop.acc
    BY <1>1, <2>1 DEF Loops
  <2>3. StateInv'
    BY <1>1, <2>1 DEF StateInv, Loops
  <2>. QED
    BY <1>2, <2>1, <2>2, <2>3 DEF IInv, ReverseInv, AppendInv, CopyInv, MakeInv, MapInv, SearchInv, LengthInv, ListPInv, DoneInv
<1>4. CASE loop.n # Len(Elements)
  <2> DEFINE head == Elements[Len(Elements) - loop.n]
  <2>1. PICK x \in Fresh : /\ pic_cons(x, head, loop.acc, arena)
                           /\ loop' = [loop EXCEPT !.n = loop.n + 1, !.acc = x]
    BY <1>4 DEF MakeRound, Elements
  <2>2. head \in Args
    <3>1. /\ DOMAIN args = 1 .. Len(args) /\ Len(args) \in Nat /\ Len(args) > 0
          /\ \A i \in DOMAIN args : args[i] \in Args
      BY <1>1, SequencesOfRoots DEF StateInv
    <3>2. CASE loop.pc = "list"
      <4>1. Len(args) - loop.n \in DOMAIN args /\ Elements = args
        BY <1>1, <1>4, <3>1, <3>2 DEF Elements, Loops
      <4>. QED
        BY <3>1, <4>1
    <3>3. CASE loop.pc # "list"
      <4>1. Elements = [i \in 1 .. Given |-> args[1]] /\ Given \in Nat
        BY <3>3, ListAssumption DEF Elements
      <4>2. Len(Elements) = Given
        BY <4>1
      <4>3. Given - loop.n \in 1 .. Given
        BY <1>1, <1>4, <4>1, <4>2 DEF Loops
      <4>4. head = args[1]
        BY <4>1, <4>2, <4>3
      <4>. QED
        BY <3>1, <4>4
    <3>. QED
      BY <3>2, <3>3
  <2>. HIDE DEF head
  <2>3. From(car, cdr, head, All) /\ head \in Int
    BY <1>1, <2>2, Roots, Held DEF Values
  <2>4. arena \in Seq(All) /\ Range(Append(arena, x)) = Range(arena) \cup {x}
        /\ Len(Append(arena, x)) = Len(arena) + 1
    BY <1>1, SequencesOfRoots
  <2>5. /\ Heap(car', cdr') /\ x \in Int
        /\ args' \in Seq(Values(DOMAIN cdr'))
        /\ arena' \in Seq(Values(DOMAIN cdr')) /\ arena' = Append(arena, x)
    BY <1>1, <1>2, <2>1, <2>3, <2>4, RoundConses DEF Loops
  <2>6. /\ loop'.pc = loop.pc /\ loop'.acc = x /\ loop'.n = loop.n + 1
        /\ loop'.ai = loop.ai /\ loop'.proc = loop.proc /\ loop' \in Loops
    <3>1. loop \in Loops /\ loop' = [loop EXCEPT !.n = loop.n + 1, !.acc = x]
          /\ x \in Int /\ loop.n + 1 \in Nat
      BY <1>1, <2>1, <2>5 DEF Loops
    <3>. QED
      BY <3>1 DEF Loops
  <2>7. StateInv'
    BY <1>1, <2>4, <2>5, <2>6 DEF StateInv, Loops
  <2>8. loop.n + 1 <= Len(Elements) /\ Elements' = Elements
    <3>1. Elements' = Elements
      BY <1>1, <2>6 DEF Elements
    <3>2. Len(Elements) \in Nat
      <4>1. Len(args) \in Nat
        BY <1>1 DEF StateInv
      <4>2. Given \in Nat
        BY ListAssumption
      <4>. QED
        BY <4>1, <4>2 DEF Elements
    <3>. QED
      BY <1>1, <1>4, <3>1, <3>2 DEF Loops
  <2>9. Built(x)'
    BY <2>4, <2>5 DEF Built
  <2>10. MakeInv'
    BY <1>1, <2>6, <2>8, <2>9 DEF MakeInv, Built
  <2>. QED
    BY <1>1, <2>6, <2>7, <2>10 DEF IInv, ReverseInv, AppendInv, CopyInv, MapInv, SearchInv, LengthInv, ListPInv, DoneInv
<1>. QED
  BY <1>3, <1>4

LEMMA MapRoundKeeps == IInv /\ MapRound => IInv'
<1>. SUFFICES ASSUME IInv, MapRound
              PROVE  IInv'
  OBVIOUS
<1> DEFINE stop == {i \in DOMAIN args : ~IsPair(args[i])}
<1>1. /\ StateInv /\ loop.pc = "map" /\ UNCHANGED <<car, cdr, arena>>
      /\ loop \in Loops /\ loop.proc \in {"map", "for-each"}
      /\ Built(loop.acc) /\ loop.aux = Nil /\ loop.it \in Values(DOMAIN cdr)
      /\ args' = [i \in DOMAIN args |->
                    IF \A j \in stop : i < j THEN cdr[args[i]] ELSE args[i]]
  BY DEF MapRound, Quiet, IInv, MapInv, StateInv
<1>2. /\ DOMAIN args = 1 .. Len(args) /\ Len(args) \in Nat
      /\ args \in Seq(Values(DOMAIN cdr)) /\ arena \in Seq(Values(DOMAIN cdr))
      /\ Heap(car, cdr) /\ loop.ai <= Len(arena) /\ Len(arena) \in Nat
  BY <1>1, SequencesOfRoots DEF StateInv
<1>3. \A i \in DOMAIN args : args'[i] \in Values(DOMAIN cdr)
  <2>1. SUFFICES ASSUME NEW i \in DOMAIN args
                 PROVE  args'[i] \in Values(DOMAIN cdr)
    OBVIOUS
  <2>2. args[i] \in Values(DOMAIN cdr) /\ i \in Int
    BY <1>2
  <2>3. (\A j \in stop : i < j) => IsPair(args[i])
    BY <2>2
  <2>. QED
    BY <1>1, <1>2, <2>2, <2>3 DEF Heap, Values
<1>4. args' \in Seq(Values(DOMAIN cdr)) /\ Len(args') = Len(args)
  <2>1. DOMAIN args' = 1 .. Len(args)
    BY <1>1, <1>2
  <2>2. args' = [i \in 1 .. Len(args) |-> args'[i]]
    BY <1>1, <1>2
  <2>. QED
    BY <1>2, <1>3, <2>2
<1>5. /\ loop' \in Loops /\ loop'.ai <= Len(arena) /\ loop'.proc = loop.proc
      /\ \/ loop'.pc = "call" /\ loop'.it = loop.it /\ loop'.acc = loop.acc /\ loop'.aux = loop.aux
         \/ /\ loop.proc = "map" /\ loop'.pc = "reverse" /\ loop'.it = loop.acc /\ loop'.acc = Nil
            /\ loop'.ai = Len(arena) /\ loop'.aux = loop.aux
         \/ loop'.pc = "done" /\ loop'.acc = Nil
  <2>1. \/ loop' = [loop EXCEPT !.pc = "call"]
        \/ loop.proc = "map" /\ loop' = [loop EXCEPT !.pc = "reverse", !.it = loop.acc, !.acc = Nil,
                                                     !.ai = Len(arena)]
        \/ loop' = [loop EXCEPT !.pc = "done", !.acc = Nil]
    BY DEF MapRound, Return
  <2>2. Nil \in Int /\ Len(arena) \in Nat /\ loop \in Loops /\ loop.ai <= Len(arena)
    BY <1>1, <1>2 DEF Nil
  <2>3. CASE loop' = [loop EXCEPT !.pc = "call"]
    BY <2>2, <2>3 DEF Loops
  <2>4. CASE loop.proc = "map" /\ loop' = [loop EXCEPT !.pc = "reverse", !.it = loop.acc, !.acc = Nil,
                                                       !.ai = Len(arena)]
    <3>1. /\ loop'.proc = loop.proc /\ loop'.pc = "reverse" /\ loop'.it = loop.acc /\ loop'.acc = Nil
          /\ loop'.ai = Len(arena) /\ loop'.aux = loop.aux
      BY <2>2, <2>4 DEF Loops
    <3>2. loop' \in Loops
      BY <2>2, <2>4 DEF Loops
    <3>. QED
      BY <2>2, <2>4, <3>1, <3>2
  <2>5. CASE loop' = [loop EXCEPT !.pc = "done", !.acc = Nil]
    BY <2>2, <2>5 DEF Loops
  <2>. QED
    BY <2>1, <2>3, <2>4, <2>5
<1>6. StateInv'
  BY <1>1, <1>2, <1>4, <1>5 DEF StateInv
<1>7. CASE loop'.pc = "call"
  <2>1. MapInv'
    BY <1>1, <1>5, <1>7 DEF MapInv, Built
  <2>. QED
    BY <1>6, <1>7, <2>1 DEF IInv, ReverseInv, AppendInv, CopyInv, MakeInv, SearchInv, LengthInv, ListPInv, DoneInv
<1>8. CASE loop'.pc = "reverse"
  <2>1. /\ loop.proc = "map" /\ loop'.it = loop.acc /\ loop'.acc = Nil
        /\ loop'.ai = Len(arena) /\ loop'.aux = Nil
    BY <1>1, <1>5, <1>8
  <2>2. From(car, cdr, loop.acc, Kept')
    <3>1. SubSeq(arena, 1, Len(arena)) = arena
      BY <1>2
    <3>2. Kept' = Range(args') \cup Range(arena)
      BY <1>1, <2>1, <3>1 DEF Kept
    <3>3. \A v \in Range(args') \cup Range(arena) : From(car, cdr, v, Range(args') \cup Range(arena))
      BY <1>2, <1>4, RootsAnywhere
    <3>4. CASE loop.acc = Nil
      BY <3>4 DEF From, Nil, IsPair
    <3>5. CASE loop.acc \in Range(arena)
      BY <3>2, <3>3, <3>5
    <3>. QED
      BY <1>1, <3>4, <3>5 DEF Built
  <2>3. From(car, cdr, Nil, Kept') /\ Proper(cdr, Nil)
    BY NilIsProper DEF From, Nil, IsPair
  <2>4. ReverseInv'
    BY <1>1, <1>5, <2>1, <2>2, <2>3 DEF ReverseInv, Built
  <2>. QED
    BY <1>6, <1>8, <2>4 DEF IInv, AppendInv, CopyInv, MakeInv, MapInv, SearchInv, LengthInv, ListPInv, DoneInv
<1>9. CASE loop'.pc = "done"
  <2>1. loop'.acc \in Values(DOMAIN cdr)
    BY <1>5, <1>9 DEF Values, Nil, IsPair
  <2>. QED
    BY <1>1, <1>6, <1>9, <2>1 DEF IInv, ReverseInv, AppendInv, CopyInv, MakeInv, MapInv, SearchInv, LengthInv, ListPInv, DoneInv
<1>. QED
  BY <1>5, <1>7, <1>8, <1>9

(* The callback and the push of map hold the values so far in the arena.   *)
LEMMA MapCallKeeps == IInv /\ MapCall => IInv'
<1>. SUFFICES ASSUME IInv, MapCall
              PROVE  IInv'
  OBVIOUS
<1>1. /\ StateInv /\ loop.pc = "call" /\ args' = args /\ Callback
      /\ loop \in Loops /\ loop.proc \in {"map", "for-each"}
      /\ Built(loop.acc) /\ loop.aux = Nil
  BY DEF MapCall, IInv, MapInv, StateInv
<1>2. PICK v \in Atom : loop' = [loop EXCEPT !.pc = IF loop.proc = "map" THEN "push" ELSE "map",
                                             !.it = v]
  BY DEF MapCall
<1>3. v \in Int /\ ~IsPair(v)
  BY ListAssumption DEF IsPair
<1>4. /\ Heap(car', cdr') /\ arena' = arena
      /\ args' \in Seq(Values(DOMAIN cdr')) /\ arena' \in Seq(Values(DOMAIN cdr'))
  BY <1>1, CallReclaims
<1>5. /\ loop'.pc \in {"push", "map"} /\ loop'.it = v /\ loop'.acc = loop.acc
      /\ loop'.aux = loop.aux /\ loop'.ai = loop.ai /\ loop'.proc = loop.proc
      /\ loop'.pc = "push" => loop.proc = "map"
      /\ loop' \in Loops
  BY <1>1, <1>2, <1>3 DEF Loops
<1>6. StateInv'
  BY <1>1, <1>4, <1>5 DEF StateInv
<1>7. MapInv'
  BY <1>1, <1>3, <1>4, <1>5 DEF MapInv, Built, Values
<1>. QED
  BY <1>5, <1>6, <1>7 DEF IInv, ReverseInv, AppendInv, CopyInv, MakeInv, SearchInv, LengthInv, ListPInv, DoneInv

LEMMA MapPushKeeps == IInv /\ MapPush => IInv'
<1>. SUFFICES ASSUME IInv, MapPush
              PROVE  IInv'
  OBVIOUS
<1>1. /\ StateInv /\ loop.pc = "push" /\ args' = args
      /\ loop \in Loops /\ loop.proc = "map" /\ ~IsPair(loop.it)
      /\ Built(loop.acc) /\ loop.aux = Nil
  BY DEF MapPush, IInv, MapInv, StateInv
<1>2. PICK x \in Fresh : /\ pic_cons(x, loop.it, loop.acc, arena)
                         /\ loop' = [loop EXCEPT !.pc = "map", !.acc = x]
  BY DEF MapPush
<1>3. From(car, cdr, loop.acc, All) /\ From(car, cdr, loop.it, All)
  BY <1>1, BuiltIsHeld DEF From
<1>4. arena \in Seq(All) /\ Range(Append(arena, x)) = Range(arena) \cup {x}
      /\ Len(Append(arena, x)) = Len(arena) + 1
  BY <1>1, SequencesOfRoots
<1>5. /\ Heap(car', cdr') /\ x \in Int
      /\ args' \in Seq(Values(DOMAIN cdr'))
      /\ arena' \in Seq(Values(DOMAIN cdr')) /\ arena' = Append(arena, x)
  BY <1>1, <1>2, <1>3, <1>4, RoundConses DEF Loops
<1>6. /\ loop'.pc = "map" /\ loop'.it = loop.it /\ loop'.acc = x
      /\ loop'.aux = loop.aux /\ loop'.ai = loop.ai /\ loop'.proc = loop.proc
      /\ loop' \in Loops
  BY <1>1, <1>2, <1>5 DEF Loops
<1>7. StateInv'
  <2>1. loop'.ai <= Len(arena')
    BY <1>1, <1>4, <1>5, <1>6 DEF StateInv, Loops
  <2>. QED
    BY <1>1, <1>5, <1>6, <2>1 DEF StateInv
<1>8. MapInv'
  <2>1. Built(x)'
    BY <1>4, <1>5 DEF Built
  <2>2. loop.it \in Values(DOMAIN cdr')
    BY <1>1 DEF Values, Loops
  <2>. QED
    BY <1>1, <1>6, <2>1, <2>2 DEF MapInv, Built
<1>. QED
  BY <1>6, <1>7, <1>8 DEF IInv, ReverseInv, AppendInv, CopyInv, MakeInv, SearchInv, LengthInv, ListPInv, DoneInv

(* The test of a search, whose procedure leaves the lists alone.           *)
LEMMA TestSpares ==
  ASSUME StateInv, SearchInv, loop.pc \in {"member", "assoc"}, args' = args,
         Mutating \cap {"member", "assoc"} = {},
         NEW element, NEW found, Test(element, found)
  PROVE  /\ Heap(car', cdr') /\ arena' = arena
         /\ args' \in Seq(Values(DOMAIN cdr')) /\ arena' \in Seq(Values(DOMAIN cdr'))
         /\ \A R \in SUBSET All : \A v : From(car, cdr, v, R) => From(car', cdr', v, R)
<1>1. CASE loop.proc \in {"memv", "assv"}
  BY <1>1 DEF Test, Quiet, StateInv
<1>2. CASE loop.proc \notin {"memv", "assv"}
  <2>1. loop.proc \in {"member", "assoc"}
    BY <1>2 DEF SearchInv, FirstLoop
  <2>. QED
    BY <1>2, <2>1, CallReclaims DEF Test
<1>. QED
  BY <1>1, <1>2

(* A search that ends with v, or goes on to the next pair.                 *)
LEMMA SearchKeeps ==
  ASSUME IInv, loop.pc \in {"member", "assoc"}, IsPair(loop.it), args' = args,
         Mutating \cap {"member", "assoc"} = {},
         NEW element, NEW found \in BOOLEAN, Test(element, found),
         NEW v \in Int, From(car, cdr, v, Args),
         IF found THEN Return(v) ELSE loop' = [loop EXCEPT !.pc = "next"]
  PROVE  IInv'
<1>1. /\ StateInv /\ SearchInv /\ loop \in Loops
      /\ FirstLoop(loop.proc) \in {"member", "assoc"}
      /\ From(car, cdr, loop.it, Args) /\ loop.acc = Nil /\ loop.aux = Nil
  BY DEF IInv, SearchInv, StateInv
<1>2. Args \in SUBSET All
  BY <1>1, Roots
<1>3. /\ Heap(car', cdr') /\ arena' = arena
      /\ args' \in Seq(Values(DOMAIN cdr')) /\ arena' \in Seq(Values(DOMAIN cdr'))
      /\ From(car', cdr', v, Args) /\ From(car', cdr', loop.it, Args)
  BY <1>1, <1>2, TestSpares
<1>4. CASE found
  <2>1. loop' = [loop EXCEPT !.pc = "done", !.acc = v]
    BY <1>4 DEF Return
  <2>2. loop'.pc = "done" /\ loop'.acc = v /\ loop'.ai = loop.ai /\ loop' \in Loops
    BY <1>1, <2>1 DEF Loops
  <2>3. StateInv'
    BY <1>1, <1>3, <2>2 DEF StateInv
  <2>4. v \in Values(DOMAIN cdr')
    <3>1. PairsOf(Args) \subseteq DOMAIN cdr'
      <4>1. PairsOf(Range(args') \cup Range(arena')) \subseteq DOMAIN cdr'
        BY <1>3, RootsAnywhere
      <4>. QED
        BY <4>1 DEF PairsOf, Args
    <3>. QED
      BY <1>3, <3>1, FromRoots
  <2>. QED
    BY <2>2, <2>3, <2>4 DEF IInv, ReverseInv, AppendInv, CopyInv, MakeInv, MapInv, SearchInv, LengthInv, ListPInv, DoneInv
<1>5. CASE ~found
  <2>1. loop' = [loop EXCEPT !.pc = "next"]
    BY <1>5
  <2>2. /\ loop'.pc = "next" /\ loop'.it = loop.it /\ loop'.acc = loop.acc /\ loop'.aux = loop.aux
        /\ loop'.ai = loop.ai /\ loop'.proc = loop.proc /\ loop' \in Loops
    BY <1>1, <2>1 DEF Loops
  <2>3. StateInv'
    BY <1>1, <1>3, <2>2 DEF StateInv
  <2>4. SearchInv'
    BY <1>1, <1>3, <2>2 DEF SearchInv, Args
  <2>. QED
    BY <2>2, <2>3, <2>4 DEF IInv, ReverseInv, AppendInv, CopyInv, MakeInv, MapInv, LengthInv, ListPInv, DoneInv
<1>. QED
  BY <1>4, <1>5

(* A search that ends at once.                                             *)
LEMMA EndKeeps ==
  ASSUME IInv, loop.acc = Nil, Quiet, args' = args,
         NEW v \in Int, ~IsPair(v),
         Return(v) \/ loop' = [loop EXCEPT !.pc = "error"]
  PROVE  IInv'
<1>1. StateInv /\ loop \in Loops /\ UNCHANGED <<car, cdr, arena>>
  BY DEF IInv, StateInv, Quiet
<1>2. loop'.pc \in {"done", "error"} /\ loop'.acc \in {v, Nil} /\ loop'.ai = loop.ai
      /\ loop' \in Loops
  <2>1. CASE loop' = [loop EXCEPT !.pc = "done", !.acc = v]
    BY <1>1, <2>1 DEF Loops
  <2>2. CASE loop' = [loop EXCEPT !.pc = "error"]
    BY <1>1, <2>2 DEF Loops
  <2>. QED
    BY <2>1, <2>2 DEF Return
<1>3. StateInv'
  BY <1>1, <1>2 DEF StateInv
<1>4. loop'.acc \in Values(DOMAIN cdr')
  BY <1>2 DEF Values, Nil, IsPair
<1>. QED
  BY <1>2, <1>3, <1>4 DEF IInv, ReverseInv, AppendInv, CopyInv, MakeInv, MapInv, SearchInv, LengthInv, ListPInv, DoneInv

LEMMA MemberRoundKeeps ==
  ASSUME Mutating \cap {"member", "assoc"} = {}
  PROVE  IInv /\ MemberRound => IInv'
<1>. SUFFICES ASSUME IInv, MemberRound
              PROVE  IInv'
  OBVIOUS
<1>1. /\ StateInv /\ loop.pc = "member" /\ args' = args /\ loop \in Loops
      /\ From(car, cdr, loop.it, Args) /\ loop.acc = Nil
  BY DEF MemberRound, IInv, SearchInv, StateInv
<1>2. False \in Int /\ ~IsPair(False)
  BY DEF False, IsPair
<1>3. CASE Quiet /\ (Return(False) \/ loop' = [loop EXCEPT !.pc = "error"])
  BY <1>1, <1>2, <1>3, EndKeeps
<1>4. CASE /\ IsPair(loop.it)
           /\ \E found \in BOOLEAN :
                /\ Test(car[loop.it], found)
                /\ IF found THEN Return(loop.it) ELSE loop' = [loop EXCEPT !.pc = "next"]
  <2>1. loop.it \in Int
    BY <1>1 DEF Loops
  <2>. QED
    BY <1>1, <1>4, <2>1, SearchKeeps
<1>. QED
  BY <1>3, <1>4 DEF MemberRound, Raise, Quiet

LEMMA AssocRoundKeeps ==
  ASSUME Mutating \cap {"member", "assoc"} = {}
  PROVE  IInv /\ AssocRound => IInv'
<1>. SUFFICES ASSUME IInv, AssocRound
              PROVE  IInv'
  OBVIOUS
<1>1. /\ StateInv /\ loop.pc = "assoc" /\ args' = args /\ loop \in Loops
      /\ From(car, cdr, loop.it, Args) /\ loop.acc = Nil
  BY DEF AssocRound, IInv, SearchInv, StateInv
<1>2. False \in Int /\ ~IsPair(False)
  BY DEF False, IsPair
<1>3. CASE Quiet /\ (Return(False) \/ loop' = [loop EXCEPT !.pc = "error"])
  BY <1>1, <1>2, <1>3, EndKeeps
<1>4. CASE /\ IsPair(loop.it)
           /\ \E found \in BOOLEAN :
                /\ Test(car[car[loop.it]], found)
                /\ IF found THEN Return(car[loop.it]) ELSE loop' = [loop EXCEPT !.pc = "next"]
  <2>1. car[loop.it] \in Int /\ From(car, cdr, car[loop.it], Args)
    BY <1>1, <1>4, Roots, Fields DEF Loops
  <2>. QED
    BY <1>1, <1>4, <2>1, SearchKeeps
<1>. QED
  BY <1>3, <1>4 DEF AssocRound, Raise, Quiet

LEMMA NextPairKeeps == IInv /\ NextPair => IInv'
<1>. SUFFICES ASSUME IInv, NextPair
              PROVE  IInv'
  OBVIOUS
<1>1. /\ StateInv /\ UNCHANGED <<car, cdr, arena, args>> /\ loop \in Loops
      /\ FirstLoop(loop.proc) \in {"member", "assoc"} /\ IsPair(loop.it)
      /\ From(car, cdr, loop.it, Args) /\ loop.acc = Nil /\ loop.aux = Nil
      /\ loop' = [loop EXCEPT !.pc = FirstLoop(loop.proc), !.it = cdr[loop.it]]
  BY DEF NextPair, Quiet, IInv, SearchInv, StateInv
<1>2. cdr[loop.it] \in Int /\ From(car, cdr, cdr[loop.it], Args)
  BY <1>1, Roots, Fields DEF Loops
<1>. HIDE DEF FirstLoop
<1>3. /\ loop'.pc = FirstLoop(loop.proc) /\ loop'.it = cdr[loop.it] /\ loop'.acc = loop.acc
      /\ loop'.aux = loop.aux /\ loop'.ai = loop.ai /\ loop'.proc = loop.proc /\ loop' \in Loops
  BY <1>1, <1>2 DEF Loops
<1>4. StateInv'
  BY <1>1, <1>3 DEF StateInv
<1>5. SearchInv'
  BY <1>1, <1>2, <1>3 DEF SearchInv, Args
<1>. QED
  BY <1>1, <1>3, <1>4, <1>5 DEF IInv, ReverseInv, AppendInv, CopyInv, MakeInv, MapInv, LengthInv, ListPInv, DoneInv

LEMMA LengthRoundKeeps == IInv /\ LengthRound => IInv'
<1>. SUFFICES ASSUME IInv, LengthRound
              PROVE  IInv'
  OBVIOUS
<1>1. /\ StateInv /\ loop.pc = "length" /\ args' = args /\ loop \in Loops
      /\ From(car, cdr, loop.it, Args) /\ loop.acc = Nil /\ loop.aux = Nil
  BY DEF LengthRound, IInv, LengthInv, StateInv
<1>2. CASE Quiet /\ (Return(Fixnum(loop.n)) \/ loop' = [loop EXCEPT !.pc = "error"])
  <2>1. Fixnum(loop.n) \in Int /\ ~IsPair(Fixnum(loop.n))
    BY <1>1 DEF Fixnum, IsPair, Loops
  <2>. QED
    BY <1>1, <1>2, <2>1, EndKeeps
<1>3. CASE /\ IsPair(loop.it) /\ Quiet
           /\ loop' = [loop EXCEPT !.it = cdr[loop.it], !.n = (loop.n + 1) % (MaxPair + 1)]
  <2>1. cdr[loop.it] \in Int /\ From(car, cdr, cdr[loop.it], Args)
    BY <1>1, <1>3, Roots, Fields DEF Loops
  <2>2. (loop.n + 1) % (MaxPair + 1) \in Nat
    BY <1>1, ListAssumption DEF Loops
  <2>3. /\ loop'.pc = "length" /\ loop'.it = cdr[loop.it] /\ loop'.acc = loop.acc
        /\ loop'.aux = loop.aux /\ loop'.ai = loop.ai /\ loop' \in Loops
    BY <1>1, <1>3, <2>1, <2>2 DEF Loops
  <2>4. StateInv'
    BY <1>1, <1>3, <2>3 DEF StateInv, Quiet
  <2>5. LengthInv'
    BY <1>1, <1>3, <2>1, <2>3 DEF LengthInv, Args, Quiet
  <2>. QED
    BY <2>3, <2>4, <2>5 DEF IInv, ReverseInv, AppendInv, CopyInv, MakeInv, MapInv, SearchInv, ListPInv, DoneInv
<1>. QED
  BY <1>2, <1>3 DEF LengthRound, Raise, Quiet

(* The first cdrs of a value, as the function Cdrs has them.               *)
LEMMA CdrsIs ==
  ASSUME NEW a, NEW d, Heap(a, d), NEW v \in Values(DOMAIN d)
  PROVE  /\ Cdrs(d, v)[0] = v
         /\ Cdrs(d, v)[1] = IF IsPair(v) THEN d[v] ELSE v
         /\ IsPair(Cdrs(d, v)[1]) => Cdrs(d, v)[2] = d[Cdrs(d, v)[1]]
<1> DEFINE V == Values(DOMAIN d)
           m == 2 * MaxPair + 2
           g == [w \in V |-> IF IsPair(w) THEN d[w] ELSE w]
           Walks(f) == f = [k \in 0 .. m |->
                             IF k = 0 THEN v
                             ELSE IF IsPair(f[k - 1]) THEN d[f[k - 1]] ELSE f[k - 1]]
<1>1. m \in Nat /\ m >= 2
  BY ListAssumption
<1>2. g \in [V -> V]
  BY DEF Heap, Values
<1>3. PICK f : Iterates(g, v, m, f)
  <2>. HIDE DEF g, m
  <2>. QED
    BY <1>1, IteratesExist
<1>. HIDE DEF m
<1>4. f = [k \in 0 .. m |-> IF k = 0 THEN v ELSE g[f[k - 1]]]
  BY <1>3 DEF Iterates
<1>5. \A k \in 0 .. m : f[k] \in V
  <2> DEFINE S == {k \in 0 .. m : f[k] \notin V}
  <2>1. SUFFICES ASSUME S # {}
                 PROVE  FALSE
    OBVIOUS
  <2>2. PICK c \in S : \A e \in S : c <= e
    <3>1. S \in SUBSET Nat
      BY <1>1
    <3>. HIDE DEF S
    <3>. QED
      BY <2>1, <3>1, LeastNumber
  <2>3. c \in 0 .. m /\ f[c] \notin V
    BY <2>2
  <2>4. f[c] = IF c = 0 THEN v ELSE g[f[c - 1]]
    BY <1>4, <2>3
  <2>5. c # 0
    BY <2>3, <2>4
  <2>6. c - 1 \in 0 .. m /\ c - 1 \notin S
    BY <1>1, <2>2, <2>3, <2>5
  <2>7. f[c - 1] \in V
    BY <2>6
  <2>. HIDE DEF g, V
  <2>. QED
    BY <1>2, <2>3, <2>4, <2>5, <2>7
<1>6. \A k \in 0 .. m :
        f[k] = IF k = 0 THEN v ELSE IF IsPair(f[k - 1]) THEN d[f[k - 1]] ELSE f[k - 1]
  <2>1. SUFFICES ASSUME NEW k \in 0 .. m
                 PROVE  f[k] = IF k = 0 THEN v
                               ELSE IF IsPair(f[k - 1]) THEN d[f[k - 1]] ELSE f[k - 1]
    OBVIOUS
  <2>2. f[k] = IF k = 0 THEN v ELSE g[f[k - 1]]
    BY <1>4
  <2>3. k # 0 => f[k - 1] \in V
    BY <1>1, <1>5
  <2>. HIDE DEF V
  <2>. QED
    BY <2>2, <2>3
<1>7. f = [k \in 0 .. m |-> f[k]]
  <2>. HIDE DEF g
  <2>. QED
    BY <1>4
<1>8. Walks(f)
  BY <1>6, <1>7
<1> DEFINE at == CHOOSE h : Walks(h)
<1>9. Walks(at)
  <2>. HIDE DEF Walks
  <2>. QED
    BY <1>8
<1>10. Cdrs(d, v) = at
  BY DEF Cdrs, m
<1>. HIDE DEF at
<1>11. \A k \in 0 .. m :
         at[k] = IF k = 0 THEN v ELSE IF IsPair(at[k - 1]) THEN d[at[k - 1]] ELSE at[k - 1]
  BY <1>9
<1>12. at[0] = v /\ (at[1] = IF IsPair(v) THEN d[v] ELSE v)
       /\ (at[2] = IF IsPair(at[1]) THEN d[at[1]] ELSE at[1])
  BY <1>1, <1>11
<1>. QED
  BY <1>10, <1>12

(* The tortoise's next pair is behind the hare's next but one.             *)
LEMMA StillBehind ==
  ASSUME NEW a, NEW d, Heap(a, d), NEW l \in Values(DOMAIN d), NEW r \in DOMAIN d,
         Behind(d, l, r), IsPair(d[r])
  PROVE  IsPair(l) /\ Behind(d, d[l], d[d[r]])
<1>1. IsPair(r) /\ d[r] \in DOMAIN d
  BY DEF Heap, Values, IsPair
<1>2. IsPair(l)
  <2>1. SUFFICES ASSUME ~IsPair(l)
                 PROVE  FALSE
    OBVIOUS
  <2>2. r \in {l}
    BY <2>1, {l} \in SUBSET (DOMAIN d \cup {d[p] : p \in DOMAIN d} \cup {l}) DEF Behind
  <2>. QED
    BY <1>1, <2>1, <2>2
<1>3. ASSUME NEW C \in SUBSET (DOMAIN d \cup {d[p] : p \in DOMAIN d} \cup {d[l]}),
             d[l] \in C, \A p \in C : IsPair(p) => d[p] \in C
      PROVE  d[d[r]] \in C
  <2>1. l \in DOMAIN d
    BY <1>2 DEF Values
  <2>2. C \cup {l} \in SUBSET (DOMAIN d \cup {d[p] : p \in DOMAIN d} \cup {l})
    BY <2>1
  <2>3. r \in C \cup {l}
    BY <1>3, <2>2 DEF Behind
  <2>4. d[r] \in C
    BY <1>1, <1>3, <2>3
  <2>. QED
    BY <1>3, <2>4
<1>. QED
  BY <1>2, <1>3 DEF Behind

LEMMA ItselfBehind ==
  ASSUME NEW d, NEW l
  PROVE  Behind(d, l, l)
BY DEF Behind

LEMMA ListPRoundKeeps == IInv /\ ListPRound => IInv'
<1>. SUFFICES ASSUME IInv, ListPRound
              PROVE  IInv'
  OBVIOUS
<1> DEFINE rapid == Cdrs(cdr, loop.it)
           local == IF loop.n = 0 THEN loop.it ELSE loop.aux
<1>1. /\ StateInv /\ loop.pc = "list?" /\ args' = args /\ Quiet /\ loop \in Loops
      /\ From(car, cdr, loop.it, Args) /\ From(car, cdr, loop.aux, Args) /\ loop.acc = Nil
      /\ loop.n # 0 => Behind(cdr, loop.aux, loop.it)
      /\ Heap(car, cdr)
  BY DEF ListPRound, IInv, ListPInv, StateInv
<1>2. Args \in SUBSET All
  BY <1>1, Roots
<1>3. loop.it \in Values(DOMAIN cdr) /\ loop.aux \in Values(DOMAIN cdr)
  BY <1>1, <1>2, Held DEF Loops
<1>4. /\ rapid[0] = loop.it
      /\ rapid[1] = IF IsPair(loop.it) THEN cdr[loop.it] ELSE loop.it
      /\ IsPair(rapid[1]) => rapid[2] = cdr[rapid[1]]
  BY <1>1, <1>3, CdrsIs
<1>5. \/ Return(False) \/ Return(True)
      \/ /\ IsPair(rapid[0]) /\ IsPair(rapid[1])
         /\ loop' = [loop EXCEPT !.it = rapid[2], !.aux = cdr[local], !.n = 1]
  BY DEF ListPRound
<1>. HIDE DEF rapid
<1>6. CASE Return(False) \/ Return(True)
  <2>1. \A v \in {False, True} : v \in Int /\ ~IsPair(v)
    BY DEF False, True, IsPair
  <2>. QED
    BY <1>1, <1>6, <2>1, EndKeeps
<1>7. CASE /\ IsPair(rapid[0]) /\ IsPair(rapid[1])
           /\ loop' = [loop EXCEPT !.it = rapid[2], !.aux = cdr[local], !.n = 1]
  <2>1. IsPair(loop.it) /\ IsPair(cdr[loop.it]) /\ rapid[2] = cdr[cdr[loop.it]]
    BY <1>4, <1>7
  <2>2. loop.it \in DOMAIN cdr /\ From(car, cdr, cdr[loop.it], Args) /\ cdr[loop.it] \in Int
    BY <1>1, <1>2, <2>1, Fields DEF Loops
  <2>3. From(car, cdr, cdr[cdr[loop.it]], Args) /\ cdr[cdr[loop.it]] \in Int
    BY <1>1, <1>2, <2>1, <2>2, Fields
  <2>4. Behind(cdr, local, loop.it)
    BY <1>1, ItselfBehind
  <2>5. local \in Values(DOMAIN cdr) /\ From(car, cdr, local, Args)
    BY <1>1, <1>3
  <2>6. IsPair(local) /\ Behind(cdr, cdr[local], cdr[cdr[loop.it]])
    BY <1>1, <2>1, <2>2, <2>4, <2>5, StillBehind
  <2>7. From(car, cdr, cdr[local], Args) /\ cdr[local] \in Int
    BY <1>1, <1>2, <2>5, <2>6, Fields DEF Values
  <2>. HIDE DEF local
  <2>8. /\ loop'.pc = "list?" /\ loop'.it = cdr[cdr[loop.it]] /\ loop'.aux = cdr[local]
        /\ loop'.acc = loop.acc /\ loop'.ai = loop.ai
    BY <1>1, <1>7, <2>1 DEF Loops
  <2>9. loop' \in Loops
    BY <1>1, <1>7, <2>1, <2>3, <2>7 DEF Loops
  <2>10. StateInv'
    BY <1>1, <2>8, <2>9 DEF StateInv, Quiet
  <2>11. ListPInv'
    BY <1>1, <2>3, <2>6, <2>7, <2>8 DEF ListPInv, Args, Quiet
  <2>. QED
    BY <2>8, <2>10, <2>11 DEF IInv, ReverseInv, AppendInv, CopyInv, MakeInv, MapInv, SearchInv, LengthInv, DoneInv
<1>. QED
  BY <1>5, <1>6, <1>7

-----------------------------------------------------------------------------
(* The start, and the theorems.                                            *)

LEMMA AnAtom == Max(Atom) \in Atom
<1> DEFINE S == {-x : x \in Atom}
<1>1. S # {} /\ S \in SUBSET Nat
  <2>1. \A x \in Atom : -x \in Nat
    BY ListAssumption
  <2>2. S # {}
    BY ListAssumption
  <2>. QED
    BY <2>1, <2>2
<1>. HIDE DEF S
<1>2. PICK n \in S : \A m \in S : n <= m
  BY <1>1, LeastNumber
<1>3. -n \in Atom /\ \A x \in Atom : -n >= x
  <2>1. \A x \in Atom : x \in Int /\ -x \in S
    BY ListAssumption DEF S
  <2>2. -n \in Atom /\ n \in Nat
    BY <1>1, ListAssumption DEF S
  <2>. QED
    BY <1>2, <2>1, <2>2
<1>. QED
  BY <1>3 DEF Max

LEMMA GivenIsHeap ==
  ASSUME NEW proc, NEW h \in GivenHeaps(proc)
  PROVE  Heap(h[1], h[2]) /\ DOMAIN h[2] = 1 .. Given
<1>1. Given \in Nat /\ MaxPair \in Nat /\ Given <= MaxPair /\ Atom \subseteq Values(1 .. Given)
  BY ListAssumption DEF Values, IsPair
<1>2. 1 .. Given \subseteq Values(1 .. Given) /\ Nil \in Values(1 .. Given)
  BY DEF Values, IsPair, Nil
<1>3. Max(Atom) \in Values(1 .. Given)
  BY <1>1, AnAtom
<1>4. \E a \in [1 .. Given -> Values(1 .. Given)], d \in [1 .. Given -> Values(1 .. Given)] :
        h = <<a, d>>
  BY <1>1, <1>2, <1>3 DEF GivenHeaps
<1>. QED
  BY <1>1, <1>4 DEF Heap

LEMMA InitHolds == ListInit => IInv
<1>. SUFFICES ASSUME ListInit
              PROVE  IInv
  OBVIOUS
<1>0. PICK c \in Calls : \E as \in [1 .. c[2] -> {Nil, 1, Given}] :
        /\ args = IF c[1] \in {"memv", "assv"} THEN [as EXCEPT ![1] = Max(Atom)] ELSE as
        /\ \E h \in GivenHeaps(c[1]) : car = h[1] /\ cdr = h[2]
        /\ arena = <<>>
        /\ loop = [proc |-> c[1], pc |-> FirstLoop(c[1]), it |-> args[c[2]], acc |-> Nil,
                   aux |-> Nil, ai |-> 0, n |-> 0]
  BY DEF ListInit
<1>1. /\ args \in [1 .. c[2] -> {Nil, 1, Given, Max(Atom)}]
      /\ \E h \in GivenHeaps(c[1]) : car = h[1] /\ cdr = h[2]
      /\ arena = <<>>
      /\ loop = [proc |-> c[1], pc |-> FirstLoop(c[1]), it |-> args[c[2]], acc |-> Nil,
                 aux |-> Nil, ai |-> 0, n |-> 0]
  <2>0. PICK as \in [1 .. c[2] -> {Nil, 1, Given}] :
          args = IF c[1] \in {"memv", "assv"} THEN [as EXCEPT ![1] = Max(Atom)] ELSE as
    BY <1>0
  <2>1. \A m : /\ as \in [1 .. c[2] -> {Nil, 1, Given, m}]
               /\ [as EXCEPT ![1] = m] \in [1 .. c[2] -> {Nil, 1, Given, m}]
    BY <2>0
  <2>. QED
    BY <1>0, <2>0, <2>1
<1>2. c[1] \in Procs /\ c[2] \in Nat \ {0}
  BY ListAssumption
<1>3. Heap(car, cdr) /\ DOMAIN cdr = 1 .. Given
  BY <1>1, GivenIsHeap
<1>4. args \in Seq(Values(DOMAIN cdr)) /\ Len(args) = c[2] /\ args[c[2]] \in Args
      /\ args[c[2]] \in Int
  <2>1. {Nil, 1, Given, Max(Atom)} \subseteq Values(1 .. Given)
    <3>1. {Nil, 1, Given} \subseteq Values(1 .. Given)
      BY ListAssumption DEF Values, IsPair, Nil
    <3>2. Max(Atom) \in Values(1 .. Given)
      <4>1. Atom \subseteq Values(1 .. Given)
        BY ListAssumption DEF Values, IsPair
      <4>. QED
        BY <4>1, AnAtom
    <3>. QED
      BY <3>1, <3>2
  <2>2. args \in Seq({Nil, 1, Given, Max(Atom)}) /\ Len(args) = c[2] /\ DOMAIN args = 1 .. c[2]
    BY <1>1, <1>2
  <2>3. args \in Seq(Values(DOMAIN cdr))
    BY <1>3, <2>1, <2>2
  <2>4. args[c[2]] \in Args
    BY <1>2, <2>2 DEF Args, Range
  <2>. QED
    BY <1>1, <1>2, <2>1, <2>2, <2>3, <2>4 DEF Values
<1>5. /\ loop.proc = c[1] /\ loop.pc = FirstLoop(c[1]) /\ loop.it = args[c[2]]
      /\ loop.acc = Nil /\ loop.aux = Nil /\ loop.ai = 0 /\ loop.n = 0
  BY <1>1
<1>6. loop.pc \in Procs \ {"memv", "assv", "for-each"} /\ FirstLoop(loop.proc) = loop.pc
      /\ (loop.pc \in {"reverse", "append", "list-copy", "make-list", "list", "length", "list?"}
            => loop.proc = loop.pc)
      /\ (loop.pc = "map" => loop.proc \in {"map", "for-each"})
  BY <1>2, <1>5 DEF FirstLoop, Procs
<1>7. loop \in Loops
  BY <1>1, <1>2, <1>4, <1>5, <1>6 DEF Loops, Nil, Procs
<1>8. StateInv
  BY <1>1, <1>2, <1>3, <1>4, <1>5, <1>7 DEF StateInv
<1>9. /\ From(car, cdr, loop.it, Args) /\ From(car, cdr, loop.it, Kept)
      /\ From(car, cdr, loop.it, All) /\ loop.it \in Values(DOMAIN cdr)
  BY <1>4, <1>5, <1>8, Roots, Held
<1>10. /\ \A R : From(car, cdr, Nil, R)
       /\ Built(Nil) /\ Proper(cdr, Nil)
  BY NilIsProper DEF From, IsPair, Nil, Built
<1>11. Len(Elements) \in Nat
  BY <1>2, <1>4, ListAssumption DEF Elements
<1>12. ReverseInv /\ AppendInv /\ CopyInv
  BY <1>2, <1>4, <1>5, <1>6, <1>9, <1>10 DEF ReverseInv, AppendInv, CopyInv, Procs
<1>13. MakeInv /\ MapInv /\ SearchInv
  BY <1>5, <1>6, <1>9, <1>10, <1>11 DEF MakeInv, MapInv, SearchInv, Procs
<1>14. LengthInv /\ ListPInv /\ DoneInv
  BY <1>5, <1>6, <1>9, <1>10 DEF LengthInv, ListPInv, DoneInv, Procs
<1>. QED
  BY <1>8, <1>12, <1>13, <1>14 DEF IInv

LEMMA HoldsHeld == IInv => HeldIsLive
<1>. SUFFICES ASSUME IInv
              PROVE  HeldIsLive
  OBVIOUS
<1>1. StateInv /\ loop \in Loops /\ DOMAIN car = DOMAIN cdr
  BY DEF IInv, StateInv, Heap
<1>2. \A v : Built(v) => v \in Values(DOMAIN cdr)
  BY <1>1, BuiltIsHeld
<1>3. \A R \in SUBSET All : \A v \in Int : From(car, cdr, v, R) => v \in Values(DOMAIN cdr)
  BY <1>1, Held
<1>4. Args \in SUBSET All /\ Kept \in SUBSET All /\ All \in SUBSET All
  BY <1>1, Roots
<1>5. Nil \in Values(DOMAIN cdr) /\ loop.it \in Int /\ loop.acc \in Int /\ loop.aux \in Int
  BY <1>1 DEF Values, Nil, IsPair, Loops
<1> DEFINE L == Values(DOMAIN cdr)
<1>. HIDE DEF L
<1>6. CASE loop.pc \in {"done", "error"}
  <2>1. loop.acc \in Values(DOMAIN cdr)
    BY <1>6 DEF IInv, DoneInv
  <2>. QED
    BY <1>1, <1>6, <2>1 DEF HeldIsLive, Values
<1>7. CASE loop.pc \in {"make-list", "list"}
  <2>1. loop.acc \in Values(DOMAIN cdr)
    BY <1>2, <1>7 DEF IInv, MakeInv
  <2>. QED
    BY <1>1, <1>7, <2>1 DEF HeldIsLive, Values
<1>8. CASE loop.pc \notin {"done", "error", "make-list", "list"}
  <2>1. {loop.it, loop.acc, loop.aux} \subseteq Values(DOMAIN cdr)
    <3>1. CASE loop.pc = "reverse"
      BY <1>2, <1>3, <1>4, <1>5, <3>1 DEF IInv, ReverseInv
    <3>2. CASE loop.pc \in {"append", "cons"}
      <4>1. CASE loop.pc = "append"
        BY <1>3, <1>4, <1>5, <4>1 DEF IInv, AppendInv
      <4>2. CASE loop.pc = "cons" /\ loop.aux = Nil
        BY <1>3, <1>4, <1>5, <4>2 DEF IInv, AppendInv
      <4>3. CASE loop.pc = "cons" /\ loop.aux # Nil
        <5>1. {loop.aux} \in SUBSET All
          BY <4>3 DEF IInv, AppendInv, Built, All
        <5>. QED
          BY <1>2, <1>3, <1>4, <1>5, <4>3, <5>1 DEF IInv, AppendInv
      <4>. QED
        BY <3>2, <4>1, <4>2, <4>3
    <3>3. CASE loop.pc = "list-copy"
      BY <1>2, <1>3, <1>4, <1>5, <3>3 DEF IInv, CopyInv
    <3>4. CASE loop.pc \in {"map", "call", "push"}
      BY <1>2, <1>5, <3>4 DEF IInv, MapInv
    <3>5. CASE loop.pc \in {"member", "assoc", "next"}
      BY <1>3, <1>4, <1>5, <3>5 DEF IInv, SearchInv
    <3>6. CASE loop.pc = "length"
      BY <1>3, <1>4, <1>5, <3>6 DEF IInv, LengthInv
    <3>7. CASE loop.pc = "list?"
      BY <1>3, <1>4, <1>5, <3>7 DEF IInv, ListPInv
    <3>. QED
      BY <1>1, <1>8, <3>1, <3>2, <3>3, <3>4, <3>5, <3>6, <3>7 DEF Loops
  <2>. QED
    BY <1>1, <1>8, <2>1 DEF HeldIsLive, Values
<1>. QED
  BY <1>6, <1>7, <1>8

(* Each list procedure keeps what its next round needs where the collector *)
(* finds it: the rest of the list it walks is reached from its arguments,  *)
(* the pairs it made are in the arena, and the reversed list of append is  *)
(* put there again by each round (pic_leave and pic_protect in pair.c).    *)
THEOREM ListInvariant ==
  ASSUME Mutating \cap {"member", "assoc"} = {}
  PROVE  ListSpec => []IInv
<1>1. ListInit => IInv
  BY InitHolds
<1>2. IInv /\ [ListNext]_listVars => IInv'
  <2>1. SUFFICES ASSUME IInv, [ListNext]_listVars
                 PROVE  IInv'
    OBVIOUS
  <2>2. CASE UNCHANGED listVars
    BY <2>1, <2>2 DEF listVars, IInv, StateInv, ReverseInv, AppendInv, CopyInv, MakeInv, MapInv,
                      SearchInv, LengthInv, ListPInv, DoneInv, Kept, All, Args, Built, Elements
  <2>. QED
    BY <2>1, <2>2, ReverseRoundKeeps, ReverseEndKeeps, AppendListKeeps, AppendRoundKeeps,
       AppendEndKeeps, CopyRoundKeeps, CopyEndKeeps, MakeRoundKeeps, MapRoundKeeps, MapCallKeeps,
       MapPushKeeps, MemberRoundKeeps, AssocRoundKeeps, NextPairKeeps, LengthRoundKeeps,
       ListPRoundKeeps DEF ListNext
<1>. QED
  BY <1>1, <1>2, PTL DEF ListSpec

(* No collection reclaims a pair that a list procedure reads or returns    *)
(* later, unless the procedure given to member or assoc cuts the very list *)
(* that is searched.                                                       *)
THEOREM HeldStaysLive ==
  ASSUME Mutating \cap {"member", "assoc"} = {}
  PROVE  ListSpec => []HeldIsLive
BY ListInvariant, HoldsHeld, PTL
=============================================================================
