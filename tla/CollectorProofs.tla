-------------------------- MODULE CollectorProofs --------------------------
(***************************************************************************)
(* Proofs about the collector, for every heap size: marking finds exactly  *)
(* the reachable objects, and no freed cell can be reached; symbols are    *)
(* unique though the symbol table does not keep them alive; pic_close      *)
(* leaves no object unfinalized; and the collector keeps the promise of    *)
(* ManagedHeap.                                                            *)
(***************************************************************************)
EXTENDS Collector, SequenceTheorems, TLAPS

Idle == pc \in {"run", "alloc", "retry", "panic", "closed"}
Marking == pc \in {"mark", "weak"}

\* The bookkeeping of the phases.
PhaseInv ==
  /\ Idle => shadow = {}
  /\ Idle \/ pc = "finalize" => weaks = {}
  /\ ~Marking => pending = {} /\ todo = {}
  /\ pc = "finalize" => shadow \cap bitmap = {}
  /\ pc = "run" <=> op = "none"
  /\ pc = "run" => args = {}
  /\ pc \in {"alloc", "retry"} => op # "close"

\* A cell in no bitmap holds no object, and only a table has entries.
TagInv ==
  /\ \A o \in Obj : o \notin bitmap \cup shadow => kind[o] = "free" /\ refs[o] = {}
  /\ \A o \in Obj : kind[o] # "weak" => hash[o] = NoEntries

\* Only the error object in the making has a field nobody has written.
ErrorInv ==
  /\ unset = NoObj <=> op # "message"
  /\ op = "message" => unset \in Protected
  /\ \A o \in Obj : Wild \in refs[o] => o = unset

\* The symbol table and the symbols name each other.
TableInv ==
  /\ \A e \in oblist : e[2] \in Obj => kind[e[2]] = "symbol" /\ e[1] \in refs[e[2]]
  /\ \A e \in oblist : e[2] = Dummy => op = "symbol" /\ e[1] \in args /\ pc # "run"

\* What a C function holds across an allocation is reachable without it.
ArgsInv ==
  pc \in {"alloc", "mark", "weak"} =>
    \A S \in SUBSET Obj : Closed(S) => args \subseteq S

\* Marking: black objects refer to black or gray ones, nothing else is black
\* or gray than what every closed set holds, and in a round that has marked
\* nothing every ephemeron is settled or still to be looked at.
MarkInv ==
  Marking =>
    /\ Roots \subseteq bitmap \cup pending
    /\ \A o \in bitmap : refs[o] \subseteq bitmap \cup pending
    /\ weaks = {o \in bitmap : kind[o] = "weak"}
    /\ todo \subseteq weaks \X Obj
    /\ \A S \in SUBSET Obj : Closed(S) => (bitmap \cup pending) \cap Obj \subseteq S
    /\ pc = "weak" /\ ~again =>
         /\ pending = {}
         /\ \A w, k \in bitmap : hash[w][k] \in Obj =>
              hash[w][k] \in bitmap \/ <<w, k>> \in todo

SweepInv ==
  pc = "sweep" =>
    /\ Closed(bitmap)
    /\ \A S \in SUBSET Obj : Closed(S) => bitmap \subseteq S
    /\ weaks \subseteq bitmap
    /\ \A w \in bitmap \ weaks, k \in Obj : hash[w][k] # NoObj => k \in bitmap

Inv == /\ TypeOK /\ PhaseInv /\ TagInv /\ ErrorInv /\ TableInv /\ NoDangling
       /\ ArgsInv /\ MarkInv /\ SweepInv

-----------------------------------------------------------------------------
(* What gc_protect adds to the arena is one element more of its range.     *)
LEMMA AppendRange ==
  ASSUME NEW q \in Seq(Obj), NEW o \in Obj
  PROVE  /\ Append(q, o) \in Seq(Obj)
         /\ {Append(q, o)[i] : i \in DOMAIN Append(q, o)} =
              {q[i] : i \in DOMAIN q} \cup {o}
<1>1. Append(q, o) \in Seq(Obj) /\ Len(Append(q, o)) = Len(q) + 1
  BY AppendProperties
<1>2. \A i \in 1 .. Len(q) : Append(q, o)[i] = q[i]
  BY AppendProperties
<1>3. Append(q, o)[Len(q) + 1] = o
  BY AppendProperties
<1>4. DOMAIN q = 1 .. Len(q) /\ DOMAIN Append(q, o) = 1 .. Len(q) + 1 /\ Len(q) \in Nat
  BY <1>1
<1> QED
  BY <1>1, <1>2, <1>3, <1>4

(* pic_leave, which cuts the arena, protects nothing that was not.         *)
LEMMA PrefixRange ==
  ASSUME NEW q \in Seq(Obj), NEW n \in 0 .. Len(q) - 1
  PROVE  /\ SubSeq(q, 1, n) \in Seq(Obj)
         /\ {SubSeq(q, 1, n)[i] : i \in DOMAIN SubSeq(q, 1, n)} \subseteq
              {q[i] : i \in DOMAIN q}
  OBVIOUS

(* The state pic_open leaves has the invariant.                            *)
LEMMA InitInv == Init => Inv
<1> SUFFICES ASSUME Init PROVE Inv
  OBVIOUS
<1> USE SentinelAssumption DEF Init
<1>1. Roots = {} /\ Live = {}
  BY DEF Roots, Protected, Live
<1>2. TypeOK
  <2>1. arena \in Seq(Obj)
    OBVIOUS
  <2>2. /\ kind \in [Obj -> AllKinds \cup {"free"}]
        /\ refs \in [Obj -> SUBSET (Obj \cup {Wild})]
        /\ text \in [Obj -> Text \cup {NoObj}]
        /\ oblist \in SUBSET (Obj \X (Obj \cup {Dummy}))
    BY DEF NoEntries
  <2>3. hash \in [Obj -> [Obj -> Obj \cup {Imm, NoObj}]]
    BY DEF NoEntries
  <2>4. pc \in PCs /\ op \in Ops
    BY DEF PCs, Ops
  <2> QED
    BY <2>1, <2>2, <2>3, <2>4 DEF TypeOK
<1>3. PhaseInv /\ ArgsInv /\ MarkInv /\ SweepInv
  BY DEF PhaseInv, ErrorInv, Protected, ArgsInv, MarkInv, SweepInv, Marking, Idle
<1>4. TagInv /\ ErrorInv /\ TableInv /\ NoDangling
  BY <1>1 DEF TagInv, ErrorInv, TableInv, NoDangling, NoEntries
<1> QED
  BY <1>2, <1>3, <1>4 DEF Inv

(* The steps of marking change neither the objects nor what holds them.    *)
LEMMA MarkStep == Inv /\ Mark => Inv'
<1> SUFFICES ASSUME Inv, Mark PROVE Inv'
  OBVIOUS
<1> USE DEF Inv, Mark, heapVars, opVars
<1>1. Roots' = Roots /\ Live' = Live /\ Marking /\ Marking'
  BY DEF Roots, Protected, Live, Marking
<1>2. \A S \in SUBSET Obj : Closed(S)' <=> Closed(S)
  BY <1>1 DEF Closed
<1>3. TypeOK'
  BY DEF TypeOK
<1>4. PhaseInv' /\ ErrorInv' /\ TableInv' /\ NoDangling' /\ ArgsInv' /\ SweepInv'
  BY <1>1, <1>2 DEF PhaseInv, ErrorInv, Protected, TableInv, NoDangling, ArgsInv, SweepInv, Marking, Idle
<1>5. TagInv'
  BY DEF TagInv
<1>6. MarkInv'
  <2>1. Roots \subseteq bitmap' \cup pending'
    BY <1>1 DEF MarkInv
  <2>2. \A o \in bitmap' : refs[o] \subseteq bitmap' \cup pending'
    <3>1. ASSUME NEW o \in bitmap PROVE refs[o] \subseteq bitmap' \cup pending'
      BY <1>1 DEF MarkInv
    <3>2. ASSUME NEW o \in pending, NEW x \in refs[o]
          PROVE  x \in bitmap' \cup pending'
      <4>1. x \in UNION {refs[p] : p \in pending}
        OBVIOUS
      <4> QED
        BY <4>1
    <3> QED
      BY <3>1, <3>2
  <2>3. weaks' = {o \in bitmap' : kind[o] = "weak"}
    BY <1>1 DEF MarkInv
  <2>4. ASSUME NEW S \in SUBSET Obj, Closed(S)
        PROVE  (bitmap' \cup pending') \cap Obj \subseteq S
    <3>1. bitmap \cup pending \subseteq S
      BY <1>1, <2>4 DEF MarkInv, TypeOK
    <3> QED
      BY <2>4, <3>1 DEF Closed
  <2>5. ~ (pc = "weak" /\ ~again)
    BY <1>1 DEF MarkInv
  <2>6. todo \subseteq weaks' \X Obj
    BY <1>1 DEF MarkInv
  <2> QED
    BY <1>1, <1>2, <2>1, <2>2, <2>3, <2>4, <2>5, <2>6 DEF MarkInv
<1> QED
  BY <1>3, <1>4, <1>5, <1>6

(* A round over the ephemeron tables begins with every entry to look at.   *)
LEMMA StartRoundStep == Inv /\ StartRound => Inv'
<1> SUFFICES ASSUME Inv, StartRound PROVE Inv'
  OBVIOUS
<1> USE DEF Inv, StartRound, heapVars, opVars
<1>1. Roots' = Roots /\ Live' = Live /\ Marking /\ Marking'
  BY DEF Roots, Protected, Live, Marking
<1>2. \A S \in SUBSET Obj : Closed(S)' <=> Closed(S)
  BY <1>1 DEF Closed
<1>3. TypeOK'
  BY DEF TypeOK, PCs, Collecting, Entries
<1>4. PhaseInv' /\ ErrorInv' /\ TableInv' /\ NoDangling' /\ ArgsInv' /\ SweepInv' /\ TagInv'
  BY <1>1, <1>2 DEF PhaseInv, ErrorInv, Protected, TableInv, NoDangling, ArgsInv, SweepInv, Marking, Idle,
                    TagInv
<1>5. ASSUME NEW w \in bitmap, NEW k \in bitmap, hash[w][k] \in Obj
      PROVE  <<w, k>> \in todo'
  <2>1. w \in weaks
    BY <1>1, <1>5, SentinelAssumption DEF MarkInv, TagInv, NoEntries, TypeOK
  <2> QED
    BY <2>1, <1>5, SentinelAssumption DEF Entries, TypeOK
<1>6. MarkInv'
  <2>1. todo' \subseteq weaks' \X Obj
    BY DEF Entries
  <2> QED
    BY <1>1, <1>2, <1>5, <2>1 DEF MarkInv
<1> QED
  BY <1>3, <1>4, <1>6

(* An entry looked at is settled, or its value is marked next.             *)
LEMMA ScanStep == Inv /\ Scan => Inv'
<1> SUFFICES ASSUME Inv, Scan PROVE Inv'
  OBVIOUS
<1> USE DEF Inv, Scan, heapVars, opVars
<1>1. Roots' = Roots /\ Live' = Live /\ Marking /\ Marking'
  BY DEF Roots, Protected, Live, Marking
<1>2. \A S \in SUBSET Obj : Closed(S)' <=> Closed(S)
  BY <1>1 DEF Closed
<1>3. PICK e \in todo :
        LET val == hash[e[1]][e[2]]
            hit == e[2] \in bitmap /\ val \in Obj \ bitmap
        IN  /\ todo' = todo \ {e}
            /\ pending' = IF hit THEN {val} ELSE {}
            /\ again' = (again \/ hit)
  OBVIOUS
<1>4. TypeOK'
  BY <1>3 DEF TypeOK
<1>5. PhaseInv' /\ ErrorInv' /\ TableInv' /\ NoDangling' /\ ArgsInv' /\ SweepInv' /\ TagInv'
  BY <1>1, <1>2 DEF PhaseInv, ErrorInv, Protected, TableInv, NoDangling, ArgsInv, SweepInv, Marking, Idle,
                    TagInv
<1>6. MarkInv'
  <2>1. Roots' \subseteq (bitmap \cup pending)'
    BY <1>1 DEF MarkInv
  <2>2. \A o \in bitmap' : refs'[o] \subseteq (bitmap \cup pending)'
    BY <1>1 DEF MarkInv
  <2>3. weaks' = {o \in bitmap' : kind'[o] = "weak"}
    BY <1>1 DEF MarkInv
  <2>4. ASSUME NEW S \in SUBSET Obj, Closed(S)
        PROVE  bitmap' \cup pending' \subseteq S
    <3>1. e \in Obj \X Obj /\ hash[e[1]][e[2]] \in Obj => hash[e[1]][e[2]] \in Obj
      BY DEF TypeOK
    <3>2. bitmap \subseteq S
      BY <1>1, <2>4 DEF MarkInv, TypeOK
    <3>3. e[1] \in bitmap
      BY <1>1 DEF MarkInv
    <3> QED
      BY <1>3, <2>4, <3>1, <3>2, <3>3 DEF Closed
  <2>5. ASSUME ~again' PROVE pending' = {}
    BY <1>3, <2>5
  <2>6. ASSUME ~again', NEW w \in bitmap, NEW k \in bitmap, hash[w][k] \in Obj
        PROVE  hash[w][k] \in bitmap \/ <<w, k>> \in todo'
    <3>1. CASE e = <<w, k>>
      <4>1. e[1] = w /\ e[2] = k
        BY <3>1
      <4> QED
        BY <1>3, <2>6, <4>1
    <3>2. CASE e # <<w, k>>
      BY <1>1, <1>3, <2>6, <3>2 DEF MarkInv
    <3> QED
      BY <3>1, <3>2
  <2>7. todo' \subseteq weaks' \X Obj
    BY <1>1, <1>3 DEF MarkInv
  <2> QED
    BY <1>1, <1>2, <2>1, <2>2, <2>3, <2>4, <2>5, <2>6, <2>7 DEF MarkInv
<1> QED
  BY <1>4, <1>5, <1>6

(* The end of marking: the mark bits are now the live objects.             *)
LEMMA MarkDoneStep == Inv /\ MarkDone => Inv'
<1> SUFFICES ASSUME Inv, MarkDone PROVE Inv'
  OBVIOUS
<1> USE DEF Inv, MarkDone, heapVars, opVars, gcVars
<1>1. /\ Roots' = Roots /\ Live' = bitmap /\ Live = shadow /\ Marking /\ ~Marking'
      /\ pc' = "sweep" /\ bitmap' = bitmap
  BY DEF Roots, Protected, Live, Marking
<1>2. \A S \in SUBSET Obj : Closed(S)' <=> Closed(S)
  BY <1>1 DEF Closed
<1>3. Closed(bitmap)
  <2>1. \A w, k \in bitmap : hash[w][k] \in Obj => hash[w][k] \in bitmap
    BY <1>1 DEF MarkInv
  <2> QED
    BY <1>1, <2>1 DEF MarkInv, Closed
<1>4. args \subseteq bitmap /\ bitmap \in SUBSET Obj
  BY <1>1, <1>3 DEF ArgsInv, TypeOK, Marking
<1>5. TypeOK' /\ PhaseInv' /\ ErrorInv' /\ TagInv' /\ ArgsInv' /\ MarkInv'
  BY <1>1 DEF TypeOK, PCs, Collecting, PhaseInv, ErrorInv, Protected, TagInv, ArgsInv, MarkInv, Idle, Marking
<1>6. TableInv'
  BY <1>1 DEF TableInv
<1>7. NoDangling'
  BY <1>1, <1>3, <1>4 DEF NoDangling, Closed
<1>8. SweepInv'
  <2>1. weaks \subseteq bitmap
    BY <1>1 DEF MarkInv
  <2>2. ASSUME NEW w \in bitmap \ weaks, NEW k \in Obj PROVE hash[w][k] = NoObj
    BY <1>1, <2>2 DEF MarkInv, TagInv, NoEntries, TypeOK
  <2>3. \A S \in SUBSET Obj : Closed(S) => bitmap \subseteq S
    BY <1>1, <1>4 DEF MarkInv
  <2> QED
    BY <1>1, <1>2, <1>3, <1>4, <2>1, <2>2, <2>3 DEF SweepInv
<1> QED
  BY <1>5, <1>6, <1>7, <1>8

(* A table that is swept keeps entries of marked keys only.                *)
LEMMA SweepWeakStep == Inv /\ SweepWeak => Inv'
<1> SUFFICES ASSUME Inv, SweepWeak PROVE Inv'
  OBVIOUS
<1> USE DEF Inv, opVars
<1>1. PICK w \in weaks :
        /\ hash' = [hash EXCEPT ![w] =
                      [k \in Obj |-> IF k \in bitmap THEN @[k] ELSE NoObj]]
        /\ weaks' = weaks \ {w}
  BY DEF SweepWeak
<1>2. /\ pc = "sweep" /\ pc' = "sweep" /\ Roots' = Roots
      /\ Live' = bitmap /\ Live = bitmap /\ ~Marking' /\ ~Marking
      /\ UNCHANGED <<bitmap, shadow, kind, refs, text, oblist, written, root, arena, opVars,
                     pending, todo, again>>
  BY DEF SweepWeak, Roots, Protected, Live, Marking
<1>3. \A v \in Obj, k \in Obj :
        hash'[v][k] = IF v = w /\ k \notin bitmap THEN NoObj ELSE hash[v][k]
  BY <1>1 DEF TypeOK
<1>4. \A v, k \in bitmap : hash'[v][k] = hash[v][k]
  BY <1>3 DEF TypeOK
<1>5. TypeOK'
  <2>1. hash' \in [Obj -> [Obj -> Obj \cup {Imm, NoObj}]]
    BY <1>1 DEF TypeOK
  <2> QED
    BY <1>1, <1>2, <2>1 DEF TypeOK
<1>6. PhaseInv' /\ ErrorInv' /\ ArgsInv' /\ MarkInv' /\ TableInv'
  BY <1>2 DEF PhaseInv, ErrorInv, Protected, ArgsInv, MarkInv, TableInv, Idle, Marking
<1>7. TagInv'
  <2>1. ASSUME NEW o \in Obj, kind[o] # "weak" PROVE hash'[o] = NoEntries
    BY <1>1, <2>1 DEF TagInv, TypeOK, NoEntries
  <2> QED
    BY <1>2, <2>1 DEF TagInv
<1>8. NoDangling'
  BY <1>2 DEF NoDangling
<1>9. SweepInv'
  <2>1. Closed(bitmap)'
    BY <1>2, <1>4 DEF SweepInv, Closed
  <2>2. ASSUME NEW S \in SUBSET Obj, Closed(S)' PROVE bitmap \subseteq S
    <3>1. Closed(S \cap bitmap)
      BY <1>2, <1>4, <2>2 DEF SweepInv, Closed
    <3> QED
      BY <1>2, <3>1 DEF SweepInv
  <2>3. \A v \in bitmap \ weaks', k \in Obj : hash'[v][k] # NoObj => k \in bitmap
    BY <1>1, <1>2, <1>3 DEF SweepInv, TypeOK
  <2> QED
    BY <1>1, <1>2, <2>1, <2>2, <2>3 DEF SweepInv
<1> QED
  BY <1>5, <1>6, <1>7, <1>8, <1>9

(* After the symbol table is swept no entry names a dead object.           *)
LEMMA SweepSymbolsStep == Inv /\ SweepSymbols => Inv'
<1> SUFFICES ASSUME Inv, SweepSymbols PROVE Inv'
  OBVIOUS
<1> USE DEF Inv, SweepSymbols, heapVars, opVars, gcVars
<1>1. Roots' = Roots /\ Live' = bitmap /\ Live = bitmap /\ ~Marking' /\ ~Marking
  BY DEF Roots, Protected, Live, Marking
<1>2. TypeOK'
  <2>1. oblist' \subseteq oblist /\ written' \subseteq written
    OBVIOUS
  <2> QED
    BY <2>1 DEF TypeOK, PCs, Collecting
<1>3. PhaseInv' /\ ErrorInv' /\ ArgsInv' /\ MarkInv' /\ TagInv' /\ SweepInv'
  BY <1>1 DEF PhaseInv, ErrorInv, Protected, ArgsInv, MarkInv, TagInv, SweepInv, Idle, Marking
<1>4. TableInv'
  BY SentinelAssumption DEF TableInv, TypeOK
<1>5. NoDangling'
  <2>1. ASSUME NEW v \in bitmap, NEW k \in Obj, hash[v][k] # NoObj
        PROVE  k \in bitmap /\ hash[v][k] \in bitmap \cup {Imm}
    BY <2>1 DEF SweepInv, Closed, TypeOK
  <2>2. ASSUME NEW e \in oblist'
        PROVE  e[1] \in bitmap /\ e[2] \in bitmap \cup {Dummy}
    <3>1. e \in oblist /\ e[2] \notin Obj \ bitmap /\ e[2] \in Obj \cup {Dummy}
      BY DEF TypeOK
    <3>2. CASE e[2] = Dummy
      BY <1>1, <3>1, <3>2, SentinelAssumption DEF TableInv, NoDangling
    <3>3. CASE e[2] \in Obj
      BY <1>1, <3>1, <3>3 DEF TableInv, NoDangling, TypeOK
    <3> QED
      BY <3>1, <3>2, <3>3
  <2> QED
    BY <1>1, <2>1, <2>2 DEF NoDangling
<1> QED
  BY <1>2, <1>3, <1>4, <1>5

(* What is finalized is referred to by nothing that stays.                 *)
LEMMA FinalizeStep == Inv /\ Finalize => Inv'
<1> SUFFICES ASSUME Inv, Finalize PROVE Inv'
  OBVIOUS
<1> USE DEF Inv, opVars, gcVars
<1>1. /\ Roots' = Roots /\ Live' = bitmap /\ Live = bitmap /\ ~Marking' /\ ~Marking
      /\ pc = "finalize" /\ pc' = (IF op = "close" THEN "closed" ELSE "retry")
      /\ shadow' = {}
      /\ UNCHANGED <<bitmap, oblist, written, root, arena, op, args, unset,
                     pending, weaks, todo, again>>
  BY DEF Finalize, Roots, Protected, Live, Marking
<1>2. /\ kind' = [o \in Obj |-> IF o \in shadow THEN "free" ELSE kind[o]]
      /\ refs' = [o \in Obj |-> IF o \in shadow THEN {} ELSE refs[o]]
      /\ text' = [o \in Obj |-> IF o \in shadow THEN NoObj ELSE text[o]]
      /\ hash' = [o \in Obj |-> IF o \in shadow THEN NoEntries ELSE hash[o]]
  BY DEF Finalize
<1>3. \A o \in bitmap : kind'[o] = kind[o] /\ refs'[o] = refs[o] /\ hash'[o] = hash[o]
  BY <1>1, <1>2 DEF PhaseInv, ErrorInv, Protected, TypeOK
<1>4. TypeOK'
  <2>1. kind' \in [Obj -> AllKinds \cup {"free"}]
    BY <1>2 DEF TypeOK
  <2>2. refs' \in [Obj -> SUBSET (Obj \cup {Wild})]
    BY <1>2 DEF TypeOK
  <2>3. text' \in [Obj -> Text \cup {NoObj}]
    BY <1>2 DEF TypeOK
  <2>4. hash' \in [Obj -> [Obj -> Obj \cup {Imm, NoObj}]]
    BY <1>2 DEF TypeOK, NoEntries
  <2> QED
    BY <1>1, <2>1, <2>2, <2>3, <2>4 DEF TypeOK, PCs
<1>5. ArgsInv' /\ MarkInv' /\ SweepInv'
  BY <1>1 DEF ArgsInv, MarkInv, SweepInv, Marking
<1>6. PhaseInv' /\ ErrorInv'
  <2>1. weaks = {}
    BY <1>1 DEF PhaseInv
  <2> QED
    BY <1>1, <1>2, <2>1 DEF PhaseInv, ErrorInv, Protected, Idle, Marking, TypeOK
<1>7. TagInv'
  BY <1>1, <1>2 DEF TagInv, TypeOK
<1>8. TableInv'
  BY <1>1, <1>3, SentinelAssumption DEF TableInv, NoDangling, TypeOK
<1>9. NoDangling'
  BY <1>1, <1>3 DEF NoDangling
<1> QED
  BY <1>4, <1>5, <1>6, <1>7, <1>8, <1>9

(* A collection starts from the roots, with everything in use in shadow.   *)
LEMMA CollectStep == Inv /\ Collect => Inv'
<1> SUFFICES ASSUME Inv, Collect PROVE Inv'
  OBVIOUS
<1> USE DEF Inv, Collect, heapVars, opVars
<1>1. /\ Roots' = Roots /\ Live' = bitmap /\ Live = bitmap /\ Marking' /\ ~Marking
      /\ shadow = {} /\ weaks = {} /\ todo = {}
  BY DEF Roots, Protected, Live, Marking, PhaseInv, Idle
<1>2. \A S \in SUBSET Obj : Closed(S)' <=> Closed(S)
  BY <1>1 DEF Closed
<1>3. TypeOK'
  BY <1>1 DEF TypeOK, PCs, Collecting, Roots, Protected, NoDangling
<1>4. PhaseInv' /\ ErrorInv' /\ TagInv' /\ TableInv' /\ NoDangling' /\ SweepInv' /\ ArgsInv'
  BY <1>1, <1>2 DEF PhaseInv, ErrorInv, Protected, TagInv, TableInv, NoDangling, SweepInv, ArgsInv,
                    Idle, Marking
<1>5. MarkInv'
  BY <1>1, <1>2 DEF MarkInv, Closed
<1> QED
  BY <1>3, <1>4, <1>5

(* pic_close starts one from no roots at all.                              *)
LEMMA CloseStep == Inv /\ Close => Inv'
<1> SUFFICES ASSUME Inv, Close PROVE Inv'
  OBVIOUS
<1> USE DEF Inv, Close, heapVars
<1>1. /\ Roots' = {} /\ Live' = bitmap /\ Live = bitmap /\ Marking' /\ ~Marking
      /\ pc = "run" /\ args = {} /\ shadow = {} /\ weaks = {} /\ todo = {}
  BY DEF Roots, Protected, Live, Marking, PhaseInv, Idle, Running
<1>2. TypeOK'
  BY <1>1 DEF TypeOK, PCs, Collecting, Ops
<1>3. PhaseInv' /\ ErrorInv' /\ TagInv' /\ TableInv' /\ NoDangling' /\ SweepInv' /\ ArgsInv'
  BY <1>1 DEF PhaseInv, ErrorInv, Protected, TagInv, TableInv, NoDangling, SweepInv, ArgsInv,
              Idle, Marking
<1>4. MarkInv'
  BY <1>1 DEF MarkInv, Closed
<1> QED
  BY <1>2, <1>3, <1>4

-----------------------------------------------------------------------------
(* The steps of the program.                                               *)

(* Those that only change what is held.                                    *)
LEMMA HoldStep ==
  Inv /\ (Load \/ Return \/ Drop \/ Leave \/ InternHit) => Inv'
<1> SUFFICES ASSUME Inv, Load \/ Return \/ Drop \/ Leave \/ InternHit PROVE Inv'
  OBVIOUS
<1> USE DEF Inv, heapVars, opVars, gcVars
<1>1. /\ pc = "run" /\ ~Marking' /\ Live' = bitmap /\ Live = bitmap /\ args = {}
      /\ UNCHANGED <<bitmap, shadow, kind, refs, text, hash, oblist, written, pc,
                     op, args, unset, pending, weaks, todo, again>>
  BY DEF Load, Return, Drop, Leave, InternHit, Running, Marking, Live, PhaseInv
<1>2. root' \cup Protected' \subseteq bitmap /\ arena' \in Seq(Obj)
  <2>0. Roots \subseteq bitmap /\ arena \in Seq(Obj) /\ bitmap \subseteq Obj
    BY <1>1 DEF NoDangling, TypeOK
  <2>1. CASE Load
    BY <1>1, <2>0, <2>1, SentinelAssumption
      DEF Load, NoDangling, ErrorInv, PhaseInv, TypeOK, Roots, Protected
  <2>2. CASE Return
    BY <2>0, <2>2 DEF Return, Roots, Protected
  <2>3. CASE Drop
    BY <2>0, <2>3 DEF Drop, Roots, Protected
  <2>4. CASE Leave
    BY <2>0, <2>4, PrefixRange DEF Leave, Roots, Protected
  <2>5. CASE InternHit
    <3>1. PICK e \in oblist : arena' = Append(arena, e[2])
      BY <2>5 DEF InternHit, SameName
    <3>2. e[2] \in bitmap
      BY <1>1, <3>1 DEF NoDangling, TableInv, TypeOK
    <3> QED
      BY <2>0, <2>5, <3>1, <3>2, AppendRange DEF InternHit, Roots, Protected
  <2> QED
    BY <2>1, <2>2, <2>3, <2>4, <2>5
<1>3. TypeOK'
  BY <1>1, <1>2 DEF TypeOK
<1>4. NoDangling'
  BY <1>1, <1>2 DEF NoDangling, Roots
<1>5. PhaseInv' /\ ErrorInv' /\ TagInv' /\ TableInv' /\ ArgsInv' /\ MarkInv' /\ SweepInv'
  BY <1>1 DEF PhaseInv, ErrorInv, Protected, TagInv, TableInv, ArgsInv, MarkInv, SweepInv, Idle, Marking
<1> QED
  BY <1>3, <1>4, <1>5

(* Those that store in an object the program holds.                        *)
LEMMA SetFieldStep == Inv /\ SetField => Inv'
<1> SUFFICES ASSUME Inv, SetField PROVE Inv'
  OBVIOUS
<1> USE DEF Inv, opVars, gcVars
<1>1. /\ pc = "run" /\ ~Marking' /\ Live' = bitmap /\ Live = bitmap /\ Roots' = Roots
      /\ UNCHANGED <<bitmap, shadow, kind, text, hash, oblist, written, root, arena, pc,
                     op, args, unset, pending, weaks, todo, again>>
  BY DEF SetField, Running, Marking, Live, Roots, Protected
<1>2. PICK o \in Roots : \E old \in refs[o] \cup {Imm} : \E new \in Roots \cup {Imm} :
        /\ kind[o] = "pair"
        /\ refs' = [refs EXCEPT ![o] = ((@ \ {old}) \cup {new}) \ {Imm}]
  BY DEF SetField
<1>3. PICK old \in refs[o] \cup {Imm}, new \in Roots \cup {Imm} :
        /\ kind[o] = "pair"
        /\ refs' = [refs EXCEPT ![o] = ((@ \ {old}) \cup {new}) \ {Imm}]
  BY <1>2
<1>4. o \in Obj /\ Roots \subseteq bitmap /\ bitmap \subseteq Obj
  BY <1>1 DEF NoDangling, TypeOK
<1>5. refs' \in [Obj -> SUBSET (Obj \cup {Wild})] /\ \A p \in Obj \ {o} : refs'[p] = refs[p]
  BY <1>3, <1>4 DEF TypeOK
<1>6. \A p \in bitmap : refs'[p] \cap Obj \subseteq bitmap
  BY <1>1, <1>3, <1>4, SentinelAssumption DEF NoDangling, TypeOK
<1>7. TypeOK'
  BY <1>1, <1>5 DEF TypeOK
<1>8. NoDangling'
  BY <1>1, <1>6 DEF NoDangling
<1>9. TableInv'
  BY <1>1, <1>3, <1>5 DEF TableInv, TypeOK
<1>10. PhaseInv' /\ ArgsInv' /\ MarkInv' /\ SweepInv'
  BY <1>1 DEF PhaseInv, ArgsInv, MarkInv, SweepInv, Idle, Marking
<1>11. ErrorInv'
  BY <1>1, <1>3, <1>4, <1>5, SentinelAssumption DEF ErrorInv, Protected, TypeOK
<1>12. TagInv'
  BY <1>1, <1>3, <1>4, <1>5 DEF TagInv
<1> QED
  BY <1>7, <1>8, <1>9, <1>10, <1>11, <1>12

(* Entries are made of what the program holds.                             *)
LEMMA StoreWeakStep == Inv /\ (WeakSet \/ WeakDel) => Inv'
<1> SUFFICES ASSUME Inv, WeakSet \/ WeakDel PROVE Inv'
  OBVIOUS
<1> USE DEF Inv, opVars, gcVars
<1>1. /\ pc = "run" /\ ~Marking' /\ Live' = bitmap /\ Live = bitmap /\ Roots' = Roots
      /\ UNCHANGED <<bitmap, shadow, kind, refs, text, oblist, written, root, arena, pc,
                     op, args, unset, pending, weaks, todo, again>>
  BY DEF WeakSet, WeakDel, Running, Marking, Live, Roots, Protected
<1>2. PICK w \in Roots, k \in Roots, v \in Roots \cup {Imm, NoObj} :
        kind[w] = "weak" /\ hash' = [hash EXCEPT ![w][k] = v]
  BY DEF WeakSet, WeakDel
<1>3. Roots \subseteq bitmap /\ bitmap \subseteq Obj
  BY <1>1 DEF NoDangling, TypeOK
<1>4. /\ hash' \in [Obj -> [Obj -> Obj \cup {Imm, NoObj}]]
      /\ \A x, y \in Obj : hash'[x][y] = IF x = w /\ y = k THEN v ELSE hash[x][y]
      /\ \A x \in Obj \ {w} : hash'[x] = hash[x]
  <2>1. hash' = [hash EXCEPT ![w] = [hash[w] EXCEPT ![k] = v]]
    BY <1>2
  <2>2. [hash[w] EXCEPT ![k] = v] \in [Obj -> Obj \cup {Imm, NoObj}]
    BY <1>3 DEF TypeOK
  <2> QED
    BY <1>3, <2>1, <2>2 DEF TypeOK
<1>5. TypeOK'
  BY <1>1, <1>4 DEF TypeOK
<1>6. NoDangling'
  <2>1. ASSUME NEW x \in bitmap, NEW y \in Obj, hash'[x][y] # NoObj
        PROVE  y \in bitmap /\ hash'[x][y] \in bitmap \cup {Imm}
    BY <1>1, <1>2, <1>3, <1>4, <2>1 DEF NoDangling
  <2> QED
    BY <1>1, <2>1 DEF NoDangling
<1>7. TagInv'
  BY <1>1, <1>2, <1>4 DEF TagInv
<1>8. PhaseInv' /\ ErrorInv' /\ TableInv' /\ ArgsInv' /\ MarkInv' /\ SweepInv'
  BY <1>1 DEF PhaseInv, ErrorInv, Protected, TableInv, ArgsInv, MarkInv, SweepInv, Idle, Marking
<1> QED
  BY <1>5, <1>6, <1>7, <1>8

(* Writing into a string changes no pointer.                               *)
LEMMA StringUpdateStep == Inv /\ StringUpdate => Inv'
<1> SUFFICES ASSUME Inv, StringUpdate PROVE Inv'
  OBVIOUS
<1> USE DEF Inv, opVars, gcVars
<1>1. /\ pc = "run" /\ ~Marking' /\ Live' = bitmap /\ Live = bitmap /\ Roots' = Roots
      /\ UNCHANGED <<bitmap, shadow, kind, refs, hash, oblist, root, arena, pc,
                     op, args, unset, pending, weaks, todo, again>>
  BY DEF StringUpdate, Running, Marking, Live, Roots, Protected
<1>2. PICK s \in Roots, t \in Text :
        /\ text' = [text EXCEPT ![s] = t]
        /\ written' \subseteq written \cup {s}
  BY DEF StringUpdate
<1>3. TypeOK'
  <2>1. s \in Obj
    BY <1>1, <1>2 DEF NoDangling, TypeOK
  <2>2. text' \in [Obj -> Text \cup {NoObj}] /\ written' \subseteq Obj
    BY <1>2, <2>1 DEF TypeOK
  <2> QED
    BY <1>1, <2>2 DEF TypeOK
<1>4. NoDangling' /\ TagInv' /\ TableInv'
  BY <1>1 DEF NoDangling, TagInv, TableInv
<1>5. PhaseInv' /\ ErrorInv' /\ ArgsInv' /\ MarkInv' /\ SweepInv'
  BY <1>1 DEF PhaseInv, ErrorInv, Protected, ArgsInv, MarkInv, SweepInv, Idle, Marking
<1> QED
  BY <1>3, <1>4, <1>5

(* Those that ask for a new object: what they hold, they can reach.        *)
LEMMA RequestStep ==
  Inv /\ (Cons \/ WeakRef \/ MakeWeak \/ MakeString \/ InternMiss \/ MakeError) => Inv'
<1> SUFFICES ASSUME Inv,
                    Cons \/ WeakRef \/ MakeWeak \/ MakeString \/ InternMiss \/ MakeError
             PROVE  Inv'
  OBVIOUS
<1> USE DEF Inv, heapVars, gcVars
<1>1. /\ pc = "run" /\ pc' = "alloc" /\ ~Marking' /\ ~Marking /\ Live' = bitmap
      /\ Live = bitmap /\ Roots' = Roots /\ op' \in Kinds
      /\ UNCHANGED <<bitmap, shadow, kind, refs, text, hash, written, root, arena, unset,
                     pending, weaks, todo, again>>
  BY DEF Cons, WeakRef, MakeWeak, MakeString, InternMiss, MakeError, Request,
         Running, Marking, Live, Roots, Protected
<1>2. \/ args' \subseteq Roots
      \/ \E w, k \in Roots : hash[w][k] # NoObj /\ args' = {k, hash[w][k]} \ {Imm}
  BY DEF Cons, WeakRef, MakeWeak, MakeString, InternMiss, MakeError, Request
<1>3. Roots \subseteq bitmap /\ bitmap \subseteq Obj
  BY <1>1 DEF NoDangling, TypeOK
<1>4. args' \subseteq bitmap
  BY <1>1, <1>2, <1>3 DEF NoDangling
<1>5. \A S \in SUBSET Obj : Closed(S)' => args' \subseteq S
  BY <1>1, <1>2, <1>3 DEF Closed, TypeOK
<1>6. \/ oblist' = oblist
      \/ \E s \in Roots : /\ oblist' = oblist \cup {<<s, Dummy>>}
                          /\ op' = "symbol" /\ args' = {s}
  BY DEF Cons, WeakRef, MakeWeak, MakeString, InternMiss, MakeError, Request
<1>7. TypeOK'
  <2>1. oblist' \in SUBSET (Obj \X (Obj \cup {Dummy}))
    BY <1>3, <1>6 DEF TypeOK
  <2>2. op' \in Ops
    BY <1>1, KindAssumption DEF Ops
  <2> QED
    BY <1>1, <1>3, <1>4, <2>1, <2>2 DEF TypeOK, PCs
<1>8. NoDangling'
  <2>1. \A e \in oblist' : e[1] \in bitmap /\ e[2] \in bitmap \cup {Dummy}
    BY <1>1, <1>3, <1>6 DEF NoDangling
  <2> QED
    BY <1>1, <1>4, <2>1 DEF NoDangling
<1>9. TableInv'
  BY <1>1, <1>3, <1>6, SentinelAssumption DEF TableInv, TypeOK
<1>10. PhaseInv' /\ ErrorInv' /\ TagInv' /\ ArgsInv' /\ MarkInv' /\ SweepInv'
  BY <1>1, <1>5, KindAssumption DEF AllKinds, PhaseInv, ErrorInv, Protected, TagInv, ArgsInv, MarkInv, SweepInv, Idle, Marking
<1> QED
  BY <1>7, <1>8, <1>9, <1>10

-----------------------------------------------------------------------------
(* The steps of the allocator: a cell in no bitmap is one nobody refers to.*)

(* A new object refers to what its constructor held.                       *)
LEMMA AllocateStep == Inv /\ Allocate => Inv'
<1> SUFFICES ASSUME Inv, Allocate PROVE Inv'
  OBVIOUS
<1> USE DEF Inv, gcVars
<1>1. /\ pc \in {"alloc", "retry"} /\ op \notin {"error", "message"}
      /\ Live = bitmap /\ ~Marking' /\ ~Marking /\ shadow = {}
      /\ UNCHANGED <<shadow, hash, written, root, pending, weaks, todo, again>>
      /\ pc' = "run" /\ op' = "none" /\ args' = {} /\ unset' = unset
  BY DEF Allocate, Live, Marking, PhaseInv, Idle
<1>2. PICK o \in Obj \ bitmap, t \in Text \cup {NoObj} :
        /\ bitmap' = bitmap \cup {o}
        /\ arena' = Append(arena, o)
        /\ refs' = [refs EXCEPT ![o] = args]
        /\ Fill(o, op, t)
  BY DEF Allocate
<1>3. arena' \in Seq(Obj) /\ Protected' = Protected \cup {o} /\ Roots' = Roots \cup {o}
  <2>1. arena' \in Seq(Obj) /\ Protected' = Protected \cup {o}
    <3>1. arena \in Seq(Obj) /\ o \in Obj
      BY DEF TypeOK
    <3>2. /\ Append(arena, o) \in Seq(Obj)
          /\ {Append(arena, o)[i] : i \in DOMAIN Append(arena, o)} =
               {arena[i] : i \in DOMAIN arena} \cup {o}
      BY <3>1, AppendRange
    <3> QED
      BY <1>2, <3>2 DEF Protected
  <2> QED
    BY <1>1, <2>1 DEF Roots
<1>4. Live' = bitmap \cup {o}
  BY <1>1, <1>2 DEF Live
<1>5. /\ kind[o] = "free" /\ refs[o] = {} /\ hash[o] = NoEntries
      /\ args \subseteq bitmap /\ Roots \subseteq bitmap /\ bitmap \subseteq Obj
  BY <1>1, <1>2 DEF TagInv, NoDangling, TypeOK
<1>6. /\ kind' = [kind EXCEPT ![o] = op]
      /\ text' = [text EXCEPT ![o] = t]
      /\ oblist' = IF op = "symbol"
                   THEN {<<e[1], IF e[2] = Dummy THEN o ELSE e[2]>> : e \in oblist}
                   ELSE oblist
  BY <1>1, <1>2 DEF Fill
<1>7. op \in AllKinds /\ unset = NoObj
  BY <1>1 DEF PhaseInv, ErrorInv, TypeOK, Ops
<1>8. /\ \A p \in Obj \ {o} : kind'[p] = kind[p] /\ refs'[p] = refs[p]
      /\ kind'[o] = op /\ refs'[o] = args
  BY <1>2, <1>6 DEF TypeOK
<1>9. ASSUME NEW f \in oblist'
      PROVE  /\ f[1] \in bitmap /\ f[2] \in bitmap' /\ f \in Obj \X Obj
             /\ \/ f \in oblist
                \/ f[2] = o /\ op = "symbol" /\ f[1] \in args
  <2>1. PICK e \in oblist :
          \/ f = e /\ e[2] # Dummy
          \/ f = <<e[1], o>> /\ e[2] = Dummy /\ op = "symbol" /\ e[1] \in args
    <3>1. CASE op # "symbol"
      BY <1>6, <3>1 DEF TableInv
    <3>2. CASE op = "symbol"
      <4>1. PICK e \in oblist : f = <<e[1], IF e[2] = Dummy THEN o ELSE e[2]>>
        BY <1>6, <3>2
      <4>2. e = <<e[1], e[2]>>
        BY DEF TypeOK
      <4> QED
        BY <3>2, <4>1, <4>2 DEF TableInv
    <3> QED
      BY <3>1, <3>2
  <2>2. e[1] \in bitmap /\ e[2] \in bitmap \cup {Dummy} /\ e = <<e[1], e[2]>>
    BY <1>1 DEF NoDangling, TypeOK
  <2> QED
    BY <1>2, <1>5, <2>1, <2>2
<1>10. TypeOK'
  <2>1. kind' \in [Obj -> AllKinds \cup {"free"}] /\ text' \in [Obj -> Text \cup {NoObj}]
    BY <1>6, <1>7 DEF TypeOK
  <2>2. refs' \in [Obj -> SUBSET (Obj \cup {Wild})]
    BY <1>2, <1>5 DEF TypeOK
  <2>3. oblist' \in SUBSET (Obj \X (Obj \cup {Dummy}))
    BY <1>9
  <2> QED
    BY <1>1, <1>2, <1>3, <2>1, <2>2, <2>3 DEF TypeOK, PCs, Ops
<1>11. PhaseInv' /\ ArgsInv' /\ MarkInv' /\ SweepInv'
  BY <1>1 DEF PhaseInv, ArgsInv, MarkInv, SweepInv, Marking, Idle
<1>12. TagInv'
  BY <1>1, <1>2, <1>5, <1>8 DEF TagInv
<1>13. ErrorInv'
  BY <1>1, <1>5, <1>7, <1>8, SentinelAssumption DEF ErrorInv
<1>14. TableInv'
  <2>1. ASSUME NEW f \in oblist' PROVE kind'[f[2]] = "symbol" /\ f[1] \in refs'[f[2]]
    <3>1. CASE f \in oblist
      BY <1>2, <1>5, <1>8, <1>9, <3>1, SentinelAssumption DEF TableInv, NoDangling
    <3>2. CASE f[2] = o /\ op = "symbol" /\ f[1] \in args
      BY <1>8, <3>2
    <3> QED
      BY <1>9, <3>1, <3>2
  <2>2. \A f \in oblist' : f[2] # Dummy
    BY <1>9, SentinelAssumption
  <2> QED
    BY <2>1, <2>2 DEF TableInv
<1>15. NoDangling'
  <2>1. \A p \in bitmap' : refs'[p] \cap Obj \subseteq bitmap'
    BY <1>1, <1>2, <1>5, <1>8 DEF NoDangling
  <2>2. \A w \in bitmap', k \in Obj : hash[w][k] # NoObj =>
          k \in bitmap' /\ hash[w][k] \in bitmap' \cup {Imm}
    BY <1>1, <1>2, <1>5 DEF NoDangling, NoEntries
  <2> QED
    BY <1>1, <1>2, <1>3, <1>4, <1>5, <1>9, <2>1, <2>2 DEF NoDangling
<1> QED
  BY <1>10, <1>11, <1>12, <1>13, <1>14, <1>15

(* The error object comes to be with one field unwritten.                  *)
LEMMA AllocateErrorStep == Inv /\ AllocateError => Inv'
<1> SUFFICES ASSUME Inv, AllocateError PROVE Inv'
  OBVIOUS
<1> USE DEF Inv, gcVars
<1>1. /\ pc \in {"alloc", "retry"} /\ op = "error"
      /\ Live = bitmap /\ ~Marking' /\ ~Marking /\ shadow = {}
      /\ UNCHANGED <<shadow, hash, written, root, pending, weaks, todo, again>>
      /\ pc' = "alloc" /\ op' = "message" /\ args' = {}
  BY DEF AllocateError, Live, Marking, PhaseInv, Idle
<1>2. PICK o \in Obj \ bitmap, t \in Text \cup {NoObj} :
        /\ bitmap' = bitmap \cup {o}
        /\ arena' = Append(arena, o)
        /\ refs' = [refs EXCEPT ![o] = args \cup {Wild}]
        /\ Fill(o, op, t) /\ unset' = o
  BY DEF AllocateError
<1>3. arena' \in Seq(Obj) /\ Protected' = Protected \cup {o} /\ Roots' = Roots \cup {o}
  <2>1. arena' \in Seq(Obj) /\ Protected' = Protected \cup {o}
    <3>1. arena \in Seq(Obj) /\ o \in Obj
      BY DEF TypeOK
    <3>2. /\ Append(arena, o) \in Seq(Obj)
          /\ {Append(arena, o)[i] : i \in DOMAIN Append(arena, o)} =
               {arena[i] : i \in DOMAIN arena} \cup {o}
      BY <3>1, AppendRange
    <3> QED
      BY <1>2, <3>2 DEF Protected
  <2> QED
    BY <1>1, <2>1 DEF Roots
<1>4. Live' = bitmap \cup {o}
  BY <1>1, <1>2 DEF Live
<1>5. /\ kind[o] = "free" /\ refs[o] = {} /\ hash[o] = NoEntries
      /\ args \subseteq bitmap /\ Roots \subseteq bitmap /\ bitmap \subseteq Obj
  BY <1>1, <1>2 DEF TagInv, NoDangling, TypeOK
<1>6. /\ kind' = [kind EXCEPT ![o] = "error"]
      /\ text' = [text EXCEPT ![o] = t]
      /\ oblist' = oblist
  BY <1>1, <1>2 DEF Fill
<1>7. unset = NoObj
  BY <1>1 DEF ErrorInv
<1>8. /\ \A p \in Obj \ {o} : kind'[p] = kind[p] /\ refs'[p] = refs[p]
      /\ kind'[o] = "error" /\ refs'[o] = args \cup {Wild}
  BY <1>2, <1>6 DEF TypeOK
<1>9. \A e \in oblist : e[1] \in bitmap /\ e[2] \in bitmap
  BY <1>1 DEF TableInv, NoDangling
<1>10. TypeOK'
  <2>1. kind' \in [Obj -> AllKinds \cup {"free"}] /\ text' \in [Obj -> Text \cup {NoObj}]
    BY <1>6 DEF TypeOK, AllKinds
  <2>2. refs' \in [Obj -> SUBSET (Obj \cup {Wild})]
    BY <1>2, <1>5 DEF TypeOK
  <2> QED
    BY <1>1, <1>2, <1>3, <1>6, <2>1, <2>2 DEF TypeOK, PCs, Ops
<1>11. PhaseInv' /\ ArgsInv' /\ MarkInv' /\ SweepInv'
  BY <1>1 DEF PhaseInv, ArgsInv, MarkInv, SweepInv, Marking, Idle
<1>12. TagInv'
  BY <1>1, <1>2, <1>5, <1>7, <1>8 DEF TagInv
<1>13. ErrorInv'
  BY <1>1, <1>2, <1>3, <1>5, <1>7, <1>8, SentinelAssumption DEF ErrorInv, TypeOK
<1>14. TableInv'
  BY <1>1, <1>2, <1>6, <1>7, <1>8, <1>9, SentinelAssumption DEF TableInv, TypeOK
<1>15. NoDangling'
  <2>1. \A p \in bitmap' : refs'[p] \cap Obj \subseteq bitmap'
    BY <1>1, <1>2, <1>5, <1>7, <1>8, SentinelAssumption DEF NoDangling
  <2>2. \A w \in bitmap', k \in Obj : hash[w][k] # NoObj =>
          k \in bitmap' /\ hash[w][k] \in bitmap' \cup {Imm}
    BY <1>1, <1>2, <1>5 DEF NoDangling, NoEntries
  <2> QED
    BY <1>1, <1>2, <1>3, <1>4, <1>5, <1>6, <1>9, <2>1, <2>2 DEF NoDangling
<1> QED
  BY <1>10, <1>11, <1>12, <1>13, <1>14, <1>15

(* Its message is allocated and written in.                                *)
LEMMA AllocateMessageStep == Inv /\ AllocateMessage => Inv'
<1> SUFFICES ASSUME Inv, AllocateMessage PROVE Inv'
  OBVIOUS
<1> USE DEF Inv, gcVars
<1>1. /\ pc \in {"alloc", "retry"} /\ op = "message"
      /\ Live = bitmap /\ ~Marking' /\ ~Marking /\ shadow = {}
      /\ UNCHANGED <<shadow, hash, written, root, pending, weaks, todo, again>>
      /\ pc' = "run" /\ op' = "none" /\ args' = {} /\ unset' = NoObj
  BY DEF AllocateMessage, Live, Marking, PhaseInv, Idle
<1>2. PICK o \in Obj \ bitmap, t \in Text \cup {NoObj} :
        /\ bitmap' = bitmap \cup {o}
        /\ arena' = Append(arena, o)
        /\ refs' = [refs EXCEPT ![unset] = (@ \ {Wild}) \cup {o}]
        /\ Fill(o, op, t)
  BY DEF AllocateMessage
<1>3. arena' \in Seq(Obj) /\ Protected' = Protected \cup {o} /\ Roots' = Roots \cup {o}
  <2>1. arena' \in Seq(Obj) /\ Protected' = Protected \cup {o}
    <3>1. arena \in Seq(Obj) /\ o \in Obj
      BY DEF TypeOK
    <3>2. /\ Append(arena, o) \in Seq(Obj)
          /\ {Append(arena, o)[i] : i \in DOMAIN Append(arena, o)} =
               {arena[i] : i \in DOMAIN arena} \cup {o}
      BY <3>1, AppendRange
    <3> QED
      BY <1>2, <3>2 DEF Protected
  <2> QED
    BY <1>1, <2>1 DEF Roots
<1>4. Live' = bitmap \cup {o}
  BY <1>1, <1>2 DEF Live
<1>5. /\ kind[o] = "free" /\ refs[o] = {} /\ hash[o] = NoEntries
      /\ args \subseteq bitmap /\ Roots \subseteq bitmap /\ bitmap \subseteq Obj
  BY <1>1, <1>2 DEF TagInv, NoDangling, TypeOK
<1>6. /\ kind' = [kind EXCEPT ![o] = "string"]
      /\ text' = [text EXCEPT ![o] = t]
      /\ oblist' = oblist
  BY <1>1, <1>2 DEF Fill
<1>7. unset \in bitmap /\ unset # o
  BY <1>1, <1>2, <1>5 DEF ErrorInv, Roots
<1>8. /\ \A p \in Obj \ {o, unset} : kind'[p] = kind[p] /\ refs'[p] = refs[p]
      /\ kind'[o] = "string" /\ refs'[o] = {}
      /\ kind'[unset] = kind[unset] /\ refs'[unset] = (refs[unset] \ {Wild}) \cup {o}
  BY <1>2, <1>5, <1>6, <1>7 DEF TypeOK
<1>9. \A e \in oblist : e[1] \in bitmap /\ e[2] \in bitmap
  BY <1>1 DEF TableInv, NoDangling
<1>10. TypeOK'
  <2>1. kind' \in [Obj -> AllKinds \cup {"free"}] /\ text' \in [Obj -> Text \cup {NoObj}]
    BY <1>6 DEF TypeOK, AllKinds
  <2>2. refs' \in [Obj -> SUBSET (Obj \cup {Wild})]
    BY <1>2, <1>5 DEF TypeOK
  <2> QED
    BY <1>1, <1>2, <1>3, <1>6, <2>1, <2>2 DEF TypeOK, PCs, Ops
<1>11. PhaseInv' /\ ArgsInv' /\ MarkInv' /\ SweepInv'
  BY <1>1 DEF PhaseInv, ArgsInv, MarkInv, SweepInv, Marking, Idle
<1>12. TagInv'
  BY <1>1, <1>2, <1>5, <1>7, <1>8 DEF TagInv
<1>13. ErrorInv'
  BY <1>1, <1>2, <1>3, <1>5, <1>7, <1>8, SentinelAssumption DEF ErrorInv, TypeOK
<1>14. TableInv'
  BY <1>1, <1>2, <1>6, <1>7, <1>8, <1>9, SentinelAssumption DEF TableInv, TypeOK
<1>15. NoDangling'
  <2>1. \A p \in bitmap' : refs'[p] \cap Obj \subseteq bitmap'
    BY <1>1, <1>2, <1>5, <1>7, <1>8, SentinelAssumption DEF NoDangling
  <2>2. \A w \in bitmap', k \in Obj : hash[w][k] # NoObj =>
          k \in bitmap' /\ hash[w][k] \in bitmap' \cup {Imm}
    BY <1>1, <1>2, <1>5 DEF NoDangling, NoEntries
  <2> QED
    BY <1>1, <1>2, <1>3, <1>4, <1>5, <1>6, <1>9, <2>1, <2>2 DEF NoDangling
<1> QED
  BY <1>10, <1>11, <1>12, <1>13, <1>14, <1>15

(* A panic changes nothing.                                                *)
LEMMA ExhaustedStep == Inv /\ Exhausted => Inv'
<1> SUFFICES ASSUME Inv, Exhausted PROVE Inv'
  OBVIOUS
<1> USE DEF Inv, Exhausted, heapVars, opVars, gcVars
<1>1. Roots' = Roots /\ Live' = bitmap /\ Live = bitmap /\ ~Marking' /\ ~Marking
  BY DEF Roots, Protected, Live, Marking
<1>2. TypeOK' /\ PhaseInv' /\ ErrorInv' /\ TagInv' /\ TableInv' /\ NoDangling'
  BY <1>1 DEF TypeOK, PCs, PhaseInv, ErrorInv, Protected, TagInv, TableInv, NoDangling,
              Idle, Marking
<1>3. ArgsInv' /\ MarkInv' /\ SweepInv'
  BY <1>1 DEF ArgsInv, MarkInv, SweepInv
<1> QED
  BY <1>2, <1>3

-----------------------------------------------------------------------------
(* Every step keeps the invariant; one that changes nothing does too.      *)
LEMMA NextInv == Inv /\ [Next]_vars => Inv'
<1> SUFFICES ASSUME Inv, [Next]_vars PROVE Inv'
  OBVIOUS
<1>1. CASE Mutate
  BY <1>1, HoldStep, SetFieldStep, StoreWeakStep, StringUpdateStep, RequestStep,
     CloseStep DEF Mutate
<1>2. CASE NewObject
  BY <1>2, AllocateStep, AllocateErrorStep, AllocateMessageStep, ExhaustedStep
    DEF NewObject
<1>3. CASE GCStep
  BY <1>3, MarkStep, StartRoundStep, ScanStep, MarkDoneStep, SweepWeakStep,
     SweepSymbolsStep, FinalizeStep DEF GCStep
<1>4. CASE Collect
  BY <1>4, CollectStep
<1>5. CASE UNCHANGED vars
  <2> USE <1>5 DEF vars, heapVars, opVars, gcVars
  <2>1. Roots' = Roots /\ Live' = Live /\ (Marking' <=> Marking) /\ (Idle' <=> Idle)
    BY DEF Roots, Protected, Live, Marking, Idle
  <2>2. \A S \in SUBSET Obj : Closed(S)' <=> Closed(S)
    BY <2>1 DEF Closed
  <2>3. TypeOK' /\ PhaseInv' /\ ErrorInv' /\ TagInv' /\ TableInv' /\ NoDangling'
    BY <2>1 DEF Inv, TypeOK, PhaseInv, ErrorInv, Protected, TagInv, TableInv, NoDangling
  <2>4. ArgsInv' /\ MarkInv'
    BY <2>1, <2>2 DEF Inv, ArgsInv, MarkInv
  <2>5. SweepInv'
    BY <2>1, <2>2 DEF Inv, SweepInv, TypeOK, Closed
  <2> QED
    BY <2>3, <2>4, <2>5 DEF Inv
<1> QED
  BY <1>1, <1>2, <1>3, <1>4, <1>5 DEF Next

(* The invariant holds in every execution.                                 *)
THEOREM InductiveInvariant == Spec => []Inv
BY InitInv, NextInv, PTL DEF Spec

(* Every variable keeps its type in every execution of the program.        *)
THEOREM TypeCorrect == Spec => []TypeOK
<1>1. Inv => TypeOK
  BY DEF Inv
<1> QED
  BY <1>1, InductiveInvariant, PTL

(* The do-while loop of gc_mark_phase marks what can be reached, ephemerons *)
(* included, and nothing else, however large the heap.                     *)
THEOREM MarkingCorrect == Spec => []MarkedIsReachable
<1>1. Inv => MarkedIsReachable
  <2> SUFFICES ASSUME Inv, pc = "sweep" PROVE bitmap = Reachable
    BY DEF MarkedIsReachable
  <2>1. Closed(bitmap) /\ \A S \in SUBSET Obj : Closed(S) => bitmap \subseteq S
    BY DEF Inv, SweepInv
  <2>2. bitmap \in SUBSET Obj
    BY DEF Inv, TypeOK
  <2> QED
    BY <2>1, <2>2 DEF Reachable
<1> QED
  BY <1>1, InductiveInvariant, PTL

(* No cell that was freed can be reached from what the program holds.      *)
THEOREM NothingDangles == Spec => []NoDangling
<1>1. Inv => NoDangling
  BY DEF Inv
<1> QED
  BY <1>1, InductiveInvariant, PTL

-----------------------------------------------------------------------------
(* The symbols, and what pic_close leaves.                                 *)

\* From pic_close on nothing is marked, and nothing is left at the end.
CloseInv ==
  /\ op = "close" => /\ pc \in Collecting \cup {"closed"}
                     /\ bitmap = {} /\ pending = {} /\ weaks = {} /\ todo = {}
  /\ pc = "closed" => op = "close" /\ \A o \in Obj : kind[o] = "free"

\* No two entries have keys that read the same, unless one was written into.
OneName(table, txt, dirty) ==
  \A e, f \in table : e[1] \notin dirty /\ f[1] \notin dirty /\ txt[e[1]] = txt[f[1]]
    => e = f

\* A live symbol has one field, its name, under which the table knows it.
SymInv ==
  /\ \A a \in Live : kind[a] = "symbol" =>
       \E s \in Obj : refs[a] = {s} /\ <<s, a>> \in oblist
  /\ OneName(oblist, text, written)
  /\ op = "symbol" => \E s \in Obj : args = {s} /\ <<s, Dummy>> \in oblist
  /\ op = "message" => unset \in Live /\ kind[unset] = "error"

-----------------------------------------------------------------------------
(* pic_close and the collection it runs keep CloseInv; nothing else comes  *)
(* after it.                                                               *)
LEMMA CloseInvStep == Inv /\ CloseInv /\ [Next]_vars => CloseInv'
<1> SUFFICES ASSUME Inv, CloseInv, [Next]_vars PROVE CloseInv'
  OBVIOUS
<1> USE DEF CloseInv, Collecting, heapVars, opVars, gcVars
<1>0. (pc = "run" => op = "none") /\ (pc \in {"alloc", "retry"} => op # "close")
  BY DEF Inv, PhaseInv
<1>1. CASE Mutate
  <2>1. CASE Close
    BY <2>1 DEF Close, Running, Inv, PhaseInv, Idle, Marking
  <2>2. CASE ~Close
    <3>1. pc = "run" /\ pc' \in {"run", "alloc"} /\ op' # "close"
      BY <1>0, <1>1, <2>2, KindAssumption
        DEF Mutate, Load, Return, Drop, Leave, SetField, WeakSet, WeakDel,
            StringUpdate, Cons, WeakRef, MakeWeak, MakeString, InternHit, InternMiss, MakeError,
            Running, Request, AllKinds
    <3> QED
      BY <3>1
  <2> QED
    BY <2>1, <2>2
<1>2. CASE NewObject
  BY <1>0, <1>2 DEF NewObject, Allocate, AllocateError, AllocateMessage, Exhausted
<1>3. CASE Collect
  BY <1>0, <1>3 DEF Collect
<1>4. CASE GCStep
  <2>1. CASE Mark \/ StartRound
    BY <2>1 DEF Mark, StartRound, Entries
  <2>2. CASE Scan \/ MarkDone
    BY <2>2 DEF Scan, MarkDone
  <2>3. CASE SweepWeak \/ SweepSymbols
    BY <2>3 DEF SweepWeak, SweepSymbols
  <2>4. CASE Finalize
    <3>1. \A o \in Obj : o \notin bitmap \cup shadow => kind[o] = "free"
      BY DEF Inv, TagInv
    <3>2. op = "close" => \A o \in Obj : kind'[o] = "free"
      BY <2>4, <3>1 DEF Finalize
    <3> QED
      BY <2>4, <3>2 DEF Finalize
  <2> QED
    BY <1>4, <2>1, <2>2, <2>3, <2>4 DEF GCStep
<1>5. CASE UNCHANGED vars
  BY <1>5 DEF vars
<1> QED
  BY <1>1, <1>2, <1>3, <1>4, <1>5 DEF Next

(* After pic_close the heap is empty: every object has been finalized.     *)
THEOREM CloseFinalizesAll == Spec => []ClosedIsEmpty
<1>1. Init => CloseInv
  BY DEF Init, CloseInv
<1>2. Inv /\ CloseInv => ClosedIsEmpty
  BY DEF CloseInv, ClosedIsEmpty
<1> QED
  BY <1>1, <1>2, CloseInvStep, InductiveInvariant, PTL DEF Spec

-----------------------------------------------------------------------------
(* The constructors and the accessors of the program keep SymInv.          *)
LEMMA SymMutate == Inv /\ SymInv /\ Mutate => SymInv'
<1> SUFFICES ASSUME Inv, SymInv, Mutate PROVE SymInv'
  OBVIOUS
<1> USE DEF SymInv, heapVars, opVars, gcVars
<1>1. CASE Load \/ Return \/ Drop \/ Leave \/ InternHit
  <2>1. Live' = Live /\ UNCHANGED <<kind, refs, text, oblist, written, op, args, unset>>
    BY <1>1 DEF Load, Return, Drop, Leave, InternHit, Running, Live
  <2> QED
    BY <2>1
<1>2. CASE WeakSet \/ WeakDel
  <2>1. Live' = Live /\ UNCHANGED <<kind, refs, text, oblist, written, op, args, unset>>
    BY <1>2 DEF WeakSet, WeakDel, Running, Live
  <2> QED
    BY <2>1
<1>3. CASE SetField
  <2>1. Live' = Live /\ UNCHANGED <<kind, text, oblist, written, op, args, unset>>
    BY <1>3 DEF SetField, Running, Live
  <2>2. \A a \in Obj : kind[a] = "symbol" => refs'[a] = refs[a]
    BY <1>3 DEF SetField, Inv, TypeOK
  <2>3. Live \subseteq Obj
    BY DEF Live, Inv, TypeOK
  <2> QED
    BY <2>1, <2>2, <2>3
<1>4. CASE Cons \/ WeakRef \/ MakeWeak \/ MakeString \/ MakeError
  <2>1. Live' = Live /\ UNCHANGED <<kind, refs, text, oblist, written, unset>>
        /\ op' \notin {"symbol", "message"}
    BY <1>4, KindAssumption
      DEF Cons, WeakRef, MakeWeak, MakeString, MakeError, Running, Request, Live
  <2> QED
    BY <2>1
<1>5. CASE InternMiss
  <2>1. PICK s \in Roots : /\ \A e \in SameName(s) : e[1] \in written
                           /\ oblist' = oblist \cup {<<s, Dummy>>}
                           /\ Request("symbol", {s})
    BY <1>5 DEF InternMiss
  <2>2. /\ Live' = Live /\ s \in Obj
        /\ UNCHANGED <<kind, refs, text, written, unset>> /\ op' = "symbol" /\ args' = {s}
    BY <1>5, <2>1 DEF InternMiss, Running, Request, Live, Inv, TypeOK, Roots, NoDangling
  <2>3. \A e \in oblist : text[e[1]] = text[s] => e[1] \in written
    BY <2>1 DEF SameName
  <2>6. \A a \in Live' : kind'[a] = "symbol" =>
          \E t \in Obj : refs'[a] = {t} /\ <<t, a>> \in oblist'
    <3>1. Live \subseteq Obj
      BY DEF Live, Inv, TypeOK
    <3> QED
      BY <2>1, <2>2, <3>1
  <2>7. OneName(oblist', text', written')
    BY <2>1, <2>2, <2>3 DEF OneName
  <2> QED
    BY <2>1, <2>2, <2>6, <2>7
<1>6. CASE Close
  <2>1. /\ UNCHANGED <<kind, refs, text, oblist, written, unset>> /\ op' = "close"
        /\ Live = bitmap /\ Live' = bitmap
    BY <1>6 DEF Close, Running, Live
  <2> QED
    BY <2>1
<1>7. CASE StringUpdate
  <2>1. Live' = Live /\ UNCHANGED <<kind, refs, oblist, op, args, unset>>
    BY <1>7 DEF StringUpdate, Running, Live
  <2>2. PICK s \in Roots, t \in Text :
          /\ text' = [text EXCEPT ![s] = t]
          /\ written' = IF \E e \in oblist : e[1] = s THEN written \cup {s} ELSE written
    BY <1>7 DEF StringUpdate
  <2>3. \A e \in oblist : e[1] \notin written' => e[1] \notin written /\ text'[e[1]] = text[e[1]]
    BY <2>2 DEF Inv, TypeOK
  <2>4. OneName(oblist', text', written')
    BY <2>1, <2>3 DEF OneName
  <2> QED
    BY <2>1, <2>4
<1> QED
  BY <1>1, <1>2, <1>3, <1>4, <1>5, <1>6, <1>7 DEF Mutate

(* Names stay unique when no key of the table changes its text.            *)
LEMMA NamesKept ==
  ASSUME NEW table, NEW txt, NEW txt2, NEW dirty, OneName(table, txt, dirty),
         \A e \in table : txt2[e[1]] = txt[e[1]]
  PROVE  OneName(table, txt2, dirty)
BY DEF OneName

(* So do the allocator's steps: a new cell is no key of the table.         *)
LEMMA SymNewObject == Inv /\ SymInv /\ NewObject => SymInv'
<1> SUFFICES ASSUME Inv, SymInv, NewObject PROVE SymInv'
  OBVIOUS
<1> USE DEF gcVars
<1>0. /\ pc \in {"alloc", "retry"} /\ Live = bitmap /\ bitmap \subseteq Obj
      /\ \A e \in oblist : e[1] \in bitmap
      /\ \A o \in Obj \ bitmap : kind[o] = "free"
  BY DEF NewObject, Allocate, AllocateError, AllocateMessage, Exhausted, Live,
         Inv, NoDangling, TypeOK, TagInv, PhaseInv, Idle
<1>1. CASE Exhausted
  BY <1>1 DEF Exhausted, SymInv, Live, heapVars, opVars
<1>2. CASE Allocate /\ op # "symbol"
  <2>1. PICK o \in Obj \ bitmap, t \in Text \cup {NoObj} :
          bitmap' = bitmap \cup {o} /\ refs' = [refs EXCEPT ![o] = args] /\ Fill(o, op, t)
    BY <1>2 DEF Allocate
  <2>2. Live' = bitmap \cup {o} /\ oblist' = oblist /\ op' = "none" /\ kind'[o] # "symbol"
    BY <1>2, <2>1 DEF Allocate, Live, Fill, Inv, TypeOK
  <2>3. \A a \in Obj \ {o} : kind'[a] = kind[a] /\ refs'[a] = refs[a] /\ text'[a] = text[a]
    BY <2>1 DEF Fill, Inv, TypeOK
  <2>4. \A a \in Live' : kind'[a] = "symbol" =>
          \E s \in Obj : refs'[a] = {s} /\ <<s, a>> \in oblist'
    BY <1>0, <2>2, <2>3 DEF SymInv
  <2>5. OneName(oblist', text', written')
    <3>1. oblist' = oblist /\ written' = written /\ OneName(oblist, text, written)
      BY <1>2, <2>2 DEF Allocate, SymInv
    <3>2. \A e \in oblist : e[1] \in Obj \ {o}
      BY <1>0
    <3>3. \A e \in oblist : text'[e[1]] = text[e[1]]
      BY <2>3, <3>2
    <3> QED
      BY <3>1, <3>3, NamesKept
  <2> QED
    BY <2>2, <2>4, <2>5 DEF SymInv
<1>3. CASE Allocate /\ op = "symbol"
  <2>1. PICK o \in Obj \ bitmap, t \in Text \cup {NoObj} :
          bitmap' = bitmap \cup {o} /\ refs' = [refs EXCEPT ![o] = args] /\ Fill(o, op, t)
    BY <1>3 DEF Allocate
  <2>2. PICK s \in Obj : args = {s} /\ <<s, Dummy>> \in oblist
    BY <1>3 DEF SymInv
  <2>3. /\ Live' = bitmap \cup {o} /\ op' = "none" /\ refs'[o] = {s}
        /\ oblist' = {<<e[1], IF e[2] = Dummy THEN o ELSE e[2]>> : e \in oblist}
        /\ written' = written
    BY <1>3, <2>1, <2>2 DEF Allocate, Live, Fill, Inv, TypeOK
  <2>4. \A a \in Obj \ {o} : kind'[a] = kind[a] /\ refs'[a] = refs[a] /\ text'[a] = text[a]
    BY <2>1 DEF Fill, Inv, TypeOK
  <2>5. \A a \in Live' : kind'[a] = "symbol" =>
          \E u \in Obj : refs'[a] = {u} /\ <<u, a>> \in oblist'
    <3> SUFFICES ASSUME NEW a \in Live', kind'[a] = "symbol"
                 PROVE \E u \in Obj : refs'[a] = {u} /\ <<u, a>> \in oblist'
      OBVIOUS
    <3>1. CASE a = o
      <4>1. <<<<s, Dummy>>[1], IF <<s, Dummy>>[2] = Dummy THEN o ELSE <<s, Dummy>>[2]>>
              \in oblist'
        BY <2>2, <2>3
      <4> QED
        BY <2>3, <3>1, <4>1
    <3>2. CASE a # o
      <4>1. a \in bitmap /\ a \in Obj /\ kind[a] = "symbol" /\ refs'[a] = refs[a]
        BY <1>0, <2>3, <2>4, <3>2
      <4>2. PICK u \in Obj : refs[a] = {u} /\ <<u, a>> \in oblist
        BY <1>0, <4>1 DEF SymInv
      <4>3. <<<<u, a>>[1], IF <<u, a>>[2] = Dummy THEN o ELSE <<u, a>>[2]>> \in oblist'
        BY <2>3, <4>2
      <4>4. a # Dummy
        BY <4>1, SentinelAssumption
      <4> QED
        BY <4>1, <4>2, <4>3, <4>4
    <3> QED
      BY <3>1, <3>2
  <2>6. OneName(oblist', text', written')
    <3> SUFFICES ASSUME NEW e \in oblist', NEW f \in oblist', e[1] \notin written',
                        f[1] \notin written', text'[e[1]] = text'[f[1]]
                 PROVE  e = f
      BY DEF OneName
    <3>1. PICK d \in oblist : e = <<d[1], IF d[2] = Dummy THEN o ELSE d[2]>>
      BY <2>3
    <3>2. PICK g \in oblist : f = <<g[1], IF g[2] = Dummy THEN o ELSE g[2]>>
      BY <2>3
    <3>3. e[1] = d[1] /\ f[1] = g[1]
      BY <3>1, <3>2
    <3>4. text'[e[1]] = text[d[1]] /\ text'[f[1]] = text[g[1]]
      BY <1>0, <2>1, <2>4, <3>3
    <3>5. d = g
      BY <2>3, <3>3, <3>4 DEF OneName, SymInv
    <3> QED
      BY <3>1, <3>2, <3>5
  <2> QED
    BY <2>3, <2>5, <2>6 DEF SymInv
<1>4. CASE AllocateError
  <2>1. PICK o \in Obj \ bitmap :
          /\ bitmap' = bitmap \cup {o} /\ refs' = [refs EXCEPT ![o] = args \cup {Wild}]
          /\ Fill(o, op, NoObj) /\ unset' = o
    BY <1>4 DEF AllocateError
  <2>2. /\ Live' = bitmap \cup {o} /\ oblist' = oblist /\ written' = written
        /\ op' = "message" /\ kind'[o] = "error"
    BY <1>4, <2>1 DEF AllocateError, Live, Fill, Inv, TypeOK
  <2>3. \A a \in Obj \ {o} : kind'[a] = kind[a] /\ refs'[a] = refs[a] /\ text'[a] = text[a]
    BY <2>1 DEF Fill, Inv, TypeOK
  <2>4. \A a \in Live' : kind'[a] = "symbol" =>
          \E s \in Obj : refs'[a] = {s} /\ <<s, a>> \in oblist'
    BY <1>0, <2>2, <2>3 DEF SymInv
  <2>5. OneName(oblist', text', written')
    <3>1. oblist' = oblist /\ written' = written /\ OneName(oblist, text, written)
      BY <2>2 DEF SymInv
    <3>2. \A e \in oblist : e[1] \in Obj \ {o}
      BY <1>0
    <3>3. \A e \in oblist : text'[e[1]] = text[e[1]]
      BY <2>3, <3>2
    <3> QED
      BY <3>1, <3>3, NamesKept
  <2> QED
    BY <2>1, <2>2, <2>4, <2>5 DEF SymInv
<1>5. CASE AllocateMessage
  <2>1. PICK o \in Obj \ bitmap, t \in Text :
          /\ bitmap' = bitmap \cup {o}
          /\ refs' = [refs EXCEPT ![unset] = (@ \ {Wild}) \cup {o}]
          /\ Fill(o, op, t)
    BY <1>5 DEF AllocateMessage
  <2>2. /\ Live' = bitmap \cup {o} /\ oblist' = oblist /\ written' = written
        /\ op' = "none" /\ kind'[o] = "string" /\ kind[unset] = "error" /\ unset \in bitmap
    BY <1>0, <1>5, <2>1 DEF AllocateMessage, Live, Fill, Inv, TypeOK, SymInv
  <2>3. \A a \in Obj \ {o} : kind'[a] = kind[a] /\ text'[a] = text[a]
    BY <2>1 DEF Fill, Inv, TypeOK
  <2>4. \A a \in Obj \ {unset} : refs'[a] = refs[a]
    BY <2>1 DEF Inv, TypeOK
  <2>5. \A a \in Live' : kind'[a] = "symbol" =>
          \E s \in Obj : refs'[a] = {s} /\ <<s, a>> \in oblist'
    BY <1>0, <2>2, <2>3, <2>4 DEF SymInv
  <2>6. OneName(oblist', text', written')
    <3>1. oblist' = oblist /\ written' = written /\ OneName(oblist, text, written)
      BY <2>2 DEF SymInv
    <3>2. \A e \in oblist : e[1] \in Obj \ {o}
      BY <1>0
    <3>3. \A e \in oblist : text'[e[1]] = text[e[1]]
      BY <2>3, <3>2
    <3> QED
      BY <3>1, <3>3, NamesKept
  <2> QED
    BY <2>2, <2>5, <2>6 DEF SymInv
<1> QED
  BY <1>1, <1>2, <1>3, <1>4, <1>5 DEF NewObject

(* And the collector's: an entry goes only with its symbol, and a key that *)
(* stays keeps its text.                                                   *)
LEMMA SymCollect == Inv /\ SymInv /\ (Collect \/ GCStep) => SymInv'
<1> SUFFICES ASSUME Inv, SymInv, Collect \/ GCStep PROVE SymInv'
  OBVIOUS
<1> USE DEF heapVars, opVars, gcVars
<1>0. Live \subseteq Obj
  BY DEF Live, Inv, TypeOK
<1>1. CASE Collect \/ Mark \/ StartRound \/ Scan
  <2>1. Live' = Live /\ UNCHANGED <<kind, refs, text, oblist, written, op, args, unset>>
    BY <1>1 DEF Collect, Mark, StartRound, Scan, Live
  <2> QED
    BY <2>1 DEF SymInv
<1>2. CASE MarkDone
  <2>1. Live' = bitmap /\ Live = shadow /\ UNCHANGED <<kind, refs, text, oblist, written, op, args, unset>>
    BY <1>2 DEF MarkDone, Live
  <2>2. bitmap \subseteq shadow /\ Protected \subseteq bitmap
    <3>1. Roots \subseteq bitmap /\ Closed(shadow) /\ Marking
      <4>1. pc = "weak" /\ pending = {}
        BY <1>2 DEF MarkDone
      <4>2. Roots \subseteq bitmap
        BY <4>1 DEF Inv, MarkInv, Marking
      <4>3. Closed(shadow)
        <5>1. Roots \subseteq shadow /\ \A o \in shadow : refs[o] \cap Obj \subseteq shadow
          BY <2>1 DEF Inv, NoDangling
        <5>2. \A w, k \in shadow : hash[w][k] \in Obj => hash[w][k] \in shadow
          BY <1>0, <2>1, <4>1, SentinelAssumption DEF Inv, NoDangling
        <5> QED
          BY <5>1, <5>2 DEF Closed
      <4> QED
        BY <4>1, <4>2, <4>3 DEF Marking
    <3>2. shadow \in SUBSET Obj /\ bitmap \subseteq Obj
      BY DEF Inv, TypeOK
    <3>3. bitmap \subseteq shadow
      BY <3>1, <3>2 DEF Inv, MarkInv
    <3> QED
      BY <3>1, <3>3 DEF Roots
  <2>3. op = "message" => unset \in bitmap
    BY <2>2 DEF Inv, ErrorInv
  <2> QED
    BY <2>1, <2>2, <2>3 DEF SymInv
<1>3. CASE SweepWeak
  <2>1. Live' = Live /\ UNCHANGED <<kind, refs, text, oblist, written, op, args, unset>>
    BY <1>3 DEF SweepWeak, Live
  <2> QED
    BY <2>1 DEF SymInv
<1>4. CASE SweepSymbols
  <2>1. /\ Live' = bitmap /\ Live = bitmap /\ UNCHANGED <<kind, refs, text, op, args, unset>>
        /\ oblist' = {e \in oblist : e[2] \notin Obj \ bitmap}
        /\ written' = written \cap {e[1] : e \in oblist'}
    BY <1>4 DEF SweepSymbols, Live
  <2>2. \A s \in Obj, a \in bitmap \cup {Dummy} : <<s, a>> \in oblist => <<s, a>> \in oblist'
    BY <2>1, SentinelAssumption
  <2>3. \A e \in oblist' : e \in oblist /\ (e[1] \notin written' => e[1] \notin written)
    BY <2>1
  <2>4. OneName(oblist', text', written')
    BY <2>1, <2>3 DEF OneName, SymInv
  <2> QED
    BY <2>1, <2>2, <2>4 DEF SymInv
<1>5. CASE Finalize
  <2>1. /\ Live' = bitmap /\ Live = bitmap /\ UNCHANGED <<oblist, written, op, args, unset>>
        /\ bitmap \cap shadow = {}
    BY <1>5 DEF Finalize, Live, Inv, PhaseInv
  <2>2. \A o \in bitmap : kind'[o] = kind[o] /\ refs'[o] = refs[o] /\ text'[o] = text[o]
    BY <1>0, <1>5, <2>1 DEF Finalize
  <2>3. \A e \in oblist : e[1] \in bitmap
    BY <1>5, <2>1 DEF Finalize, Inv, NoDangling
  <2>4. OneName(oblist', text', written')
    BY <2>1, <2>2, <2>3 DEF OneName, SymInv
  <2> QED
    BY <2>1, <2>2, <2>4 DEF SymInv
<1> QED
  BY <1>1, <1>2, <1>3, <1>4, <1>5 DEF GCStep

(* Symbols and the symbol table agree in every state.                      *)
LEMMA SymbolInvariant == Spec => []SymInv
<1>1. Init => SymInv
  BY DEF Init, SymInv, OneName, Live, NoEntries
<1>2. Inv /\ SymInv /\ [Next]_vars => SymInv'
  <2>1. Inv /\ SymInv /\ UNCHANGED vars => SymInv'
    BY DEF SymInv, Live, vars, heapVars, opVars
  <2> QED
    BY <2>1, SymMutate, SymNewObject, SymCollect DEF Next
<1> QED
  BY <1>1, <1>2, InductiveInvariant, PTL DEF Spec

(* No two symbols of one name ever exist whose names no one has written    *)
(* into, whatever the program writes into other strings: eq? on symbols    *)
(* compares names.                                                         *)
THEOREM SymbolsAreUnique == Spec => []SymbolsUnique
<1>1. Inv /\ SymInv => SymbolsUnique
  <2> SUFFICES ASSUME Inv, SymInv,
                      NEW a \in Live, NEW b \in Live,
                      kind[a] = "symbol", kind[b] = "symbol",
                      NEW s \in refs[a], NEW t \in refs[b], text[s] = text[t]
               PROVE a = b \/ {s, t} \cap written # {}
    BY DEF SymbolsUnique
  <2>1. <<s, a>> \in oblist /\ <<t, b>> \in oblist
    BY DEF SymInv
  <2>2. s \notin written /\ t \notin written => <<s, a>> = <<t, b>>
    BY <2>1 DEF SymInv, OneName
  <2> QED
    BY <2>2
<1> QED
  BY <1>1, InductiveInvariant, SymbolInvariant, PTL

-----------------------------------------------------------------------------
(* The promise of ManagedHeap: each step is a step of the abstract heap or *)
(* changes nothing the program can see.                                    *)

\* What a C function holds across an allocation is reachable without it also
\* after the collection, when the object that will hold it is allocated.
HeldInv ==
  pc \in {"sweep", "finalize", "retry"} =>
    \A S \in SUBSET Obj : Closed(S) => args \subseteq S

PromiseInv == Inv /\ SymInv /\ HeldInv

-----------------------------------------------------------------------------
(* What can be reached.                                                    *)

(* The live objects are closed, so no reachable object is dead.            *)
LEMMA LiveIsClosed ==
  ASSUME Inv
  PROVE  Live \in SUBSET Obj /\ Closed(Live)
<1>1. Live \in SUBSET Obj
  BY DEF Inv, TypeOK, Live
<1>2. CASE pc = "sweep"
  <2>1. Live = bitmap /\ Closed(bitmap)
    BY <1>2 DEF Inv, SweepInv, Live
  <2>. QED
    BY <1>1, <2>1
<1>3. CASE pc # "sweep"
  <2>1. /\ Roots \subseteq Live /\ \A o \in Live : refs[o] \cap Obj \subseteq Live
        /\ \A w \in Live, k \in Obj : hash[w][k] # NoObj => hash[w][k] \in Live \cup {Imm}
    BY <1>3 DEF Inv, NoDangling
  <2>2. \A w, k \in Live : hash[w][k] \in Obj => hash[w][k] \in Live
    BY <1>1, <2>1, SentinelAssumption
  <2>. QED
    BY <1>1, <2>1, <2>2 DEF Closed
<1>. QED
  BY <1>1, <1>2, <1>3

(* The abstract heap can reach the same objects.                           *)
LEMMA SameReachable ==
  ASSUME Inv
  PROVE  Abs!Reachable = Reachable /\ Reachable \subseteq Live
<1>1. Live \in SUBSET Obj /\ Closed(Live)
  BY LiveIsClosed
<1>2. ASSUME NEW S \in SUBSET Obj, Closed(S)
      PROVE  Abs!Closed(S)
  <2>1. Roots \subseteq S
    BY <1>2 DEF Closed
  <2>2. \A o \in S : LiveRefs[o] \subseteq S
    BY <1>2 DEF Closed, LiveRefs
  <2>3. \A w, k \in S : LiveHash[w][k] \in Obj => LiveHash[w][k] \in S
    BY <1>2, SentinelAssumption DEF Closed, LiveHash
  <2>. QED
    BY <2>1, <2>2, <2>3 DEF Abs!Closed
<1>3. ASSUME NEW S \in SUBSET Obj, Abs!Closed(S)
      PROVE  Closed(S \cap Live) /\ S \cap Live \in SUBSET Obj
  <2>1. Roots \subseteq S \cap Live
    BY <1>1, <1>3 DEF Closed, Abs!Closed
  <2>2. ASSUME NEW o \in S \cap Live
        PROVE  refs[o] \cap Obj \subseteq S \cap Live
    <3>1. LiveRefs[o] = refs[o] \cap Obj /\ LiveRefs[o] \subseteq S
      BY <1>3 DEF LiveRefs, Abs!Closed
    <3>. QED
      BY <1>1, <3>1 DEF Closed
  <2>3. ASSUME NEW w \in S \cap Live, NEW k \in S \cap Live, hash[w][k] \in Obj
        PROVE  hash[w][k] \in S \cap Live
    <3>1. LiveHash[w][k] = hash[w][k]
      BY DEF LiveHash
    <3>2. hash[w][k] \in S
      BY <1>3, <2>3, <3>1 DEF Abs!Closed
    <3>. QED
      BY <1>1, <2>3, <3>2 DEF Closed
  <2>. QED
    BY <2>1, <2>2, <2>3 DEF Closed
<1>4. Reachable \subseteq Live
  BY <1>1 DEF Reachable
<1>5. Abs!Reachable \subseteq Reachable
  BY <1>2 DEF Reachable, Abs!Reachable
<1>6. Reachable \subseteq Abs!Reachable
  <2>1. ASSUME NEW o \in Reachable, NEW S \in SUBSET Obj, Abs!Closed(S)
        PROVE  o \in S
    BY <1>3, <2>1 DEF Reachable
  <2>2. Reachable \subseteq Obj
    BY DEF Reachable
  <2>. QED
    BY <2>1, <2>2 DEF Abs!Reachable
<1>. QED
  BY <1>4, <1>5, <1>6

(* The roots are reachable, and so is what reachable objects hold.         *)
LEMMA ReachableIsClosed ==
  ASSUME Inv
  PROVE  /\ Reachable \in SUBSET Obj /\ Closed(Reachable)
         /\ \A T : (\A S \in SUBSET Obj : Closed(S) => T \subseteq S) /\ T \subseteq Obj
                     => T \subseteq Reachable
<1>1. Roots \subseteq Obj
  BY LiveIsClosed DEF Closed
<1>2. Roots \subseteq Reachable
  BY <1>1 DEF Reachable, Closed
<1>3. ASSUME NEW o \in Reachable
      PROVE  refs[o] \cap Obj \subseteq Reachable
  BY DEF Reachable, Closed
<1>4. ASSUME NEW w \in Reachable, NEW k \in Reachable, hash[w][k] \in Obj
      PROVE  hash[w][k] \in Reachable
  BY <1>4 DEF Reachable, Closed
<1>. QED
  BY <1>2, <1>3, <1>4 DEF Closed, Reachable
(* What a step leaves alone in the live objects keeps what is closed in     *)
(* them closed: how the sweep and the finalizers change no reachability.    *)
LEMMA ClosedAgain ==
  ASSUME Inv, Roots' = Roots,
         \A o \in Live : refs'[o] = refs[o],
         \A w, k \in Live : hash'[w][k] = hash[w][k],
         NEW S \in SUBSET Obj, Closed(S)'
  PROVE  S \cap Live \in SUBSET Obj /\ Closed(S \cap Live)
<1>1. Live \in SUBSET Obj /\ Closed(Live)
  BY LiveIsClosed
<1>2. Roots \subseteq S \cap Live
  BY <1>1 DEF Closed
<1>3. ASSUME NEW o \in S \cap Live
      PROVE  refs[o] \cap Obj \subseteq S \cap Live
  BY <1>1 DEF Closed
<1>4. ASSUME NEW w \in S \cap Live, NEW k \in S \cap Live, hash[w][k] \in Obj
      PROVE  hash[w][k] \in S \cap Live
  BY <1>1, <1>4 DEF Closed
<1>. QED
  BY <1>1, <1>2, <1>3, <1>4 DEF Closed

-----------------------------------------------------------------------------
(* Only the collector's own steps lead to where HeldInv speaks, and none of *)
(* them changes what the objects it keeps can reach.                        *)
LEMMA HeldStep == Inv /\ HeldInv /\ [Next]_vars => HeldInv'
<1> SUFFICES ASSUME Inv, HeldInv, [Next]_vars, pc' \in {"sweep", "finalize", "retry"},
                    NEW S \in SUBSET Obj, Closed(S)'
             PROVE  args' \subseteq S
  BY DEF HeldInv
<1> USE DEF heapVars, opVars, gcVars
<1>1. CASE MarkDone
  <2>1. Roots' = Roots /\ args' = args /\ pc = "weak" /\ Closed(S)
    BY <1>1 DEF MarkDone, Roots, Protected, Closed
  <2>. QED
    BY <2>1 DEF Inv, ArgsInv
<1>2. CASE SweepWeak
  <2>1. PICK w \in weaks : hash' = [hash EXCEPT ![w] =
                             [k \in Obj |-> IF k \in bitmap THEN @[k] ELSE NoObj]]
    BY <1>2 DEF SweepWeak
  <2>2. /\ Roots' = Roots /\ args' = args /\ refs' = refs /\ pc = "sweep" /\ Live = bitmap
        /\ bitmap \subseteq Obj
    BY <1>2 DEF SweepWeak, Roots, Protected, Live, Inv, TypeOK
  <2>3. \A v, k \in Live : hash'[v][k] = hash[v][k]
    BY <2>1, <2>2 DEF Inv, TypeOK
  <2>4. S \cap Live \in SUBSET Obj /\ Closed(S \cap Live)
    BY <2>2, <2>3, ClosedAgain
  <2>. QED
    BY <2>2, <2>4 DEF HeldInv
<1>3. CASE SweepSymbols
  <2>1. Roots' = Roots /\ args' = args /\ pc = "sweep" /\ Closed(S)
    BY <1>3 DEF SweepSymbols, Roots, Protected, Closed
  <2>. QED
    BY <2>1 DEF HeldInv
<1>4. CASE Finalize
  <2>1. /\ Roots' = Roots /\ args' = args /\ pc = "finalize" /\ Live = bitmap
        /\ bitmap \subseteq Obj /\ shadow \cap bitmap = {}
    BY <1>4 DEF Finalize, Roots, Protected, Live, Inv, TypeOK, PhaseInv
  <2>2. \A o \in Live : refs'[o] = refs[o] /\ hash'[o] = hash[o]
    BY <1>4, <2>1 DEF Finalize
  <2>3. S \cap Live \in SUBSET Obj /\ Closed(S \cap Live)
    BY <2>1, <2>2, ClosedAgain
  <2>. QED
    BY <2>1, <2>3 DEF HeldInv
<1>5. CASE UNCHANGED vars
  <2>1. Roots' = Roots /\ args' = args /\ pc' = pc /\ Closed(S)
    BY <1>5 DEF vars, Roots, Protected, Closed
  <2>. QED
    BY <2>1 DEF HeldInv
<1>6. CASE Mutate \/ Collect \/ NewObject \/ Mark \/ StartRound \/ Scan
  <2>1. CASE Mutate
    BY <2>1 DEF Mutate, Load, Return, Drop, Leave, SetField, WeakSet, WeakDel,
         StringUpdate, Cons, WeakRef, MakeWeak, MakeString, InternHit, InternMiss, MakeError, Close,
         Running, Request
  <2>2. CASE Collect \/ NewObject
    BY <2>2 DEF Collect, NewObject, Allocate, AllocateError, AllocateMessage, Exhausted
  <2>3. CASE Mark \/ StartRound \/ Scan
    BY <2>3 DEF Mark, StartRound, Scan
  <2>. QED
    BY <1>6, <2>1, <2>2, <2>3
<1>. QED
  BY <1>1, <1>2, <1>3, <1>4, <1>5, <1>6 DEF Next, GCStep

(* What a C function holds across its allocation is what the program can   *)
(* reach, in the abstract heap too.                                        *)
LEMMA ArgsReachable ==
  ASSUME PromiseInv, pc \in {"alloc", "retry"}
  PROVE  args \subseteq Abs!Reachable /\ args \subseteq Obj
<1>1. args \subseteq Obj
  BY DEF PromiseInv, Inv, TypeOK
<1>2. \A S \in SUBSET Obj : Closed(S) => args \subseteq S
  BY DEF PromiseInv, Inv, ArgsInv, HeldInv
<1>3. args \subseteq Reachable
  BY <1>1, <1>2 DEF Reachable
<1>. QED
  BY <1>1, <1>3, SameReachable DEF PromiseInv
-----------------------------------------------------------------------------
(* The steps, one by one.                                                  *)

(* What the program takes hold of it could reach, or the symbol table had  *)
(* it interned.                                                            *)
LEMMA HoldPromise ==
  PromiseInv /\ (Load \/ Return \/ Drop \/ Leave \/ InternHit \/ Close) => Abs!Access
<1> SUFFICES ASSUME PromiseInv, Load \/ Return \/ Drop \/ Leave \/ InternHit \/ Close
             PROVE  Abs!Access
  OBVIOUS
<1> USE DEF heapVars, opVars, gcVars
<1>1. /\ Live = bitmap /\ Live' = Live /\ Live \subseteq Obj /\ pc = "run"
      /\ UNCHANGED <<refs, hash, oblist>>
  BY DEF Load, Return, Drop, Leave, InternHit, Close, Running, Live, PromiseInv, Inv, TypeOK
<1>2. LiveRefs' = LiveRefs /\ LiveHash' = LiveHash /\ LiveTable' = LiveTable
  BY <1>1 DEF LiveRefs, LiveHash, LiveTable
<1>3. Roots \subseteq Abs!Reachable /\ Closed(Abs!Reachable)
  BY SameReachable, ReachableIsClosed DEF PromiseInv, Closed
<1>4. Roots' \subseteq Abs!Reachable \cup {e[2] : e \in LiveTable}
  <2>1. CASE Return \/ Drop
    BY <1>3, <2>1 DEF Return, Drop, Roots, Protected
  <2>2. CASE Leave
    <3>1. Protected' \subseteq Protected /\ root' = root
      <4>1. PICK n \in 0 .. Len(arena) - 1 : arena' = SubSeq(arena, 1, n)
        BY <2>2 DEF Leave
      <4>2. arena \in Seq(Obj)
        BY DEF PromiseInv, Inv, TypeOK
      <4>3. {SubSeq(arena, 1, n)[i] : i \in DOMAIN SubSeq(arena, 1, n)} \subseteq
              {arena[i] : i \in DOMAIN arena}
        BY <4>2, PrefixRange
      <4>. QED
        BY <2>2, <4>1, <4>3 DEF Leave, Protected
    <3>. QED
      BY <1>3, <3>1 DEF Roots
  <2>3. CASE Close
    BY <2>3 DEF Close, Roots, Protected
  <2>4. CASE Load
    <3>1. PICK o \in Roots : \E r \in refs[o] \ root : root' = root \cup {r}
      BY <2>4 DEF Load
    <3>2. PICK r \in refs[o] : root' = root \cup {r}
      BY <3>1
    <3>3. o \in Obj /\ r \in Obj
      <4>1. o \in Obj /\ refs[o] \subseteq Obj \cup {Wild}
        BY <1>1, <1>3 DEF PromiseInv, Inv, TypeOK, NoDangling
      <4>2. Wild \notin refs[o]
        BY <1>1, <4>1, SentinelAssumption DEF PromiseInv, Inv, ErrorInv, PhaseInv
      <4>. QED
        BY <4>1, <4>2
    <3>4. r \in Abs!Reachable
      BY <1>3, <3>1, <3>3 DEF Closed
    <3>. QED
      BY <1>3, <2>4, <3>2, <3>4 DEF Load, Roots, Protected
  <2>5. CASE InternHit
    <3>1. PICK e \in oblist : arena' = Append(arena, e[2])
      BY <2>5 DEF InternHit, SameName
    <3>2. e[2] \in Live
      BY <1>1 DEF PromiseInv, Inv, NoDangling, TableInv
    <3>3. Protected' = Protected \cup {e[2]}
      <4>1. arena \in Seq(Obj) /\ e[2] \in Obj
        BY <1>1, <3>2 DEF PromiseInv, Inv, TypeOK
      <4>2. {Append(arena, e[2])[i] : i \in DOMAIN Append(arena, e[2])} =
              {arena[i] : i \in DOMAIN arena} \cup {e[2]}
        BY <4>1, AppendRange
      <4>. QED
        BY <3>1, <4>2 DEF Protected
    <3>4. e \in LiveTable
      BY <3>2 DEF LiveTable
    <3>. QED
      BY <1>3, <2>5, <3>3, <3>4 DEF InternHit, Roots
  <2>. QED
    BY <2>1, <2>2, <2>3, <2>4, <2>5
<1>. QED
  BY <1>1, <1>2, <1>4 DEF Abs!Access

(* What the program stores in an object it can reach too.                  *)
LEMMA StorePromise == PromiseInv /\ SetField => Abs!Store
<1> SUFFICES ASSUME PromiseInv, SetField PROVE Abs!Store
  OBVIOUS
<1> USE DEF heapVars, opVars, gcVars
<1>1. /\ Live = bitmap /\ Live' = Live /\ Live \subseteq Obj /\ Roots \subseteq Live
      /\ Roots' = Roots /\ UNCHANGED <<hash, oblist>>
  BY DEF SetField, Running, Live, Roots, Protected, PromiseInv, Inv, TypeOK, NoDangling
<1>2. LiveHash' = LiveHash /\ LiveTable' = LiveTable
  BY <1>1 DEF LiveHash, LiveTable
<1>3. PICK o \in Roots, old \in Obj \cup {Imm, Wild}, new \in Roots \cup {Imm} :
        refs' = [refs EXCEPT ![o] = ((@ \ {old}) \cup {new}) \ {Imm}]
  <2>1. PICK o \in Roots : \E old \in refs[o] \cup {Imm} : \E new \in Roots \cup {Imm} :
          refs' = [refs EXCEPT ![o] = ((@ \ {old}) \cup {new}) \ {Imm}]
    BY DEF SetField
  <2>2. refs[o] \subseteq Obj \cup {Wild}
    BY <1>1 DEF PromiseInv, Inv, TypeOK
  <2>. QED
    BY <2>1, <2>2
<1>4. Roots \subseteq Abs!Reachable /\ Closed(Abs!Reachable) /\ o \in Obj /\ o \in Live
  BY <1>1, SameReachable, ReachableIsClosed DEF PromiseInv, Closed
<1>5. refs'[o] \cap Obj \subseteq Abs!Reachable
  <2>1. refs[o] \cap Obj \subseteq Abs!Reachable
    BY <1>4 DEF Closed
  <2>2. refs'[o] \subseteq refs[o] \cup {new}
    BY <1>3, <1>4 DEF PromiseInv, Inv, TypeOK
  <2>3. new \in Obj => new \in Abs!Reachable
    BY <1>3, <1>4, SentinelAssumption
  <2>. QED
    BY <2>1, <2>2, <2>3
<1>6. LiveRefs' = [LiveRefs EXCEPT ![o] = refs'[o] \cap Obj]
  BY <1>1, <1>3, <1>4 DEF LiveRefs, PromiseInv, Inv, TypeOK
<1>. QED
  BY <1>1, <1>2, <1>5, <1>6 DEF Abs!Store

(* An ephemeron table changes in one entry, of a key the program holds.    *)
LEMMA StoreWeakPromise == PromiseInv /\ (WeakSet \/ WeakDel) => Abs!StoreWeak
<1> SUFFICES ASSUME PromiseInv, WeakSet \/ WeakDel PROVE Abs!StoreWeak
  OBVIOUS
<1> USE DEF heapVars, opVars, gcVars
<1>1. /\ Live = bitmap /\ Live' = Live /\ Live \subseteq Obj /\ Roots \subseteq Live
      /\ Roots' = Roots /\ UNCHANGED <<refs, oblist>>
  BY DEF WeakSet, WeakDel, Running, Live, Roots, Protected, PromiseInv, Inv, TypeOK, NoDangling
<1>2. LiveRefs' = LiveRefs /\ LiveTable' = LiveTable
  BY <1>1 DEF LiveRefs, LiveTable
<1>3. PICK w \in Roots, k \in Roots, v \in Roots \cup {Imm, NoObj} :
        hash' = [hash EXCEPT ![w][k] = v]
  BY DEF WeakSet, WeakDel
<1>4. Roots \subseteq Abs!Reachable
  BY SameReachable, ReachableIsClosed DEF PromiseInv, Closed
<1>5. w \in Live /\ k \in Live /\ w \in Obj /\ k \in Obj
  BY <1>1
<1>6. LiveHash' = [LiveHash EXCEPT ![w][k] = v]
  <2>1. ASSUME NEW u \in Obj, NEW j \in Obj
        PROVE  LiveHash'[u][j] = [LiveHash EXCEPT ![w][k] = v][u][j]
    <3>1. hash'[u][j] = IF u = w /\ j = k THEN v ELSE hash[u][j]
      BY <1>3, <1>5 DEF PromiseInv, Inv, TypeOK
    <3>2. LiveHash'[u][j] = IF {u, j} \subseteq Live THEN hash'[u][j] ELSE NoObj
      BY <1>1 DEF LiveHash
    <3>3. LiveHash[u][j] = IF {u, j} \subseteq Live THEN hash[u][j] ELSE NoObj
      BY DEF LiveHash
    <3>4. [LiveHash EXCEPT ![w][k] = v][u][j] =
            IF u = w /\ j = k THEN v ELSE LiveHash[u][j]
      BY <1>5 DEF LiveHash
    <3>. QED
      BY <1>5, <3>1, <3>2, <3>3, <3>4
  <2>2. /\ LiveHash' = [u \in Obj |-> [j \in Obj |-> LiveHash'[u][j]]]
        /\ [LiveHash EXCEPT ![w][k] = v] =
             [u \in Obj |-> [j \in Obj |-> [LiveHash EXCEPT ![w][k] = v][u][j]]]
    BY <1>5 DEF LiveHash
  <2>. QED
    BY <2>1, <2>2
<1>. QED
  BY <1>1, <1>2, <1>3, <1>4, <1>6 DEF Abs!StoreWeak
(* An allocation that begins changes nothing the program can see (the NULL *)
(* pic_intern leaves in the symbol table is no symbol), nor does a write   *)
(* into a string, whose text ManagedHeap does not know.                    *)
LEMMA RequestPromise ==
  PromiseInv /\ (\/ Cons \/ WeakRef \/ MakeWeak \/ MakeString
                 \/ StringUpdate \/ InternMiss \/ MakeError)
    => UNCHANGED Abs!vars
<1> SUFFICES ASSUME PromiseInv,
                    \/ Cons \/ WeakRef \/ MakeWeak \/ MakeString
                    \/ StringUpdate \/ InternMiss \/ MakeError
             PROVE  UNCHANGED Abs!vars
  OBVIOUS
<1> USE DEF heapVars, opVars, gcVars
<1>1. /\ Live = bitmap /\ Live' = Live /\ Live \subseteq Obj /\ Roots \subseteq Live
      /\ Roots' = Roots /\ UNCHANGED <<refs, hash>>
  BY DEF Cons, WeakRef, MakeWeak, MakeString, StringUpdate, InternMiss, MakeError,
         Request, Running, Live, Roots, Protected, PromiseInv, Inv, TypeOK, NoDangling
<1>2. LiveRefs' = LiveRefs /\ LiveHash' = LiveHash
  BY <1>1 DEF LiveRefs, LiveHash
<1>3. LiveTable' = LiveTable
  <2>1. CASE InternMiss
    <3>1. PICK s \in Roots : oblist' = oblist \cup {<<s, Dummy>>}
      BY <2>1 DEF InternMiss
    <3>2. Dummy \notin Live
      BY <1>1, SentinelAssumption
    <3>. QED
      BY <1>1, <3>1, <3>2 DEF LiveTable
  <2>2. CASE Cons \/ WeakRef \/ MakeWeak \/ MakeString \/ StringUpdate \/ MakeError
    <3>1. oblist' = oblist
      BY <2>2 DEF Cons, WeakRef, MakeWeak, MakeString, StringUpdate, MakeError
    <3>. QED
      BY <1>1, <3>1 DEF LiveTable
  <2>. QED
    BY <2>1, <2>2
<1>. QED
  BY <1>1, <1>2, <1>3 DEF Abs!vars

(* Nor does the collector, but for the end of its marking; a panic changes *)
(* nothing either.                                                         *)
LEMMA CollectorPromise ==
  PromiseInv /\ (\/ Collect \/ Mark \/ StartRound \/ Scan
                 \/ SweepWeak \/ SweepSymbols \/ Finalize \/ Exhausted)
    => UNCHANGED Abs!vars
<1> SUFFICES ASSUME PromiseInv,
                    \/ Collect \/ Mark \/ StartRound \/ Scan
                    \/ SweepWeak \/ SweepSymbols \/ Finalize \/ Exhausted
             PROVE  UNCHANGED Abs!vars
  OBVIOUS
<1> USE DEF heapVars, opVars, gcVars
<1>1. /\ Live' = Live /\ Live \subseteq Obj /\ Roots' = Roots
      /\ SweepWeak \/ SweepSymbols \/ Finalize => Live = bitmap
  BY DEF Collect, Mark, StartRound, Scan, SweepWeak, SweepSymbols, Finalize, Exhausted,
         Live, Roots, Protected, PromiseInv, Inv, TypeOK
<1>2. \A o \in Live : refs'[o] = refs[o]
  <2>1. CASE Finalize
    BY <1>1, <2>1 DEF Finalize, PromiseInv, Inv, PhaseInv
  <2>2. CASE ~Finalize
    BY <2>2 DEF Collect, Mark, StartRound, Scan, SweepWeak, SweepSymbols, Exhausted
  <2>. QED
    BY <2>1, <2>2
<1>3. \A w, k \in Live : hash'[w][k] = hash[w][k]
  <2>1. CASE Finalize
    BY <1>1, <2>1 DEF Finalize, PromiseInv, Inv, PhaseInv
  <2>2. CASE SweepWeak
    <3>1. PICK w \in weaks : hash' = [hash EXCEPT ![w] =
                               [k \in Obj |-> IF k \in bitmap THEN @[k] ELSE NoObj]]
      BY <2>2 DEF SweepWeak
    <3>. QED
      BY <1>1, <2>2, <3>1 DEF PromiseInv, Inv, TypeOK
  <2>3. CASE ~Finalize /\ ~SweepWeak
    BY <2>3 DEF Collect, Mark, StartRound, Scan, SweepSymbols, Exhausted
  <2>. QED
    BY <2>1, <2>2, <2>3
<1>4. LiveTable' = LiveTable
  <2>1. CASE SweepSymbols
    <3>1. oblist' = {e \in oblist : e[2] \notin Obj \ bitmap} /\ Live = bitmap
      BY <1>1, <2>1 DEF SweepSymbols
    <3>. QED
      BY <1>1, <3>1 DEF LiveTable
  <2>2. CASE ~SweepSymbols
    <3>1. oblist' = oblist
      BY <2>2 DEF Collect, Mark, StartRound, Scan, SweepWeak, Finalize, Exhausted
    <3>. QED
      BY <1>1, <3>1 DEF LiveTable
  <2>. QED
    BY <2>1, <2>2
<1>5. LiveRefs' = LiveRefs /\ LiveHash' = LiveHash
  BY <1>1, <1>2, <1>3 DEF LiveRefs, LiveHash
<1>. QED
  BY <1>1, <1>4, <1>5 DEF Abs!vars

(* The end of marking is the whole collection of the abstract heap.        *)
LEMMA MarkDonePromise == PromiseInv /\ PromiseInv' /\ MarkDone => Abs!Collect
<1> SUFFICES ASSUME PromiseInv, PromiseInv', MarkDone PROVE Abs!Collect
  OBVIOUS
<1> USE DEF heapVars, opVars, gcVars
<1>1. /\ Live = shadow /\ Live' = bitmap /\ Roots' = Roots /\ pc' = "sweep"
      /\ bitmap \subseteq Obj /\ UNCHANGED <<bitmap, refs, hash, oblist>>
  BY DEF MarkDone, Live, Roots, Protected, PromiseInv, Inv, TypeOK
<1>2. \A S \in SUBSET Obj : Closed(S)' <=> Closed(S)
  BY <1>1 DEF Closed
<1>3. Closed(bitmap) /\ \A S \in SUBSET Obj : Closed(S) => bitmap \subseteq S
  <2>1. Closed(bitmap)' /\ \A S \in SUBSET Obj : Closed(S)' => bitmap' \subseteq S
    BY <1>1 DEF PromiseInv, Inv, SweepInv
  <2>2. Closed(bitmap)
    BY <1>1, <2>1 DEF Closed
  <2>. QED
    BY <1>1, <1>2, <2>1, <2>2
<1>4. Abs!Reachable = bitmap /\ bitmap \subseteq Live
  <2>1. Reachable = bitmap
    BY <1>1, <1>3 DEF Reachable
  <2>. QED
    BY <2>1, SameReachable DEF PromiseInv
<1>5. LiveRefs' = [o \in Obj |-> IF o \in Abs!Reachable THEN LiveRefs[o] ELSE {}]
  BY <1>1, <1>4 DEF LiveRefs
<1>6. LiveHash' = [w \in Obj |-> [k \in Obj |->
                     IF {w, k} \subseteq Abs!Reachable THEN LiveHash[w][k] ELSE NoObj]]
  <2>1. \A w, k \in Obj :
          (IF {w, k} \subseteq bitmap THEN hash[w][k] ELSE NoObj) =
          (IF {w, k} \subseteq Abs!Reachable THEN LiveHash[w][k] ELSE NoObj)
    BY <1>4 DEF LiveHash
  <2>. QED
    BY <1>1, <2>1 DEF LiveHash
<1>7. LiveTable' = {e \in LiveTable : e[2] \in Abs!Reachable}
  BY <1>1, <1>4 DEF LiveTable
<1>. QED
  BY <1>1, <1>4, <1>5, <1>6, <1>7 DEF Abs!Collect
(* A cell in no bitmap has no entry in an ephemeron table, as table or as  *)
(* key, and none in the symbol table.                                      *)
LEMMA FreshCell ==
  ASSUME PromiseInv, pc \in {"alloc", "retry"}, NEW o \in Obj \ bitmap,
         bitmap' = bitmap \cup {o}, arena' = Append(arena, o),
         pc' \in {"alloc", "run"}, UNCHANGED <<hash, root>>
  PROVE  /\ Live = bitmap /\ Live' = Live \cup {o} /\ Live \subseteq Obj
         /\ Roots' = Roots \cup {o} /\ Roots \subseteq Live
         /\ LiveHash' = LiveHash
         /\ LiveRefs[o] = {}
         /\ \A e \in oblist : e[2] # o
<1>1. Live = bitmap /\ Live' = Live \cup {o} /\ Live \subseteq Obj
  BY DEF Live, PromiseInv, Inv, TypeOK
<1>2. Roots' = Roots \cup {o} /\ Roots \subseteq Live
  <2>1. arena \in Seq(Obj)
    BY DEF PromiseInv, Inv, TypeOK
  <2>2. {Append(arena, o)[i] : i \in DOMAIN Append(arena, o)} =
          {arena[i] : i \in DOMAIN arena} \cup {o}
    BY <2>1, AppendRange
  <2>. QED
    BY <2>2 DEF Roots, Protected, PromiseInv, Inv, NoDangling
<1>3. kind[o] = "free" /\ hash[o] = NoEntries
  BY <1>1 DEF PromiseInv, Inv, TagInv, PhaseInv, Idle
<1>4. \A w \in Live : hash[w][o] = NoObj
  BY <1>1 DEF PromiseInv, Inv, NoDangling
<1>5. LiveHash' = LiveHash
  <2>1. \A w, k \in Obj : (IF {w, k} \subseteq Live' THEN hash[w][k] ELSE NoObj) =
                          (IF {w, k} \subseteq Live THEN hash[w][k] ELSE NoObj)
    BY <1>1, <1>3, <1>4 DEF NoEntries
  <2>. QED
    BY <2>1 DEF LiveHash
<1>6. LiveRefs[o] = {}
  BY <1>1 DEF LiveRefs
<1>7. \A e \in oblist : e[2] # o
  BY <1>1, SentinelAssumption DEF PromiseInv, Inv, NoDangling
<1>. QED
  BY <1>1, <1>2, <1>5, <1>6, <1>7

(* A constructor's object is a new cell that refers to what it was given;  *)
(* a symbol enters the symbol table with it.                               *)
LEMMA AllocatePromise == PromiseInv /\ Allocate => Abs!New
<1> SUFFICES ASSUME PromiseInv, Allocate PROVE Abs!New
  OBVIOUS
<1> USE DEF gcVars
<1>1. PICK o \in Obj \ bitmap, t \in Text \cup {NoObj} :
        /\ bitmap' = bitmap \cup {o} /\ arena' = Append(arena, o)
        /\ refs' = [refs EXCEPT ![o] = args] /\ Fill(o, op, t)
  BY DEF Allocate
<1>2. /\ pc \in {"alloc", "retry"} /\ pc' = "run" /\ op \notin {"error", "message"}
      /\ UNCHANGED <<hash, root>>
  BY DEF Allocate
<1>3. /\ Live = bitmap /\ Live' = Live \cup {o} /\ Live \subseteq Obj
      /\ Roots' = Roots \cup {o} /\ LiveHash' = LiveHash
      /\ LiveRefs[o] = {} /\ \A e \in oblist : e[2] # o
  BY <1>1, <1>2, FreshCell
<1>4. args \subseteq Abs!Reachable /\ args \subseteq Obj
  BY <1>2, ArgsReachable
<1>5. LiveRefs' = [LiveRefs EXCEPT ![o] = args]
  <2>1. \A p \in Obj : refs'[p] = IF p = o THEN args ELSE refs[p]
    BY <1>1 DEF PromiseInv, Inv, TypeOK
  <2>. QED
    BY <1>3, <1>4, <2>1 DEF LiveRefs
<1>6. \/ LiveTable' = LiveTable
      \/ \E s \in args : LiveTable' = LiveTable \cup {<<s, o>>}
  <2>1. CASE op = "symbol"
    <3>1. PICK s \in Obj : args = {s} /\ <<s, Dummy>> \in oblist
      BY <2>1 DEF PromiseInv, SymInv
    <3>2. oblist' = {<<e[1], IF e[2] = Dummy THEN o ELSE e[2]>> : e \in oblist}
      BY <1>1, <2>1 DEF Fill
    <3>3. \A e \in oblist : /\ e = <<e[1], e[2]>> /\ e[2] \in Live \cup {Dummy}
                            /\ (e[2] = Dummy => e[1] = s)
      BY <1>2, <1>3, <3>1 DEF PromiseInv, Inv, TypeOK, NoDangling, TableInv
    <3>4. Dummy \notin Live'
      BY <1>3, SentinelAssumption
    <3>5. oblist' \subseteq LiveTable \cup {<<s, o>>}
      BY <1>3, <3>2, <3>3 DEF LiveTable
    <3>6. LiveTable \subseteq LiveTable'
      <4>1. ASSUME NEW e \in LiveTable PROVE e \in LiveTable'
        <5>1. e \in oblist /\ e[2] \in Live /\ e[2] # Dummy /\ e = <<e[1], e[2]>>
          BY <1>3, <3>3, <3>4 DEF LiveTable
        <5>2. <<e[1], IF e[2] = Dummy THEN o ELSE e[2]>> \in oblist'
          BY <3>2, <5>1
        <5>. QED
          BY <1>3, <5>1, <5>2 DEF LiveTable
      <4>. QED
        BY <4>1
    <3>7. <<s, o>> \in LiveTable'
      <4>1. <<<<s, Dummy>>[1], IF <<s, Dummy>>[2] = Dummy THEN o ELSE <<s, Dummy>>[2]>>
              \in oblist'
        BY <3>1, <3>2
      <4>. QED
        BY <1>3, <4>1 DEF LiveTable
    <3>8. LiveTable' \subseteq oblist'
      BY DEF LiveTable
    <3>. QED
      BY <3>1, <3>5, <3>6, <3>7, <3>8
  <2>2. CASE op # "symbol"
    <3>1. oblist' = oblist
      BY <1>1, <2>2 DEF Fill
    <3>. QED
      BY <1>3, <3>1 DEF LiveTable
  <2>. QED
    BY <2>1, <2>2
<1>. QED
  BY <1>1, <1>3, <1>4, <1>5, <1>6 DEF Abs!New

(* The error object is new, and refers to its type only: the field nobody  *)
(* has written is no reference the program can follow.                     *)
LEMMA AllocateErrorPromise == PromiseInv /\ AllocateError => Abs!New
<1> SUFFICES ASSUME PromiseInv, AllocateError PROVE Abs!New
  OBVIOUS
<1> USE DEF gcVars
<1>1. PICK o \in Obj \ bitmap :
        /\ bitmap' = bitmap \cup {o} /\ arena' = Append(arena, o)
        /\ refs' = [refs EXCEPT ![o] = args \cup {Wild}] /\ Fill(o, op, NoObj)
  BY DEF AllocateError
<1>2. /\ pc \in {"alloc", "retry"} /\ pc' = "alloc" /\ op = "error"
      /\ UNCHANGED <<hash, root>>
  BY DEF AllocateError
<1>3. /\ Live = bitmap /\ Live' = Live \cup {o} /\ Live \subseteq Obj
      /\ Roots' = Roots \cup {o} /\ LiveHash' = LiveHash
      /\ LiveRefs[o] = {} /\ \A e \in oblist : e[2] # o
  BY <1>1, <1>2, FreshCell
<1>4. args \subseteq Abs!Reachable /\ args \subseteq Obj
  BY <1>2, ArgsReachable
<1>5. LiveRefs' = [LiveRefs EXCEPT ![o] = args]
  <2>1. \A p \in Obj : refs'[p] = IF p = o THEN args \cup {Wild} ELSE refs[p]
    BY <1>1 DEF PromiseInv, Inv, TypeOK
  <2>2. (args \cup {Wild}) \cap Obj = args
    BY <1>4, SentinelAssumption
  <2>. QED
    BY <1>3, <2>1, <2>2 DEF LiveRefs
<1>6. LiveTable' = LiveTable
  BY <1>1, <1>2, <1>3 DEF LiveTable, Fill
<1>. QED
  BY <1>1, <1>3, <1>4, <1>5, <1>6 DEF Abs!New

(* The string of its message is a new object that is stored in it at once. *)
LEMMA AllocateMessagePromise == PromiseInv /\ AllocateMessage => Abs!New
<1> SUFFICES ASSUME PromiseInv, AllocateMessage PROVE Abs!New
  OBVIOUS
<1> USE DEF gcVars
<1>1. PICK o \in Obj \ bitmap, t \in Text :
        /\ bitmap' = bitmap \cup {o} /\ arena' = Append(arena, o)
        /\ refs' = [refs EXCEPT ![unset] = (@ \ {Wild}) \cup {o}] /\ Fill(o, op, t)
  BY DEF AllocateMessage
<1>2. /\ pc \in {"alloc", "retry"} /\ pc' = "run" /\ op = "message"
      /\ UNCHANGED <<hash, root>>
  BY DEF AllocateMessage
<1>3. /\ Live = bitmap /\ Live' = Live \cup {o} /\ Live \subseteq Obj
      /\ Roots' = Roots \cup {o} /\ Roots \subseteq Live /\ LiveHash' = LiveHash
      /\ LiveRefs[o] = {} /\ \A e \in oblist : e[2] # o
  BY <1>1, <1>2, FreshCell
<1>4. unset \in Roots /\ unset \in Live /\ unset # o /\ unset \in Obj
  BY <1>2, <1>3 DEF PromiseInv, Inv, ErrorInv, Roots
<1>5. refs[o] = {}
  BY <1>2, <1>3 DEF PromiseInv, Inv, TagInv, PhaseInv, Idle
<1>6. LiveRefs' = [LiveRefs EXCEPT ![o] = {}, ![unset] = @ \cup {o}]
  <2>1. \A p \in Obj : refs'[p] = IF p = unset THEN (refs[p] \ {Wild}) \cup {o} ELSE refs[p]
    BY <1>1, <1>4 DEF PromiseInv, Inv, TypeOK
  <2>2. ((refs[unset] \ {Wild}) \cup {o}) \cap Obj = (refs[unset] \cap Obj) \cup {o}
    BY SentinelAssumption
  <2>3. \A p \in Obj : LiveRefs'[p] = [LiveRefs EXCEPT ![o] = {}, ![unset] = @ \cup {o}][p]
    BY <1>3, <1>4, <1>5, <2>1, <2>2 DEF LiveRefs
  <2>. QED
    BY <2>3 DEF LiveRefs
<1>7. LiveTable' = LiveTable
  BY <1>1, <1>2, <1>3 DEF LiveTable, Fill
<1>8. {} \subseteq Abs!Reachable
  OBVIOUS
<1>. QED
  BY <1>1, <1>3, <1>4, <1>6, <1>7, <1>8 DEF Abs!New

-----------------------------------------------------------------------------
(* The heap pic_open makes is the empty abstract heap.                     *)
LEMMA InitPromise == Init => Abs!Init
<1> SUFFICES ASSUME Init PROVE Abs!Init
  OBVIOUS
<1>1. Roots = {} /\ Live = {}
  BY DEF Init, Roots, Protected, Live
<1>2. LiveRefs = [o \in Obj |-> {}] /\ LiveTable = {}
  BY <1>1 DEF LiveRefs, LiveTable
<1>3. LiveHash = [w \in Obj |-> [k \in Obj |-> NoObj]]
  BY <1>1 DEF LiveHash
<1>. QED
  BY <1>1, <1>2, <1>3 DEF Abs!Init, Abs!Blank

(* Every step of the collector is a step of the abstract heap or none.     *)
LEMMA StepPromise ==
  PromiseInv /\ PromiseInv' /\ [Next]_vars => [Abs!Next]_(Abs!vars)
<1> SUFFICES ASSUME PromiseInv, PromiseInv', [Next]_vars
             PROVE  Abs!Next \/ UNCHANGED Abs!vars
  OBVIOUS
<1>1. CASE Mutate
  BY <1>1, HoldPromise, StorePromise, StoreWeakPromise, RequestPromise
    DEF Mutate, Abs!Next
<1>2. CASE NewObject
  BY <1>2, AllocatePromise, AllocateErrorPromise, AllocateMessagePromise, CollectorPromise
    DEF NewObject, Abs!Next
<1>3. CASE Collect \/ GCStep
  BY <1>3, MarkDonePromise, CollectorPromise DEF GCStep, Abs!Next
<1>4. CASE UNCHANGED vars
  BY <1>4 DEF vars, heapVars, opVars, Live, Roots, Protected, LiveRefs, LiveHash,
              LiveTable, Abs!vars
<1>. QED
  BY <1>1, <1>2, <1>3, <1>4 DEF Next

(* For every heap size the collector implements ManagedHeap: what can be   *)
(* reached keeps its identity and contents, and a whole run of pic_gc is   *)
(* one step that takes exactly the rest.                                   *)
THEOREM KeepsItsPromise == Spec => KeepsPromise
<1>1. Init => HeldInv
  BY DEF Init, HeldInv
<1>2. Spec => []PromiseInv
  BY <1>1, HeldStep, InductiveInvariant, SymbolInvariant, PTL DEF Spec, PromiseInv
<1>3. Spec => Abs!Spec
  BY <1>2, InitPromise, StepPromise, PTL DEF Spec, Abs!Spec
<1>. QED
  BY <1>3 DEF KeepsPromise
=============================================================================
