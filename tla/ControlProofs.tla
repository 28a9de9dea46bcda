--------------------------- MODULE ControlProofs ---------------------------
(***************************************************************************)
(* Proofs about Control, for any set of addresses and any number of calls: *)
(* the C stack, the chain of saved points, the arena and the dynamic       *)
(* environment agree, and so do the handlers and the escape procedures     *)
(* with the functions that made them.                                      *)
(***************************************************************************)
EXTENDS Control, FiniteSetTheorems, SequenceTheorems, TLAPS

-----------------------------------------------------------------------------
(* The inductive invariant.                                                *)

\* The frames below i that extended the dynamic environment.
Extenders(i) == {j \in Positions(FrameKind \ {"callcc"}) : j < i}
Bindings(i)  == Cardinality(Extenders(i))

\* The entry of a dynamic environment at height t, the oldest being at 1.
At(d, t) == d[Len(d) + 1 - t]
Entry(t) == At(dyn, t)

(* Activations are numbered, and arena slots used, from the outermost      *)
(* frame to the innermost.                                                 *)
FramesInOrder ==
  /\ \A i \in DOMAIN frames : frames[i].id <= entered /\ frames[i].base <= Len(arena)
  /\ \A i, j \in DOMAIN frames : i < j =>
       frames[i].id < frames[j].id /\ frames[i].base <= frames[j].base

(* Each frame that has a saved point is where that point leads to and has  *)
(* an arena slot of its own, older than those of the frames further in.    *)
PointsInPlace ==
  /\ LastBelow(Active + 1, cc)
  /\ \A i \in DOMAIN frames \ Saved : frames[i].cont = Null
  /\ \A i \in Saved :
       LET a == frames[i].cont
           b == frames[i].base + 1
       IN  /\ a # Null /\ mem[a] # Null /\ OnChain(a)
           /\ mem[a].jmp = frames[i].id /\ LastBelow(i, mem[a].prev)
           /\ mem[a].arena_idx = b /\ b <= Len(arena) /\ arena[b] = a
           /\ \A j \in DOMAIN frames : j > i => frames[j].base >= b

(* The dynamic environment, and the one each point saved, is what the      *)
(* frames below made of it.                                                *)
DynInPlace ==
  /\ Len(dyn) = Bindings(Active + 1)
  /\ \A i \in Saved :
       LET d == mem[frames[i].cont].dyn
       IN  /\ Len(d) = Bindings(i)
           /\ \A t \in 1 .. Len(d) : At(d, t) = Entry(t)

(* The handlers of an environment were installed below its frame, the      *)
(* innermost first.                                                        *)
InstalledBelow(h, t) ==
  \E j \in Positions({"try", "handler"}) :
    frames[j].id = h.id /\ frames[j].cont = h.cont /\ Bindings(j) < t

InnermostFirst(hs) == \A p, q \in 1 .. Len(hs) : p < q => hs[q].id < hs[p].id

HandlersInPlace ==
  \A t \in 1 .. Len(dyn) : Entry(t).bound =>
    LET hs == Entry(t).handlers
    IN  InnermostFirst(hs) /\ \A p \in 1 .. Len(hs) : InstalledBelow(hs[p], t)

(* While a handler runs, the environments made since have only handlers    *)
(* from outside of it and from inside of the call of raise.                *)
RaisesOutward ==
  \A i \in Positions({"raise", "continue"}) :
    /\ frames[i].runs < frames[i].id
    /\ Bindings(i) + 1 \in 1 .. Len(dyn) /\ Entry(Bindings(i) + 1).bound
    /\ \A t \in 1 .. Len(dyn) : t > Bindings(i) /\ Entry(t).bound =>
         LET hs == Entry(t).handlers
         IN  \A p \in 1 .. Len(hs) :
               hs[p].id < frames[i].runs \/ hs[p].id > frames[i].id

(* An escape procedure whose activation is on the C stack has its point.   *)
EscapesInPlace ==
  \A k \in escapes :
    /\ k.id <= entered
    /\ \A i \in DOMAIN frames : frames[i].id = k.id => frames[i].cont = k.cont

IInv ==
  /\ ControlTypeOK
  /\ FramesInOrder /\ PointsInPlace
  /\ DynInPlace /\ HandlersInPlace /\ RaisesOutward
  /\ EscapesInPlace

-----------------------------------------------------------------------------
(* The operators.                                                          *)

(* A set of numbers that is not empty has a least member.                  *)
LEMMA LeastNatural ==
  ASSUME NEW S \in SUBSET Nat, S # {}
  PROVE  \E n \in S : \A m \in S : n <= m
<1> DEFINE T == {1 .. n : n \in S}
<1>1. T \subseteq FiniteSubsetsOf(Nat)
  BY FS_Interval DEF FiniteSubsetsOf
<1>2. PICK x \in T : \A y \in T : <<y, x>> \notin StrictSubsetOrdering(Nat)
  <2>1. T # {}
    OBVIOUS
  <2>. QED
    BY <1>1, <2>1, WFMin, FS_StrictSubsetOrderingWellFounded
<1>3. PICK n \in S : x = 1 .. n
  OBVIOUS
<1>4. ASSUME NEW m \in S, m < n
      PROVE  FALSE
  <2>1. 1 .. m \subseteq 1 .. n /\ n \in 1 .. n /\ n \notin 1 .. m
    BY <1>4
  <2>2. <<1 .. m, x>> \in StrictSubsetOrdering(Nat)
    BY <1>3, <2>1 DEF StrictSubsetOrdering
  <2>. QED
    BY <1>2, <2>2
<1>. QED
  BY <1>4

(* The handlers in force are those of the innermost environment that binds *)
(* current-exception-handlers: what var_call finds.                        *)
LEMMA HandlersInForce ==
  ASSUME ControlTypeOK
  PROVE  \/ /\ Handlers = <<>>
            /\ \A t \in 1 .. Len(dyn) : ~Entry(t).bound
         \/ \E t \in 1 .. Len(dyn) :
              /\ Entry(t).bound /\ Handlers = Entry(t).handlers
              /\ \A u \in 1 .. Len(dyn) : u > t => ~Entry(u).bound
<1> DEFINE b == {i \in DOMAIN dyn : dyn[i].bound}
<1>1. dyn \in Seq(Environment) /\ Len(dyn) \in Nat /\ DOMAIN dyn = 1 .. Len(dyn)
  BY DEF ControlTypeOK
<1>2. CASE b = {}
  <2>1. Handlers = <<>>
    BY <1>2 DEF Handlers
  <2>2. \A t \in 1 .. Len(dyn) : ~Entry(t).bound
    BY <1>1, <1>2 DEF Entry, At
  <2>. QED
    BY <2>1, <2>2
<1>3. CASE b # {}
  <2> DEFINE m == CHOOSE i \in b : \A j \in b : i <= j
  <2>1. m \in b /\ \A j \in b : m <= j
    <3>1. b \in SUBSET Nat
      BY <1>1
    <3>. QED
      BY <1>3, <3>1, LeastNatural
  <2>2. Handlers = dyn[m].handlers
    BY <1>3 DEF Handlers
  <2>3. m \in 1 .. Len(dyn) /\ dyn[m].bound
    BY <1>1, <2>1
  <2> HIDE DEF m
  <2> DEFINE t == Len(dyn) + 1 - m
  <2>4. t \in 1 .. Len(dyn) /\ Len(dyn) + 1 - t = m
    BY <1>1, <2>3
  <2>5. Entry(t) = dyn[m]
    BY <2>4 DEF Entry, At
  <2>6. ASSUME NEW u \in 1 .. Len(dyn), u > t, Entry(u).bound
        PROVE  FALSE
    <3>1. Len(dyn) + 1 - u \in 1 .. Len(dyn) /\ Len(dyn) + 1 - u < m
      BY <1>1, <2>3, <2>6
    <3>2. Len(dyn) + 1 - u \in b
      BY <1>1, <2>6, <3>1 DEF Entry, At
    <3>. QED
      BY <1>1, <2>1, <2>3, <3>1, <3>2
  <2>. QED
    BY <2>2, <2>3, <2>4, <2>5, <2>6
<1>. QED
  BY <1>2, <1>3

(* The number of frames that extended the dynamic environment, below one   *)
(* frame and below the next.                                               *)
LEMMA BindingsCount ==
  ASSUME ControlTypeOK
  PROVE  /\ \A i \in Nat : Bindings(i) \in Nat /\ IsFiniteSet(Extenders(i))
         /\ \A i, j \in Nat : i <= j => Bindings(i) <= Bindings(j)
         /\ \A i \in Nat : Bindings(i + 1) =
              IF i \in Positions(FrameKind \ {"callcc"}) THEN Bindings(i) + 1 ELSE Bindings(i)
<1>1. Positions(FrameKind \ {"callcc"}) \subseteq Nat
  BY DEF ControlTypeOK, Positions
<1>2. ASSUME NEW i \in Nat
      PROVE  IsFiniteSet(Extenders(i)) /\ Bindings(i) \in Nat
  <2>1. Extenders(i) \in SUBSET (1 .. i)
    BY <1>1 DEF Extenders, ControlTypeOK, Positions
  <2>2. IsFiniteSet(1 .. i)
    BY FS_Interval
  <2>3. IsFiniteSet(Extenders(i))
    BY <2>1, <2>2, FS_Subset
  <2>. QED
    BY <2>3, FS_CardinalityType DEF Bindings
<1>3. ASSUME NEW i \in Nat, NEW j \in Nat, i <= j
      PROVE  Bindings(i) <= Bindings(j)
  <2>1. Extenders(i) \in SUBSET Extenders(j)
    BY <1>1, <1>3 DEF Extenders
  <2>. QED
    BY <1>2, <2>1, FS_Subset DEF Bindings
<1>4. ASSUME NEW i \in Nat
      PROVE  Bindings(i + 1) =
               IF i \in Positions(FrameKind \ {"callcc"}) THEN Bindings(i) + 1 ELSE Bindings(i)
  <2>1. CASE i \in Positions(FrameKind \ {"callcc"})
    <3>1. Extenders(i + 1) = Extenders(i) \cup {i} /\ i \notin Extenders(i)
      BY <1>1, <2>1 DEF Extenders
    <3>. QED
      BY <1>2, <2>1, <3>1, FS_AddElement DEF Bindings
  <2>2. CASE i \notin Positions(FrameKind \ {"callcc"})
    <3>1. Extenders(i + 1) = Extenders(i)
      BY <1>1, <2>2 DEF Extenders
    <3>. QED
      BY <2>2, <3>1 DEF Bindings
  <2>. QED
    BY <2>1, <2>2
<1>. QED
  BY <1>2, <1>3, <1>4

(* What ControlTypeOK says of a frame.                                     *)
LEMMA FrameTypes ==
  ASSUME ControlTypeOK
  PROVE  /\ Len(frames) \in Nat /\ DOMAIN frames = 1 .. Len(frames)
         /\ Saved \subseteq DOMAIN frames
         /\ \A i \in DOMAIN frames :
              /\ frames[i] \in CFrame
              /\ frames[i].kind \in FrameKind /\ frames[i].id \in Activation
              /\ frames[i].base \in Nat /\ frames[i].runs \in Activation \cup {0}
              /\ frames[i].cont \in Addr \cup {Null}
<1>1. frames \in Seq(CFrame)
  BY DEF ControlTypeOK
<1>2. Len(frames) \in Nat /\ DOMAIN frames = 1 .. Len(frames)
  BY <1>1
<1>3. \A i \in DOMAIN frames : frames[i] \in CFrame
  BY <1>1
<1>. QED
  BY <1>2, <1>3 DEF CFrame, Saved, Positions

(* What the loop of cont_call finds is the saved point of a frame that is  *)
(* on the C stack.                                                         *)
LEMMA ChainIsSaved ==
  ASSUME ControlTypeOK, PointsInPlace, NEW a, OnChain(a)
  PROVE  \E i \in Saved : frames[i].cont = a
<1> DEFINE S == {frames[i].cont : i \in Saved}
<1>1. S \in SUBSET Addr
  <2>1. \A i \in Saved : frames[i].cont \in Addr \cup {Null} /\ frames[i].cont # Null
    BY FrameTypes DEF PointsInPlace
  <2>. QED
    BY <2>1
<1>2. cc \in S \cup {Null}
  BY DEF PointsInPlace, LastBelow
<1>3. \A b \in S : mem[b].prev \in S \cup {Null}
  BY DEF PointsInPlace, LastBelow
<1>. QED
  BY <1>1, <1>2, <1>3 DEF OnChain

(* At most one saved point is the last below a frame.                      *)
LEMMA LastBelowUnique ==
  ASSUME ControlTypeOK, NEW i \in Nat, NEW a, NEW b, LastBelow(i, a), LastBelow(i, b)
  PROVE  a = b
<1>1. Saved \subseteq Nat
  BY FrameTypes
<1>. QED
  BY <1>1 DEF LastBelow

(* Two frames with the same saved point are one.                           *)
LEMMA PointsApart ==
  ASSUME ControlTypeOK, FramesInOrder, PointsInPlace,
         NEW i \in Saved, NEW j \in Saved, frames[i].cont = frames[j].cont
  PROVE  i = j
<1>1. frames[i].id = frames[j].id
  BY DEF PointsInPlace
<1>2. /\ i \in Nat /\ j \in Nat /\ i \in DOMAIN frames /\ j \in DOMAIN frames
      /\ frames[i].id \in Nat
  BY FrameTypes, ControlAssumption DEF Activation
<1>3. ~(i < j) /\ ~(j < i)
  BY <1>1, <1>2 DEF FramesInOrder
<1>. QED
  BY <1>2, <1>3

-----------------------------------------------------------------------------
(* Frames i and above are left.                                            *)

\* What every way out does: the C stack and the arena are cut at frame i, and
\* pic->cc and the dynamic environment are those frame i was called with.
Cut(i) ==
  /\ i \in DOMAIN frames
  /\ Unwind(i)
  /\ cc' \in Addr \cup {Null} /\ LastBelow(i, cc')
  /\ dyn' \in Seq(Environment) /\ Len(dyn') = Bindings(i)
  /\ \A t \in 1 .. Bindings(i) : At(dyn', t) = Entry(t)
  /\ pc' \in {"run", "error", "panic"}
  /\ UNCHANGED <<mem, escapes, entered>>

(* The frames that stay are as they were.                                  *)
LEMMA CutFrames ==
  ASSUME ControlTypeOK, FramesInOrder, NEW i, Cut(i)
  PROVE  /\ i \in 1 .. Len(frames) /\ Len(frames') = i - 1
         /\ DOMAIN frames' = 1 .. (i - 1)
         /\ \A j \in 1 .. (i - 1) : frames'[j] = frames[j]
         /\ frames' \in Seq(CFrame)
         /\ arena' \in Seq(Addr) /\ Len(arena') = frames[i].base
         /\ frames[i].base \in Nat
         /\ \A k \in 1 .. frames[i].base : arena'[k] = arena[k]
<1>1. frames \in Seq(CFrame) /\ arena \in Seq(Addr)
  BY DEF ControlTypeOK
<1>2. i \in 1 .. Len(frames) /\ Len(frames) \in Nat
  BY FrameTypes DEF Cut
<1>3. /\ frames' = SubSeq(frames, 1, i - 1)
      /\ arena' = SubSeq(arena, 1, frames[i].base)
  BY DEF Cut, Unwind
<1>4. frames[i].base \in Nat /\ frames[i].base <= Len(arena)
  BY <1>2, FrameTypes DEF FramesInOrder
<1>5. \A j \in 1 .. (i - 1) : frames[j] \in CFrame
  BY <1>1, <1>2
<1>6. \A k \in 1 .. frames[i].base : arena[k] \in Addr
  BY <1>1, <1>4
<1>7. /\ frames' \in Seq(CFrame) /\ Len(frames') = i - 1
      /\ \A j \in 1 .. (i - 1) : frames'[j] = frames[j]
  <2>1. /\ SubSeq(frames, 1, i - 1) \in Seq(CFrame)
        /\ Len(SubSeq(frames, 1, i - 1)) = IF 1 <= i - 1 THEN i - 1 - 1 + 1 ELSE 0
        /\ \A j \in 1 .. i - 1 - 1 + 1 : SubSeq(frames, 1, i - 1)[j] = frames[1 + j - 1]
    BY <1>2, <1>5, SubSeqProperties
  <2>2. i - 1 - 1 + 1 = i - 1 /\ \A j \in 1 .. (i - 1) : 1 + j - 1 = j
    BY <1>2
  <2>3. Len(SubSeq(frames, 1, i - 1)) = i - 1
    BY <1>2, <2>1
  <2>. QED
    BY <1>3, <2>1, <2>2, <2>3
<1>8. /\ arena' \in Seq(Addr) /\ Len(arena') = frames[i].base
      /\ \A k \in 1 .. frames[i].base : arena'[k] = arena[k]
  BY <1>3, <1>4, <1>6, SubSeqProperties
<1>9. DOMAIN frames' = 1 .. (i - 1)
  BY <1>7
<1>. QED
  BY <1>2, <1>4, <1>7, <1>8, <1>9

(* So are the counts and the saved points below them.                      *)
LEMMA CutPositions ==
  ASSUME ControlTypeOK, FramesInOrder, NEW i, Cut(i)
  PROVE  /\ Saved' = {j \in Saved : j < i}
         /\ \A K : Positions(K)' = {j \in Positions(K) : j < i}
         /\ \A j \in 1 .. i : Bindings(j)' = Bindings(j)
         /\ \A j \in 1 .. i : \A a : LastBelow(j, a) =>
              \/ a = Null /\ \A k \in Saved' : k >= j
              \/ \E k \in Saved' : /\ k < j /\ a = frames'[k].cont
                                  /\ \A l \in Saved' : l <= k \/ l >= j
<1>1. /\ i \in 1 .. Len(frames) /\ Len(frames) \in Nat /\ DOMAIN frames = 1 .. Len(frames)
      /\ DOMAIN frames' = 1 .. (i - 1)
      /\ \A j \in 1 .. (i - 1) : frames'[j] = frames[j]
  BY CutFrames, FrameTypes
<1>2. \A K : Positions(K)' = {j \in Positions(K) : j < i}
  BY <1>1 DEF Positions
<1>3. Saved' = {j \in Saved : j < i}
  BY <1>2 DEF Saved
<1>4. \A j \in 1 .. i : Extenders(j)' = Extenders(j)
  <2>1. Positions(FrameKind \ {"callcc"})' = {j \in Positions(FrameKind \ {"callcc"}) : j < i}
    BY <1>2
  <2>2. Positions(FrameKind \ {"callcc"}) \subseteq Nat
    BY <1>1 DEF Positions
  <2>3. ASSUME NEW j \in 1 .. i
        PROVE  Extenders(j)' = Extenders(j)
    <3>1. /\ Extenders(j)' = {k \in Positions(FrameKind \ {"callcc"})' : k < j}
          /\ Extenders(j) = {k \in Positions(FrameKind \ {"callcc"}) : k < j}
      BY DEF Extenders
    <3>2. \A k \in Nat : k < j => k < i
      BY <1>1
    <3>. QED
      BY <2>1, <2>2, <3>1, <3>2
  <2>. QED
    BY <2>3
<1>5. \A j \in 1 .. i : Bindings(j)' = Bindings(j)
  BY <1>4 DEF Bindings
<1>6. ASSUME NEW j \in 1 .. i, NEW a, LastBelow(j, a)
      PROVE  \/ a = Null /\ \A k \in Saved' : k >= j
             \/ \E k \in Saved' : /\ k < j /\ a = frames'[k].cont
                                 /\ \A l \in Saved' : l <= k \/ l >= j
  <2>1. Saved \subseteq 1 .. Len(frames)
    BY FrameTypes
  <2>. QED
    BY <1>1, <1>3, <1>6, <2>1 DEF LastBelow
<1>. QED
  BY <1>2, <1>3, <1>5, <1>6

(* Every variable keeps its type.                                          *)
LEMMA CutKeepsTypes ==
  ASSUME IInv, NEW i, Cut(i)
  PROVE  ControlTypeOK' /\ FramesInOrder'
<1>1. /\ i \in 1 .. Len(frames) /\ DOMAIN frames' = 1 .. (i - 1)
      /\ \A j \in 1 .. (i - 1) : frames'[j] = frames[j]
      /\ frames' \in Seq(CFrame)
      /\ arena' \in Seq(Addr) /\ Len(arena') = frames[i].base
  BY CutFrames DEF IInv
<1>2. Len(frames) \in Nat /\ DOMAIN frames = 1 .. Len(frames)
  BY FrameTypes DEF IInv
<1>3. ControlTypeOK'
  BY <1>1 DEF IInv, ControlTypeOK, Cut
<1>4. \A j \in 1 .. (i - 1) : frames[j].id <= entered /\ frames[j].base <= frames[i].base
  BY <1>1, <1>2 DEF IInv, FramesInOrder
<1>5. entered' = entered
  BY DEF Cut
<1>6. \A j, k \in 1 .. (i - 1) : j < k => frames[j].id < frames[k].id /\ frames[j].base <= frames[k].base
  <2>1. 1 .. (i - 1) \subseteq DOMAIN frames
    BY <1>1, <1>2
  <2>. QED
    BY <2>1 DEF IInv, FramesInOrder
<1>. QED
  BY <1>1, <1>3, <1>4, <1>5, <1>6 DEF FramesInOrder

(* The loop of cont_call still finds the saved points of the frames below  *)
(* i: what was found before and belongs to none of the frames left.        *)
LEMMA CutKeepsChain ==
  ASSUME IInv, NEW i, Cut(i), NEW j \in Saved, j < i
  PROVE  OnChain(frames[j].cont)'
<1>1. /\ i \in 1 .. Len(frames) /\ Len(frames) \in Nat /\ DOMAIN frames = 1 .. Len(frames)
      /\ frames'[j] = frames[j] /\ mem' = mem
      /\ Saved \subseteq 1 .. Len(frames)
  <2>1. /\ i \in 1 .. Len(frames) /\ Len(frames) \in Nat /\ DOMAIN frames = 1 .. Len(frames)
        /\ Saved \subseteq 1 .. Len(frames)
    BY CutFrames, FrameTypes DEF IInv
  <2>2. j \in 1 .. (i - 1)
    BY <2>1
  <2>3. frames'[j] = frames[j]
    BY <2>2, CutFrames DEF IInv
  <2>. QED
    BY <2>1, <2>3 DEF Cut
<1>2. LastBelow(i, cc')
  BY DEF Cut
<1>3. SUFFICES ASSUME NEW S \in SUBSET Addr, cc' \in S \cup {Null},
                      \A b \in S : mem[b] # Null => mem[b].prev \in S \cup {Null}
               PROVE  frames[j].cont \in S
  BY <1>1 DEF OnChain, IInv, PointsInPlace
<1> DEFINE T == S \cup {frames[k].cont : k \in {l \in Saved : l >= i}}
<1>4. T \in SUBSET Addr
  BY FrameTypes DEF IInv, PointsInPlace
<1>5. ASSUME NEW k \in Nat, k >= i, NEW a, LastBelow(k, a)
      PROVE  a \in T \cup {Null}
  <2>1. CASE \E l \in Saved : l >= i /\ a = frames[l].cont
    BY <2>1
  <2>2. CASE ~\E l \in Saved : l >= i /\ a = frames[l].cont
    <3>1. LastBelow(i, a)
      BY <1>1, <1>5, <2>2 DEF LastBelow
    <3>2. a = cc'
      BY <1>1, <1>2, <3>1, LastBelowUnique DEF IInv
    <3>. QED
      BY <1>3, <3>2
  <2>. QED
    BY <2>1, <2>2
<1>6. cc \in T \cup {Null}
  <2>1. LastBelow(Len(frames) + 1, cc)
    BY DEF IInv, PointsInPlace, Active
  <2>2. Len(frames) + 1 \in Nat /\ Len(frames) + 1 >= i
    BY <1>1
  <2>. QED
    BY <1>5, <2>1, <2>2
<1>7. ASSUME NEW b \in T, mem[b] # Null
      PROVE  mem[b].prev \in T \cup {Null}
  <2>1. CASE b \in S
    BY <1>3, <1>7, <2>1
  <2>2. CASE b \notin S
    <3>1. PICK k \in Saved : k >= i /\ b = frames[k].cont
      BY <2>2
    <3>2. LastBelow(k, mem[b].prev)
      BY <3>1 DEF IInv, PointsInPlace
    <3>. QED
      BY <1>1, <1>5, <3>1, <3>2
  <2>. QED
    BY <2>1, <2>2
<1>8. frames[j].cont \in T
  <2>1. OnChain(frames[j].cont)
    BY DEF IInv, PointsInPlace
  <2>. QED
    BY <1>4, <1>6, <1>7, <2>1 DEF OnChain
<1>9. \A k \in Saved : k >= i => frames[k].cont # frames[j].cont
  BY <1>1, PointsApart DEF IInv
<1>. QED
  BY <1>8, <1>9

(* The saved points of the frames that stay are in place.                  *)
LEMMA CutKeepsPoints ==
  ASSUME IInv, NEW i, Cut(i)
  PROVE  PointsInPlace'
<1>1. /\ i \in 1 .. Len(frames) /\ Len(frames') = i - 1
      /\ DOMAIN frames' = 1 .. (i - 1)
      /\ \A j \in 1 .. (i - 1) : frames'[j] = frames[j]
      /\ frames[i].base \in Nat /\ Len(arena') = frames[i].base
      /\ \A k \in 1 .. frames[i].base : arena'[k] = arena[k]
      /\ Len(frames) \in Nat /\ DOMAIN frames = 1 .. Len(frames)
      /\ Saved \subseteq 1 .. Len(frames)
  BY CutFrames, FrameTypes DEF IInv
<1>2. /\ Saved' = {j \in Saved : j < i}
      /\ \A j \in 1 .. i : \A a : LastBelow(j, a) =>
              \/ a = Null /\ \A k \in Saved' : k >= j
              \/ \E k \in Saved' : /\ k < j /\ a = frames'[k].cont
                                  /\ \A l \in Saved' : l <= k \/ l >= j
  BY CutPositions DEF IInv
<1>3. LastBelow(Active + 1, cc)'
  <2>1. LastBelow(i, cc')
    BY DEF Cut
  <2>2. Len(frames') + 1 = i
    BY <1>1
  <2>. QED
    BY <1>1, <1>2, <2>1, <2>2 DEF Active, LastBelow
<1>4. \A j \in DOMAIN frames' \ Saved' : frames'[j].cont = Null
  BY <1>1, <1>2 DEF IInv, PointsInPlace
<1>5. ASSUME NEW j \in Saved, j < i
      PROVE  LET a == frames[j].cont
                 b == frames[j].base + 1
             IN  /\ a # Null /\ mem[a] # Null /\ OnChain(a)'
                 /\ mem[a].jmp = frames[j].id /\ LastBelow(j, mem[a].prev)'
                 /\ mem[a].arena_idx = b /\ b <= frames[i].base /\ arena'[b] = a
                 /\ \A k \in 1 .. (i - 1) : k > j => frames[k].base >= b
  <2> DEFINE a == frames[j].cont
             b == frames[j].base + 1
  <2>1. /\ a # Null /\ mem[a] # Null /\ mem[a].jmp = frames[j].id /\ LastBelow(j, mem[a].prev)
        /\ mem[a].arena_idx = b /\ arena[b] = a
        /\ \A k \in DOMAIN frames : k > j => frames[k].base >= b
    BY DEF IInv, PointsInPlace
  <2>2. OnChain(a)'
    BY <1>1, <1>5, CutKeepsChain
  <2>3. b <= frames[i].base /\ b \in 1 .. frames[i].base
    BY <1>1, <1>5, <2>1, FrameTypes DEF IInv
  <2>4. LastBelow(j, mem[a].prev)'
    <3>1. mem' = mem /\ frames'[j] = frames[j]
      BY <1>1, <1>5 DEF Cut
    <3>. QED
      BY <1>1, <1>2, <1>5, <2>1, <3>1 DEF LastBelow
  <2>5. arena'[b] = a
    BY <1>1, <2>1, <2>3
  <2>6. \A k \in 1 .. (i - 1) : k > j => frames[k].base >= b
    <3>1. \A k \in 1 .. (i - 1) : k \in DOMAIN frames
      BY <1>1
    <3>. QED
      BY <2>1, <3>1
  <2>7. b <= frames[i].base
    BY <2>3
  <2>. HIDE DEF a, b
  <2>. QED
    BY <2>1, <2>2, <2>4, <2>5, <2>6, <2>7 DEF a, b
<1>. QED
  BY <1>1, <1>2, <1>3, <1>4, <1>5 DEF PointsInPlace, Cut

(* What the next four lemmas use of Cut.                                   *)
LEMMA CutDyn ==
  ASSUME IInv, NEW i, Cut(i)
  PROVE  /\ i \in 1 .. Len(frames) /\ Len(frames') = i - 1
         /\ Len(dyn') = Bindings(i) /\ Bindings(i) \in Nat /\ Bindings(i) <= Len(dyn)
         /\ Len(dyn) \in Nat
         /\ \A t \in 1 .. Bindings(i) : Entry(t)' = Entry(t)
         /\ \A j \in 1 .. i : Bindings(j)' = Bindings(j)
         /\ \A j \in 1 .. Len(frames) : Bindings(j) \in Nat
         /\ \A j, k \in 1 .. Len(frames) : j <= k => Bindings(j) <= Bindings(k)
<1>1. /\ i \in 1 .. Len(frames) /\ Len(frames') = i - 1 /\ Len(frames) \in Nat
  BY CutFrames, FrameTypes DEF IInv
<1>2. 1 .. Len(frames) \subseteq Nat /\ Len(frames) + 1 \in Nat /\ i <= Len(frames) + 1
  BY <1>1
<1>3. \A j \in 1 .. Len(frames) : Bindings(j) \in Nat
  BY <1>2, BindingsCount DEF IInv
<1>4. \A j, k \in 1 .. Len(frames) : j <= k => Bindings(j) <= Bindings(k)
  BY <1>2, BindingsCount DEF IInv
<1>5. Bindings(i) <= Len(dyn)
  <2>1. Len(dyn) = Bindings(Len(frames) + 1)
    BY DEF IInv, DynInPlace, Active
  <2>. QED
    BY <1>1, <1>2, <2>1, BindingsCount DEF IInv
<1>6. Len(dyn) \in Nat
  BY DEF IInv, ControlTypeOK
<1>7. Len(dyn') = Bindings(i) /\ \A t \in 1 .. Bindings(i) : Entry(t)' = Entry(t)
  BY DEF Cut, Entry, At
<1>8. \A j \in 1 .. i : Bindings(j)' = Bindings(j)
  BY CutPositions DEF IInv
<1>. QED
  BY <1>1, <1>3, <1>4, <1>5, <1>6, <1>7, <1>8

(* So are the environments, the one in force and those saved.              *)
LEMMA CutKeepsDyn ==
  ASSUME IInv, NEW i, Cut(i)
  PROVE  DynInPlace'
<1>1. Len(dyn') = Bindings(Active + 1)'
  <2>1. Bindings(i)' = Bindings(i) /\ Len(frames') + 1 = i /\ Len(dyn') = Bindings(i)
    BY CutDyn
  <2>. QED
    BY <2>1 DEF Active, Bindings, Extenders
<1>2. ASSUME NEW j \in Saved, j < i
      PROVE  LET d == mem[frames[j].cont].dyn
             IN  /\ Len(d) = Bindings(j)' /\ frames'[j] = frames[j]
                 /\ \A t \in 1 .. Len(d) : At(d, t) = Entry(t)'
  <2> DEFINE d == mem[frames[j].cont].dyn
  <2>1. Len(d) = Bindings(j) /\ \A t \in 1 .. Len(d) : At(d, t) = Entry(t)
    BY DEF IInv, DynInPlace
  <2>2. j \in 1 .. Len(frames) /\ j \in 1 .. (i - 1) /\ j \in 1 .. i /\ j <= i
    BY <1>2, CutDyn, FrameTypes DEF IInv
  <2>3. Bindings(j) <= Bindings(i) /\ Bindings(j)' = Bindings(j) /\ Bindings(j) \in Nat
    BY <2>2, CutDyn
  <2>4. \A t \in 1 .. Len(d) : t \in 1 .. Bindings(i)
    BY <2>1, <2>3, CutDyn
  <2>5. \A t \in 1 .. Len(d) : At(d, t) = Entry(t)'
    BY <2>1, <2>4, CutDyn
  <2>6. frames'[j] = frames[j]
    BY <2>2, CutFrames DEF IInv
  <2>. QED
    BY <2>1, <2>3, <2>5, <2>6
<1>3. Saved' = {j \in Saved : j < i} /\ mem' = mem
  BY CutPositions DEF IInv, Cut
<1>. QED
  BY <1>1, <1>2, <1>3 DEF DynInPlace, At

(* The handlers that stay were installed by frames that stay.              *)
LEMMA CutKeepsHandlers ==
  ASSUME IInv, NEW i, Cut(i)
  PROVE  HandlersInPlace'
<1>1. ASSUME NEW t \in 1 .. Bindings(i), NEW h, InstalledBelow(h, t)
      PROVE  InstalledBelow(h, t)'
  <2>1. PICK j \in Positions({"try", "handler"}) :
          frames[j].id = h.id /\ frames[j].cont = h.cont /\ Bindings(j) < t
    BY <1>1 DEF InstalledBelow
  <2>2. j \in 1 .. Len(frames)
    BY FrameTypes DEF IInv, Positions
  <2>3. ~(i <= j)
    BY <2>1, <2>2, CutDyn
  <2>4. j \in 1 .. (i - 1) /\ j < i /\ j \in 1 .. i
    BY <2>2, <2>3, CutDyn
  <2>5. j \in Positions({"try", "handler"})'
    BY <2>4, CutPositions DEF IInv
  <2>6. frames'[j] = frames[j] /\ Bindings(j)' = Bindings(j)
    BY <2>4, CutFrames, CutDyn DEF IInv
  <2>. QED
    BY <2>1, <2>5, <2>6 DEF InstalledBelow
<1>2. ASSUME NEW t \in 1 .. Len(dyn'), Entry(t)'.bound
      PROVE  (LET hs == Entry(t).handlers
              IN  InnermostFirst(hs) /\ \A p \in 1 .. Len(hs) : InstalledBelow(hs[p], t))'
  <2>1. t \in 1 .. Bindings(i) /\ t \in 1 .. Len(dyn) /\ Entry(t)' = Entry(t)
    BY CutDyn
  <2> DEFINE hs == Entry(t).handlers
  <2>2. InnermostFirst(hs) /\ \A p \in 1 .. Len(hs) : InstalledBelow(hs[p], t)
    BY <1>2, <2>1 DEF IInv, HandlersInPlace
  <2>3. \A h : InstalledBelow(h, t) => InstalledBelow(h, t)'
    BY <1>1, <2>1
  <2>4. \A p \in 1 .. Len(hs') : InstalledBelow(hs[p], t)'
    BY <2>1, <2>2, <2>3 DEF InstalledBelow
  <2>. QED
    BY <2>1, <2>2, <2>4 DEF InnermostFirst
<1>. QED
  BY <1>2 DEF HandlersInPlace

(* The calls of raise that stay have the same environments above them.     *)
LEMMA CutKeepsRaises ==
  ASSUME IInv, NEW i, Cut(i)
  PROVE  RaisesOutward'
<1>1. SUFFICES ASSUME NEW j \in Positions({"raise", "continue"}), j < i
               PROVE  /\ frames'[j].runs < frames'[j].id
                      /\ Bindings(j)' + 1 \in 1 .. Len(dyn') /\ Entry(Bindings(j) + 1)'.bound
                      /\ \A t \in 1 .. Len(dyn') : t > Bindings(j)' /\ Entry(t)'.bound =>
                           LET hs == Entry(t)'.handlers
                           IN  \A p \in 1 .. Len(hs) :
                                 hs[p].id < frames'[j].runs \/ hs[p].id > frames'[j].id
  <2>1. Positions({"raise", "continue"})' = {j \in Positions({"raise", "continue"}) : j < i}
    BY CutPositions DEF IInv
  <2>. QED
    BY <2>1 DEF RaisesOutward
<1>2. j \in 1 .. Len(frames) /\ j \in 1 .. (i - 1) /\ j \in 1 .. i /\ j + 1 <= i /\ j \in Nat
  BY <1>1, FrameTypes, CutDyn DEF IInv, Positions
<1>3. /\ frames[j].runs < frames[j].id
      /\ Entry(Bindings(j) + 1).bound
      /\ \A t \in 1 .. Len(dyn) : t > Bindings(j) /\ Entry(t).bound =>
           LET hs == Entry(t).handlers
           IN  \A p \in 1 .. Len(hs) : hs[p].id < frames[j].runs \/ hs[p].id > frames[j].id
  BY <1>1 DEF IInv, RaisesOutward
<1>4. frames'[j] = frames[j] /\ Bindings(j)' = Bindings(j) /\ Bindings(j) \in Nat
  BY <1>2, CutFrames, CutDyn DEF IInv
<1>5. Bindings(j) + 1 \in 1 .. Bindings(i)
  <2>1. j \in Positions(FrameKind \ {"callcc"})
    BY <1>1 DEF Positions, FrameKind
  <2>2. Bindings(j + 1) = Bindings(j) + 1
    BY <1>2, <2>1, BindingsCount DEF IInv
  <2>3. Bindings(j + 1) <= Bindings(i)
    BY SMTT(30), <1>2, CutDyn, BindingsCount DEF IInv
  <2>. QED
    BY <1>4, <2>2, <2>3, CutDyn
<1>6. Entry(Bindings(j) + 1)' = Entry(Bindings(j) + 1)
  BY SMTT(30), <1>4, <1>5, CutDyn DEF Entry, At
<1>7. \A t \in 1 .. Len(dyn') : t \in 1 .. Len(dyn) /\ Entry(t)' = Entry(t)
  BY CutDyn
<1>. QED
  BY <1>3, <1>4, <1>5, <1>6, <1>7, CutDyn

(* No frame is new, so no escape procedure gets another frame.             *)
LEMMA CutKeepsEscapes ==
  ASSUME IInv, NEW i, Cut(i)
  PROVE  EscapesInPlace'
<1>1. /\ \A j \in 1 .. (i - 1) : frames'[j] = frames[j]
      /\ DOMAIN frames' = 1 .. (i - 1) /\ i \in 1 .. Len(frames)
  BY CutFrames DEF IInv
<1>2. 1 .. (i - 1) \subseteq DOMAIN frames
  BY <1>1, FrameTypes DEF IInv
<1>. QED
  BY <1>1, <1>2 DEF IInv, EscapesInPlace, Cut

(* Every way out of a function keeps the invariant.                        *)
LEMMA CutKeepsIInv ==
  ASSUME IInv, NEW i, Cut(i)
  PROVE  IInv'
BY CutKeepsTypes, CutKeepsPoints, CutKeepsDyn, CutKeepsHandlers, CutKeepsRaises,
   CutKeepsEscapes DEF IInv

-----------------------------------------------------------------------------
(* A function is entered.                                                  *)

\* What every way in does, for a frame of kind k with saved point a that is
\* running the handler of h, and extends the dynamic environment by e.
Grow(k, a, h, e) ==
  /\ k \in FrameKind /\ h \in Activation \cup {0}
  /\ Push(k, a, h)
  /\ \/ k \in {"callcc", "try"} /\ a \in Addr /\ SavePoint(a)
     \/ k \notin {"callcc", "try"} /\ a = Null /\ UNCHANGED <<mem, cc, arena>>
  /\ \/ k = "callcc" /\ UNCHANGED dyn
     \/ k # "callcc" /\ e \in Environment /\ dyn' = <<e>> \o dyn
  /\ escapes' \subseteq escapes \cup {[id |-> entered + 1, cont |-> a]}
  /\ pc' \in {"run", "error", "panic"}

(* The frames there were stay as they were.                                *)
LEMMA GrowFrames ==
  ASSUME ControlTypeOK, NEW k, NEW a, NEW h, NEW e, Grow(k, a, h, e)
  PROVE  LET n == Len(frames)
         IN  /\ n \in Nat /\ Len(frames') = n + 1 /\ DOMAIN frames' = 1 .. (n + 1)
             /\ DOMAIN frames = 1 .. n
             /\ \A j \in 1 .. n : frames'[j] = frames[j]
             /\ frames'[n + 1].kind = k /\ frames'[n + 1].id = entered + 1
             /\ frames'[n + 1].base = Len(arena) /\ frames'[n + 1].runs = h
             /\ frames'[n + 1].cont = a
             /\ frames' \in Seq(CFrame)
             /\ entered \in Nat /\ entered' = entered + 1 /\ entered + 1 \in Activation
<1> DEFINE n == Len(frames)
           f == [kind |-> k, id |-> entered + 1, base |-> Len(arena), runs |-> h, cont |-> a]
<1>1. frames \in Seq(CFrame) /\ n \in Nat /\ DOMAIN frames = 1 .. n
  BY FrameTypes DEF ControlTypeOK
<1>2. entered \in Nat /\ entered' = entered + 1 /\ entered + 1 \in Activation
  BY ControlAssumption DEF ControlTypeOK, Grow, Push, Activation
<1>3. f \in CFrame
  <2>1. Len(arena) \in Nat
    BY DEF ControlTypeOK
  <2>2. a \in Addr \cup {Null} /\ k \in FrameKind /\ h \in Activation \cup {0}
    BY DEF Grow
  <2>. QED
    BY <1>2, <2>1, <2>2 DEF CFrame
<1>4. frames' = Append(frames, f)
  BY DEF Grow, Push
<1> HIDE DEF f
<1>5. /\ frames' \in Seq(CFrame) /\ Len(frames') = n + 1
      /\ \A j \in 1 .. n : frames'[j] = frames[j]
      /\ frames'[n + 1] = f
  BY <1>1, <1>3, <1>4, AppendProperties
<1>6. DOMAIN frames' = 1 .. (n + 1)
  BY <1>5
<1>. QED
  BY <1>1, <1>2, <1>5, <1>6 DEF f

(* So are the counts and the saved points below them.                      *)
LEMMA GrowPositions ==
  ASSUME ControlTypeOK, NEW k, NEW a, NEW h, NEW e, Grow(k, a, h, e)
  PROVE  LET n == Len(frames)
         IN  /\ \A K : Positions(K)' = Positions(K) \cup (IF k \in K THEN {n + 1} ELSE {})
             /\ Saved' = Saved \cup (IF k \in {"callcc", "try"} THEN {n + 1} ELSE {})
             /\ \A j \in 1 .. (n + 1) : Bindings(j)' = Bindings(j)
             /\ \A j \in 1 .. (n + 1) : \A b : LastBelow(j, b) =>
                  \/ b = Null /\ \A l \in Saved' : l >= j
                  \/ \E l \in Saved' : /\ l < j /\ b = frames'[l].cont
                                      /\ \A m \in Saved' : m <= l \/ m >= j
<1> DEFINE n == Len(frames)
<1>1. /\ n \in Nat /\ DOMAIN frames' = 1 .. (n + 1) /\ DOMAIN frames = 1 .. n
      /\ \A j \in 1 .. n : frames'[j] = frames[j]
      /\ frames'[n + 1].kind = k
  BY GrowFrames
<1>2. ASSUME NEW K
      PROVE  Positions(K)' = Positions(K) \cup (IF k \in K THEN {n + 1} ELSE {})
  <2>1. Positions(K) = {i \in 1 .. n : frames[i].kind \in K}
    BY <1>1 DEF Positions
  <2>2. Positions(K)' = {i \in 1 .. (n + 1) : frames'[i].kind \in K}
    BY <1>1 DEF Positions
  <2>3. 1 .. (n + 1) = (1 .. n) \cup {n + 1}
    BY <1>1
  <2>. QED
    BY <1>1, <2>1, <2>2, <2>3
<1>3. Saved' = Saved \cup (IF k \in {"callcc", "try"} THEN {n + 1} ELSE {})
  BY <1>2 DEF Saved
<1>4. ASSUME NEW j \in 1 .. (n + 1)
      PROVE  Bindings(j)' = Bindings(j)
  <2> DEFINE P == Positions(FrameKind \ {"callcc"})
  <2>1. /\ Extenders(j)' = {i \in P' : i < j}
        /\ Extenders(j) = {i \in P : i < j}
    BY DEF Extenders
  <2>2. P' = P \/ P' = P \cup {n + 1}
    BY <1>2
  <2>3. ~(n + 1 < j)
    BY <1>1
  <2>4. Extenders(j)' = Extenders(j)
    BY <2>1, <2>2, <2>3
  <2>. QED
    BY <2>4 DEF Bindings
<1>5. ASSUME NEW j \in 1 .. (n + 1), NEW b, LastBelow(j, b)
      PROVE  \/ b = Null /\ \A l \in Saved' : l >= j
             \/ \E l \in Saved' : /\ l < j /\ b = frames'[l].cont
                                 /\ \A m \in Saved' : m <= l \/ m >= j
  <2>1. Saved \subseteq 1 .. n
    BY FrameTypes
  <2>2. n + 1 >= j
    BY <1>1
  <2>. QED
    BY <1>1, <1>3, <1>5, <2>1, <2>2 DEF LastBelow
<1>. QED
  BY <1>2, <1>3, <1>4, <1>5

(* The saved points there were stay as they were, with their arena slots.  *)
LEMMA GrowMemory ==
  ASSUME ControlTypeOK, NEW k, NEW a, NEW h, NEW e, Grow(k, a, h, e)
  PROVE  /\ \A b \in Addr : mem[b] # Null => mem'[b] = mem[b]
         /\ arena' \in Seq(Addr) /\ Len(arena) \in Nat /\ Len(arena) <= Len(arena')
         /\ \A i \in 1 .. Len(arena) : arena'[i] = arena[i]
         /\ k \in {"callcc", "try"} =>
              /\ a \in Addr /\ cc' = a /\ mem[a] = Null
              /\ mem'[a] = [jmp |-> entered + 1, prev |-> cc, dyn |-> dyn,
                            arena_idx |-> Len(arena) + 1]
              /\ Len(arena') = Len(arena) + 1 /\ arena'[Len(arena) + 1] = a
<1>1. /\ arena \in Seq(Addr) /\ Len(arena) \in Nat
      /\ mem \in [Addr -> SavedPoint \cup {Null}]
  BY DEF ControlTypeOK
<1>2. CASE k \in {"callcc", "try"}
  <2>1. a \in Addr /\ SavePoint(a)
    BY <1>2 DEF Grow
  <2>2. arena' = Append(arena, a) /\ cc' = a /\ mem[a] = Null
    BY <2>1 DEF SavePoint
  <2>3. /\ arena' \in Seq(Addr) /\ Len(arena') = Len(arena) + 1
        /\ \A i \in 1 .. Len(arena) : arena'[i] = arena[i]
        /\ arena'[Len(arena) + 1] = a
    BY <1>1, <2>1, <2>2, AppendProperties
  <2>4. mem'[a] = [jmp |-> entered + 1, prev |-> cc, dyn |-> dyn, arena_idx |-> Len(arena) + 1]
    BY <1>1, <2>1 DEF SavePoint
  <2>5. \A b \in Addr : mem[b] # Null => mem'[b] = mem[b]
    BY <1>1, <2>1 DEF SavePoint
  <2>. QED
    BY <1>1, <1>2, <2>1, <2>2, <2>3, <2>4, <2>5
<1>3. CASE k \notin {"callcc", "try"}
  BY <1>1, <1>3 DEF Grow
<1>. QED
  BY <1>2, <1>3

(* Every variable keeps its type.                                          *)
LEMMA GrowKeepsTypes ==
  ASSUME IInv, NEW k, NEW a, NEW h, NEW e, Grow(k, a, h, e)
  PROVE  ControlTypeOK' /\ FramesInOrder'
<1> DEFINE n == Len(frames)
<1>1. /\ n \in Nat /\ Len(frames') = n + 1 /\ DOMAIN frames' = 1 .. (n + 1)
      /\ DOMAIN frames = 1 .. n
      /\ \A j \in 1 .. n : frames'[j] = frames[j]
      /\ frames'[n + 1].id = entered + 1 /\ frames'[n + 1].base = Len(arena)
      /\ frames' \in Seq(CFrame)
      /\ entered \in Nat /\ entered' = entered + 1 /\ entered + 1 \in Activation
  BY GrowFrames DEF IInv
<1>2. /\ arena' \in Seq(Addr) /\ Len(arena) \in Nat /\ Len(arena) <= Len(arena')
      /\ Len(arena') \in Nat
  <2>1. arena' \in Seq(Addr)
    BY GrowMemory DEF IInv
  <2>. QED
    BY <2>1, GrowMemory DEF IInv
<1>3. mem' \in [Addr -> SavedPoint \cup {Null}] /\ cc' \in Addr \cup {Null}
  <2>1. mem \in [Addr -> SavedPoint \cup {Null}] /\ cc \in Addr \cup {Null} /\ dyn \in Seq(Environment)
    BY DEF IInv, ControlTypeOK
  <2>2. CASE k \in {"callcc", "try"}
    <3> DEFINE p == [jmp |-> entered + 1, prev |-> cc, dyn |-> dyn, arena_idx |-> Len(arena) + 1]
    <3>1. p \in SavedPoint
      BY <1>1, <1>2, <2>1 DEF SavedPoint
    <3>2. a \in Addr /\ mem' = [mem EXCEPT ![a] = p] /\ cc' = a
      BY <2>2 DEF Grow, SavePoint
    <3> HIDE DEF p
    <3>. QED
      BY <2>1, <3>1, <3>2
  <2>3. CASE k \notin {"callcc", "try"}
    BY <2>1, <2>3 DEF Grow
  <2>. QED
    BY <2>2, <2>3
<1>4. dyn' \in Seq(Environment)
  <2>1. dyn \in Seq(Environment)
    BY DEF IInv, ControlTypeOK
  <2>2. CASE k = "callcc"
    BY <2>1, <2>2 DEF Grow
  <2>3. CASE k # "callcc"
    <3>1. e \in Environment /\ dyn' = <<e>> \o dyn
      BY <2>3 DEF Grow
    <3>2. <<e>> \in Seq(Environment)
      BY <3>1
    <3>. QED
      BY <2>1, <3>1, <3>2, ConcatProperties
  <2>. QED
    BY <2>2, <2>3
<1>5. escapes' \subseteq Procedure
  <2>1. a \in Addr \cup {Null}
    BY DEF Grow
  <2>2. [id |-> entered + 1, cont |-> a] \in Procedure
    BY <1>1, <2>1 DEF Procedure
  <2>. QED
    BY <2>2 DEF Grow, IInv, ControlTypeOK
<1>6. entered' \in 0 .. MaxEntered /\ pc' \in {"run", "error", "panic"}
  BY <1>1, ControlAssumption DEF Grow, Activation
<1>7. FramesInOrder'
  <2>1. ASSUME NEW i \in 1 .. n
        PROVE  /\ frames[i].id <= entered /\ frames[i].base <= Len(arena)
               /\ frames[i].id \in Nat /\ frames[i].base \in Nat
    BY <1>1, FrameTypes, ControlAssumption DEF IInv, FramesInOrder, Activation
  <2>2. ASSUME NEW i \in 1 .. (n + 1)
        PROVE  frames'[i].id <= entered' /\ frames'[i].base <= Len(arena')
    <3>1. CASE i \in 1 .. n
      BY <1>1, <1>2, <2>1, <3>1
    <3>2. CASE i = n + 1
      BY <1>1, <1>2, <3>2
    <3>. QED
      BY <1>1, <3>1, <3>2
  <2>3. ASSUME NEW i \in 1 .. (n + 1), NEW j \in 1 .. (n + 1), i < j
        PROVE  frames'[i].id < frames'[j].id /\ frames'[i].base <= frames'[j].base
    <3>1. i \in 1 .. n
      BY <1>1, <2>3
    <3>2. CASE j \in 1 .. n
      BY <1>1, <2>3, <3>1, <3>2 DEF IInv, FramesInOrder
    <3>3. CASE j = n + 1
      BY <1>1, <1>2, <2>1, <3>1, <3>3
    <3>. QED
      BY <1>1, <3>2, <3>3
  <2>. QED
    BY <1>1, <2>2, <2>3 DEF FramesInOrder
<1>. QED
  BY <1>1, <1>2, <1>3, <1>4, <1>5, <1>6, <1>7 DEF ControlTypeOK

(* The loop of cont_call still finds the saved points of the frames there  *)
(* were, through the new one if there is one.                              *)
LEMMA GrowKeepsChain ==
  ASSUME IInv, NEW k, NEW a, NEW h, NEW e, Grow(k, a, h, e), NEW b \in Addr, OnChain(b)
  PROVE  OnChain(b)'
<1>1. \A x \in Addr : mem[x] # Null => mem'[x] = mem[x]
  BY GrowMemory DEF IInv
<1>2. SUFFICES ASSUME NEW S \in SUBSET Addr, cc' \in S \cup {Null},
                      \A x \in S : mem'[x] # Null => mem'[x].prev \in S \cup {Null}
               PROVE  b \in S
  BY DEF OnChain
<1>3. cc \in S \cup {Null}
  <2>1. CASE k \in {"callcc", "try"}
    <3>1. /\ a \in Addr /\ cc' = a
          /\ mem'[a] = [jmp |-> entered + 1, prev |-> cc, dyn |-> dyn,
                        arena_idx |-> Len(arena) + 1]
      BY <2>1, GrowMemory DEF IInv
    <3>2. a \in S /\ mem'[a].prev = cc
      BY <1>2, <3>1, ControlAssumption
    <3>3. mem'[a] # Null
      <4>1. mem'[a] \in SavedPoint
        <5>1. /\ Len(arena) + 1 \in Nat /\ cc \in Addr \cup {Null}
              /\ dyn \in Seq(Environment)
          BY GrowMemory DEF IInv, ControlTypeOK
        <5>2. entered + 1 \in Activation
          BY GrowFrames DEF IInv
        <5>. QED
          BY <3>1, <5>1, <5>2 DEF SavedPoint
      <4>. QED
        BY <4>1, ControlAssumption
    <3>. QED
      BY <1>2, <3>2, <3>3
  <2>2. CASE k \notin {"callcc", "try"}
    BY <1>2, <2>2 DEF Grow
  <2>. QED
    BY <2>1, <2>2
<1>4. \A x \in S : mem[x] # Null => mem[x].prev \in S \cup {Null}
  BY <1>1, <1>2
<1>. QED
  BY <1>3, <1>4 DEF OnChain

(* The saved points are in place, that of the new frame among them.        *)
LEMMA GrowKeepsPoints ==
  ASSUME IInv, NEW k, NEW a, NEW h, NEW e, Grow(k, a, h, e)
  PROVE  PointsInPlace'
<1> DEFINE n == Len(frames)
           new == k \in {"callcc", "try"}
<1>1. /\ n \in Nat /\ Len(frames') = n + 1 /\ DOMAIN frames' = 1 .. (n + 1)
      /\ DOMAIN frames = 1 .. n
      /\ \A j \in 1 .. n : frames'[j] = frames[j]
      /\ frames'[n + 1].id = entered + 1 /\ frames'[n + 1].base = Len(arena)
      /\ frames'[n + 1].cont = a
      /\ Saved \subseteq 1 .. n
  BY GrowFrames, FrameTypes DEF IInv
<1>2. /\ Saved' = Saved \cup (IF new THEN {n + 1} ELSE {})
      /\ \A j \in 1 .. (n + 1) : \A b : LastBelow(j, b) =>
           \/ b = Null /\ \A l \in Saved' : l >= j
           \/ \E l \in Saved' : /\ l < j /\ b = frames'[l].cont
                               /\ \A m \in Saved' : m <= l \/ m >= j
  BY GrowPositions DEF IInv
<1>3. /\ \A b \in Addr : mem[b] # Null => mem'[b] = mem[b]
      /\ Len(arena) \in Nat /\ Len(arena) <= Len(arena')
      /\ \A i \in 1 .. Len(arena) : arena'[i] = arena[i]
      /\ new =>
           /\ a \in Addr /\ cc' = a
           /\ mem'[a] = [jmp |-> entered + 1, prev |-> cc, dyn |-> dyn,
                         arena_idx |-> Len(arena) + 1]
           /\ Len(arena') = Len(arena) + 1 /\ arena'[Len(arena) + 1] = a
  BY GrowMemory DEF IInv
<1>4. LastBelow(n + 1, cc)
  BY DEF IInv, PointsInPlace, Active
<1>5. LastBelow(Active + 1, cc)'
  <2>1. CASE new
    <3>1. n + 1 \in Saved' /\ n + 1 < Len(frames') + 1 /\ cc' = frames'[n + 1].cont
      BY <1>1, <1>2, <1>3, <2>1
    <3>2. \A l \in Saved' : l <= n + 1
      <4>1. Saved' = Saved \cup {n + 1}
        BY <1>2, <2>1
      <4>2. \A l \in Saved : l \in 1 .. n
        BY <1>1
      <4>. QED
        BY <1>1, <4>1, <4>2
    <3>. QED
      BY <3>1, <3>2 DEF LastBelow, Active
  <2>2. CASE ~new
    <3>1. cc' = cc /\ Saved' = Saved
      BY <1>2, <2>2 DEF Grow
    <3>2. \A l \in Saved : frames'[l] = frames[l] /\ l < n + 1 /\ l < n + 2 /\ ~(l >= n + 1)
                          /\ ~(l >= n + 2)
      BY <1>1
    <3>3. Len(frames') + 1 = n + 2
      BY <1>1
    <3>. QED
      BY <1>4, <3>1, <3>2, <3>3 DEF LastBelow, Active
  <2>. QED
    BY <2>1, <2>2
<1>6. ASSUME NEW j \in DOMAIN frames' \ Saved'
      PROVE  frames'[j].cont = Null
  <2>1. CASE j \in 1 .. n
    BY <1>1, <1>2, <2>1 DEF IInv, PointsInPlace
  <2>2. CASE j = n + 1
    BY <1>1, <1>2, <2>2 DEF Grow
  <2>. QED
    BY <1>1, <2>1, <2>2
<1>7. ASSUME NEW j \in Saved
      PROVE  LET c == frames[j].cont
                 b == frames[j].base + 1
             IN  /\ c # Null /\ mem'[c] # Null /\ OnChain(c)'
                 /\ mem'[c].jmp = frames[j].id /\ LastBelow(j, mem'[c].prev)
                 /\ mem'[c].arena_idx = b /\ b <= Len(arena') /\ arena'[b] = c
                 /\ \A l \in 1 .. (n + 1) : l > j => frames'[l].base >= b
  <2> DEFINE c == frames[j].cont
             b == frames[j].base + 1
  <2>1. /\ c # Null /\ mem[c] # Null /\ OnChain(c)
        /\ mem[c].jmp = frames[j].id /\ LastBelow(j, mem[c].prev)
        /\ mem[c].arena_idx = b /\ b <= Len(arena) /\ arena[b] = c
        /\ \A l \in DOMAIN frames : l > j => frames[l].base >= b
    BY DEF IInv, PointsInPlace
  <2>2. c \in Addr /\ frames[j].base \in Nat
    BY <2>1, FrameTypes DEF IInv
  <2>3. mem'[c] = mem[c]
    BY <1>3, <2>1, <2>2
  <2>4. OnChain(c)'
    <3>1. \A x \in Addr : OnChain(x) => OnChain(x)'
      BY GrowKeepsChain
    <3>2. (c \in Addr /\ OnChain(c)) => OnChain(c)'
      <4>1. frames'[j] = frames[j]
        BY <1>1
      <4>. QED
        BY <3>1, <4>1 DEF OnChain
    <3>. QED
      BY <2>1, <2>2, <3>2
  <2>5. b <= Len(arena') /\ arena'[b] = c
    BY <1>3, <2>1, <2>2
  <2>6. ASSUME NEW l \in 1 .. (n + 1), l > j
        PROVE  frames'[l].base >= b
    <3>1. CASE l \in 1 .. n
      BY <1>1, <2>1, <2>6, <3>1
    <3>2. CASE l = n + 1
      BY <1>1, <2>1, <3>2, <1>3, <2>2
    <3>. QED
      BY <1>1, <3>1, <3>2
  <2>. QED
    BY <2>1, <2>3, <2>4, <2>5, <2>6
<1>8. ASSUME new
      PROVE  /\ a # Null /\ mem'[a] # Null /\ OnChain(a)'
             /\ mem'[a].jmp = entered + 1 /\ LastBelow(n + 1, mem'[a].prev)
             /\ mem'[a].arena_idx = Len(arena) + 1 /\ Len(arena) + 1 <= Len(arena')
             /\ arena'[Len(arena) + 1] = a
             /\ \A l \in 1 .. (n + 1) : ~(l > n + 1)
  <2>1. a # Null
    BY <1>3, <1>8, ControlAssumption
  <2>2. mem'[a] # Null
    <3>1. Len(arena) + 1 \in Nat /\ cc \in Addr \cup {Null} /\ dyn \in Seq(Environment)
      BY <1>3 DEF IInv, ControlTypeOK
    <3>2. entered + 1 \in Activation
      BY GrowFrames DEF IInv
    <3>3. mem'[a] \in SavedPoint
      BY <1>3, <1>8, <3>1, <3>2 DEF SavedPoint
    <3>. QED
      BY <3>3, ControlAssumption
  <2>3. OnChain(a)'
    BY <1>3, <1>8, <2>1 DEF OnChain
  <2>. QED
    BY <1>1, <1>3, <1>4, <1>8, <2>1, <2>2, <2>3
<1>9. ASSUME NEW j \in 1 .. (n + 1), NEW b, LastBelow(j, b)
      PROVE  LastBelow(j, b)'
  BY <1>2, <1>9 DEF LastBelow
<1>10. ASSUME NEW j \in Saved'
       PROVE  (LET c == frames[j].cont
                   b == frames[j].base + 1
               IN  /\ c # Null /\ mem[c] # Null /\ OnChain(c)
                   /\ mem[c].jmp = frames[j].id /\ LastBelow(j, mem[c].prev)
                   /\ mem[c].arena_idx = b /\ b <= Len(arena) /\ arena[b] = c
                   /\ \A l \in DOMAIN frames : l > j => frames[l].base >= b)'
  <2>1. CASE j \in Saved
    <3>1. frames'[j] = frames[j] /\ j \in 1 .. (n + 1)
      BY <1>1, <2>1
    <3>2. LastBelow(j, mem[frames[j].cont].prev)'
      <4> DEFINE p == mem'[frames[j].cont].prev
      <4>1. LastBelow(j, p)
        BY <1>7, <2>1
      <4>2. p = mem'[frames'[j].cont].prev
        BY <3>1
      <4> HIDE DEF p
      <4>3. \/ p = Null /\ \A l \in Saved' : l >= j
            \/ \E l \in Saved' : /\ l < j /\ p = frames'[l].cont
                                /\ \A m \in Saved' : m <= l \/ m >= j
        BY <1>2, <3>1, <4>1
      <4>. QED
        BY <4>2, <4>3 DEF LastBelow
    <3>3. OnChain(frames[j].cont)'
      BY <1>7, <2>1, <3>1 DEF OnChain
    <3>. QED
      BY <1>1, <1>7, <2>1, <3>1, <3>2, <3>3
  <2>2. CASE j = n + 1 /\ new
    <3>1. LastBelow(j, mem[frames[j].cont].prev)'
      BY <1>1, <1>2, <1>8, <2>2 DEF LastBelow
    <3>2. OnChain(frames[j].cont)'
      BY <1>1, <1>8, <2>2 DEF OnChain
    <3>. QED
      BY <1>1, <1>8, <2>2, <3>1, <3>2
  <2>. QED
    BY <1>2, <2>1, <2>2
<1>. QED
  BY <1>5, <1>6, <1>10 DEF PointsInPlace

(* What the next lemmas use of Grow.                                       *)
LEMMA GrowDyn ==
  ASSUME IInv, NEW k, NEW a, NEW h, NEW e, Grow(k, a, h, e)
  PROVE  LET n == Len(frames)
         IN  /\ n \in Nat /\ Len(frames') = n + 1 /\ DOMAIN frames = 1 .. n
             /\ Len(dyn) \in Nat /\ Bindings(n + 1) = Len(dyn)
             /\ \A t \in 1 .. Len(dyn) : Entry(t)' = Entry(t)
             /\ k = "callcc" => Len(dyn') = Len(dyn) /\ dyn' = dyn
             /\ k # "callcc" => /\ Len(dyn') = Len(dyn) + 1
                                /\ \A t : t = Len(dyn) + 1 => Entry(t)' = e
             /\ \A j \in 1 .. (n + 1) : /\ Bindings(j)' = Bindings(j) /\ Bindings(j) \in Nat
                                       /\ Bindings(j) <= Len(dyn)
             /\ \A j : j = n + 2 =>
                  Bindings(j)' = IF k = "callcc" THEN Len(dyn) ELSE Len(dyn) + 1
<1> DEFINE n == Len(frames)
<1>1. n \in Nat /\ Len(frames') = n + 1 /\ DOMAIN frames = 1 .. n
  BY GrowFrames DEF IInv
<1>2. dyn \in Seq(Environment) /\ Len(dyn) \in Nat
  BY DEF IInv, ControlTypeOK
<1>3. Bindings(n + 1) = Len(dyn)
  BY DEF IInv, DynInPlace, Active
<1>4. CASE k = "callcc"
  <2>1. dyn' = dyn
    BY <1>4 DEF Grow
  <2>. QED
    <3>1. \A t \in 1 .. Len(dyn) : Entry(t)' = Entry(t)
      BY <2>1 DEF Entry, At
    <3>2. ASSUME NEW j \in 1 .. (n + 1)
          PROVE  Bindings(j)' = Bindings(j) /\ Bindings(j) \in Nat /\ Bindings(j) <= Len(dyn)
      BY <1>1, <1>3, BindingsCount, GrowPositions DEF IInv
    <3>3. ASSUME NEW j, j = n + 2
          PROVE  Extenders(j)' = Extenders(n + 1)
      <4> DEFINE P == Positions(FrameKind \ {"callcc"})
      <4>1. P' = P \cup (IF k \in FrameKind \ {"callcc"} THEN {n + 1} ELSE {})
        BY GrowPositions DEF IInv
      <4>2. P' = P
        BY <1>4, <4>1
      <4>3. P \subseteq 1 .. n
        BY <1>1 DEF Positions
      <4>4. \A l \in 1 .. n : l < n + 1 /\ l < n + 2
        BY <1>1
      <4>5. Extenders(j)' = {l \in P' : l < j} /\ Extenders(n + 1) = {l \in P : l < n + 1}
        BY DEF Extenders
      <4>. QED
        BY <3>3, <4>2, <4>3, <4>4, <4>5
    <3>4. \A j : j = n + 2 => Bindings(j)' = Len(dyn)
      BY <1>3, <3>3 DEF Bindings
    <3>. QED
      BY <1>1, <1>2, <1>3, <1>4, <2>1, <3>1, <3>2, <3>4
<1>5. CASE k # "callcc"
  <2>1. e \in Environment /\ dyn' = <<e>> \o dyn /\ k \in FrameKind \ {"callcc"}
    BY <1>5 DEF Grow
  <2>2. /\ Len(dyn') = Len(dyn) + 1 /\ dyn'[1] = e
        /\ \A i \in 2 .. (Len(dyn) + 1) : dyn'[i] = dyn[i - 1]
    <3>1. <<e>> \in Seq(Environment) /\ Len(<<e>>) = 1 /\ <<e>>[1] = e
      BY <2>1
    <3>2. /\ Len(<<e>> \o dyn) = Len(<<e>>) + Len(dyn)
          /\ \A i \in 1 .. Len(<<e>>) + Len(dyn) : (<<e>> \o dyn)[i] =
                 IF i <= Len(<<e>>) THEN <<e>>[i] ELSE dyn[i - Len(<<e>>)]
      BY <1>2, <3>1, ConcatProperties
    <3>. QED
      BY <1>2, <2>1, <3>1, <3>2
  <2>3. ASSUME NEW t \in 1 .. Len(dyn)
        PROVE  Entry(t)' = Entry(t)
    <3>1. Len(dyn) + 1 + 1 - t \in 2 .. (Len(dyn) + 1) /\ Len(dyn) + 1 + 1 - t - 1 = Len(dyn) + 1 - t
      BY <1>2
    <3>. QED
      BY <2>2, <3>1 DEF Entry, At
  <2>4. ASSUME NEW t, t = Len(dyn) + 1
        PROVE  Entry(t)' = e
    <3>1. Len(dyn') + 1 - t = 1
      BY <1>2, <2>2, <2>4
    <3>2. dyn'[Len(dyn') + 1 - t] = e
      BY <2>2, <3>1
    <3>. QED
      BY <3>2 DEF Entry, At
  <2>5. ASSUME NEW j \in 1 .. (n + 1)
        PROVE  Bindings(j)' = Bindings(j) /\ Bindings(j) \in Nat /\ Bindings(j) <= Len(dyn)
    BY <1>1, <1>3, BindingsCount, GrowPositions DEF IInv
  <2>6. ASSUME NEW j, j = n + 2
        PROVE  Bindings(j)' = Len(dyn) + 1
    <3> DEFINE P == Positions(FrameKind \ {"callcc"})
    <3>1. P' = P \cup {n + 1}
      <4>1. P' = P \cup (IF k \in FrameKind \ {"callcc"} THEN {n + 1} ELSE {})
        BY GrowPositions DEF IInv
      <4>. QED
        BY <2>1, <4>1
    <3>2. P \subseteq 1 .. n
      BY <1>1 DEF Positions
    <3>3. Extenders(j)' = Extenders(n + 1) \cup {n + 1} /\ n + 1 \notin Extenders(n + 1)
      <4>1. \A l \in 1 .. n : l < n + 1 /\ l < n + 2
        BY <1>1
      <4>2. n + 1 < n + 2 /\ ~(n + 1 < n + 1)
        BY <1>1
      <4>3. Extenders(j)' = {l \in P' : l < j} /\ Extenders(n + 1) = {l \in P : l < n + 1}
        BY DEF Extenders
      <4>. QED
        BY <2>6, <3>1, <3>2, <4>1, <4>2, <4>3
    <3>4. IsFiniteSet(Extenders(n + 1))
      BY <1>1, BindingsCount DEF IInv
    <3>. QED
      BY <1>3, <3>3, <3>4, FS_AddElement DEF Bindings
  <2>. QED
    BY <1>1, <1>2, <1>3, <1>5, <2>2, <2>3, <2>4, <2>5, <2>6
<1>. QED
  BY <1>4, <1>5

(* The environment of the new frame is on top of the others.               *)
LEMMA GrowKeepsDyn ==
  ASSUME IInv, NEW k, NEW a, NEW h, NEW e, Grow(k, a, h, e)
  PROVE  DynInPlace'
<1> DEFINE n == Len(frames)
<1>1. Len(dyn') = Bindings(Active + 1)'
  <2>1. Len(frames') + 1 = n + 2
    BY GrowDyn
  <2>2. \A j : j = n + 2 => Len(dyn') = Bindings(j)'
    BY GrowDyn
  <2>. QED
    BY <2>1, <2>2 DEF Active, Bindings, Extenders
<1>2. ASSUME NEW j \in Saved
      PROVE  /\ frames'[j] = frames[j] /\ mem'[frames[j].cont] = mem[frames[j].cont]
             /\ LET d == mem[frames[j].cont].dyn
                IN  /\ Len(d) = Bindings(j)'
                    /\ \A t \in 1 .. Len(d) : At(d, t) = Entry(t)'
  <2> DEFINE d == mem[frames[j].cont].dyn
  <2>1. Len(d) = Bindings(j) /\ \A t \in 1 .. Len(d) : At(d, t) = Entry(t)
    BY DEF IInv, DynInPlace
  <2>2. j \in 1 .. n /\ j \in 1 .. (n + 1)
    BY GrowDyn, FrameTypes DEF IInv
  <2>3. Bindings(j)' = Bindings(j) /\ Bindings(j) \in Nat /\ Bindings(j) <= Len(dyn)
    BY <2>2, GrowDyn
  <2>4. \A t \in 1 .. Len(d) : t \in 1 .. Len(dyn)
    BY <2>1, <2>3, GrowDyn
  <2>5. \A t \in 1 .. Len(d) : At(d, t) = Entry(t)'
    BY <2>1, <2>4, GrowDyn
  <2>6. frames'[j] = frames[j]
    BY <2>2, GrowFrames DEF IInv
  <2>7. mem'[frames[j].cont] = mem[frames[j].cont]
    <3>1. frames[j].cont \in Addr /\ mem[frames[j].cont] # Null
      BY <2>2, FrameTypes DEF IInv, PointsInPlace
    <3>. QED
      BY <3>1, GrowMemory DEF IInv
  <2>. QED
    BY <2>1, <2>3, <2>5, <2>6, <2>7
<1>3. ASSUME k \in {"callcc", "try"}
      PROVE  /\ mem'[frames'[n + 1].cont].dyn = dyn
             /\ \A j : j = n + 1 => Len(dyn) = Bindings(j)'
             /\ \A t \in 1 .. Len(dyn) : At(dyn, t) = Entry(t)'
  <2>1. frames'[n + 1].cont = a
    BY GrowFrames DEF IInv
  <2>2. mem'[a].dyn = dyn
    BY <1>3, GrowMemory DEF IInv
  <2>3. n + 1 \in 1 .. (n + 1)
    BY GrowDyn
  <2>4. \A j : j = n + 1 => Bindings(j)' = Len(dyn)
    BY <2>3, GrowDyn
  <2>5. \A t \in 1 .. Len(dyn) : At(dyn, t) = Entry(t)'
    BY GrowDyn DEF Entry
  <2>. QED
    BY <2>1, <2>2, <2>4, <2>5
<1>4. Saved' = Saved \cup (IF k \in {"callcc", "try"} THEN {n + 1} ELSE {})
  BY GrowPositions DEF IInv
<1>5. ASSUME NEW j \in Saved'
      PROVE  (LET d == mem[frames[j].cont].dyn
              IN  /\ Len(d) = Bindings(j)
                  /\ \A t \in 1 .. Len(d) : At(d, t) = Entry(t))'
  <2>1. CASE j \in Saved
    BY SMTT(30), <1>2, <2>1 DEF At
  <2>2. CASE j = n + 1 /\ k \in {"callcc", "try"}
    <3>1. (mem[frames[j].cont].dyn)' = dyn
      BY <1>3, <2>2
    <3>2. Bindings(j)' = Len(dyn)
      BY <1>3, <2>2
    <3>. QED
      BY <1>3, <2>2, <3>1, <3>2 DEF At
  <2>. QED
    BY <1>4, <2>1, <2>2
<1>. QED
  BY <1>1, <1>5 DEF DynInPlace

(* A handler installed before is one of a frame that is still there.       *)
LEMMA GrowKeepsInstalled ==
  ASSUME IInv, NEW k, NEW a, NEW h, NEW e, Grow(k, a, h, e),
         NEW hd, NEW t, InstalledBelow(hd, t)
  PROVE  InstalledBelow(hd, t)'
<1>1. PICK j \in Positions({"try", "handler"}) :
        frames[j].id = hd.id /\ frames[j].cont = hd.cont /\ Bindings(j) < t
  BY DEF InstalledBelow
<1>2. j \in 1 .. Len(frames) /\ j \in 1 .. (Len(frames) + 1)
  BY GrowDyn DEF Positions
<1>3. frames'[j] = frames[j] /\ Bindings(j)' = Bindings(j)
  BY <1>2, GrowFrames, GrowDyn DEF IInv
<1>4. j \in Positions({"try", "handler"})'
  BY GrowPositions DEF IInv
<1>. QED
  BY <1>1, <1>3, <1>4 DEF InstalledBelow

\* A new environment may bind handlers when they were installed below and are
\* in order, and when none of them runs.
Fits(h, e) ==
  e.bound =>
    /\ InnermostFirst(e.handlers)
    /\ \A p \in 1 .. Len(e.handlers) :
         /\ \A t : t = Len(dyn) + 1 => InstalledBelow(e.handlers[p], t)'
         /\ h # 0 => e.handlers[p].id < h
         /\ \A i \in Positions({"raise", "continue"}) :
              e.handlers[p].id < frames[i].runs \/ e.handlers[p].id > frames[i].id

(* The handlers of the new environment were installed below it.            *)
LEMMA GrowKeepsHandlers ==
  ASSUME IInv, NEW k, NEW a, NEW h, NEW e, Grow(k, a, h, e), k # "callcc" => Fits(h, e)
  PROVE  HandlersInPlace'
<1>1. Len(dyn) \in Nat /\ \A t \in 1 .. Len(dyn) : Entry(t)' = Entry(t)
  BY GrowDyn
<1>2. ASSUME NEW t \in 1 .. Len(dyn), Entry(t)'.bound
      PROVE  (LET hs == Entry(t).handlers
              IN  InnermostFirst(hs) /\ \A p \in 1 .. Len(hs) : InstalledBelow(hs[p], t))'
  <2> DEFINE hs == Entry(t).handlers
  <2>1. Entry(t)' = Entry(t)
    BY <1>1
  <2>2. InnermostFirst(hs) /\ \A p \in 1 .. Len(hs) : InstalledBelow(hs[p], t)
    BY <1>2, <2>1 DEF IInv, HandlersInPlace
  <2>3. \A hd : InstalledBelow(hd, t) => InstalledBelow(hd, t)'
    BY GrowKeepsInstalled
  <2>4. \A p \in 1 .. Len(hs') : InstalledBelow(hs[p], t)'
    BY <2>1, <2>2, <2>3 DEF InstalledBelow
  <2>. QED
    BY <2>1, <2>2, <2>4 DEF InnermostFirst
<1>3. ASSUME k # "callcc", NEW t, t = Len(dyn) + 1, Entry(t)'.bound
      PROVE  (LET hs == Entry(t).handlers
              IN  InnermostFirst(hs) /\ \A p \in 1 .. Len(hs) : InstalledBelow(hs[p], t))'
  <2>1. Entry(t)' = e
    BY <1>3, GrowDyn
  <2>2. /\ InnermostFirst(e.handlers)
        /\ \A p \in 1 .. Len(e.handlers) : InstalledBelow(e.handlers[p], t)'
    BY <1>3, <2>1 DEF Fits
  <2>. QED
    BY <2>1, <2>2 DEF InnermostFirst, InstalledBelow
<1>4. ASSUME NEW t \in 1 .. Len(dyn')
      PROVE  t \in 1 .. Len(dyn) \/ (k # "callcc" /\ t = Len(dyn) + 1)
  BY <1>1, GrowDyn
<1>. QED
  BY <1>2, <1>3, <1>4 DEF HandlersInPlace

(* A handler that runs has only those outside of it in force.              *)
LEMMA GrowKeepsRaises ==
  ASSUME IInv, NEW k, NEW a, NEW h, NEW e, Grow(k, a, h, e), k # "callcc" => Fits(h, e),
         k \in {"raise", "continue"} => e.bound /\ h # 0 /\ h <= entered
  PROVE  RaisesOutward'
<1> DEFINE n == Len(frames)
<1>1. /\ n \in Nat /\ Len(dyn) \in Nat /\ DOMAIN frames = 1 .. n
      /\ \A t \in 1 .. Len(dyn) : Entry(t)' = Entry(t)
  BY GrowDyn
<1>2. ASSUME NEW t \in 1 .. Len(dyn')
      PROVE  t \in 1 .. Len(dyn) \/ (k # "callcc" /\ t = Len(dyn) + 1 /\ Entry(t)' = e)
  BY <1>1, GrowDyn
<1>3. ASSUME NEW i \in Positions({"raise", "continue"})
      PROVE  (/\ frames[i].runs < frames[i].id
              /\ Bindings(i) + 1 \in 1 .. Len(dyn) /\ Entry(Bindings(i) + 1).bound
              /\ \A t \in 1 .. Len(dyn) : t > Bindings(i) /\ Entry(t).bound =>
                   LET hs == Entry(t).handlers
                   IN  \A p \in 1 .. Len(hs) :
                         hs[p].id < frames[i].runs \/ hs[p].id > frames[i].id)'
  <2>1. i \in 1 .. n /\ i \in 1 .. (n + 1)
    BY <1>1 DEF Positions
  <2>2. frames'[i] = frames[i] /\ Bindings(i)' = Bindings(i) /\ Bindings(i) \in Nat
    BY <2>1, GrowFrames, GrowDyn DEF IInv
  <2>3. /\ frames[i].runs < frames[i].id
        /\ Bindings(i) + 1 \in 1 .. Len(dyn) /\ Entry(Bindings(i) + 1).bound
        /\ \A t \in 1 .. Len(dyn) : t > Bindings(i) /\ Entry(t).bound =>
             LET hs == Entry(t).handlers
             IN  \A p \in 1 .. Len(hs) : hs[p].id < frames[i].runs \/ hs[p].id > frames[i].id
    BY DEF IInv, RaisesOutward
  <2>4. Entry(Bindings(i) + 1)' = Entry(Bindings(i) + 1)
    <3>1. \A t : t = Bindings(i) + 1 => Entry(t)' = Entry(t)
      BY <1>1, <2>3
    <3>. QED
      BY <2>2, <3>1 DEF Entry, At
  <2>5. Bindings(i) + 1 \in 1 .. Len(dyn')
    BY <1>1, <2>2, <2>3, GrowDyn
  <2>6. ASSUME NEW t \in 1 .. Len(dyn'), t > Bindings(i), Entry(t)'.bound
        PROVE  LET hs == Entry(t)'.handlers
               IN  \A p \in 1 .. Len(hs) : hs[p].id < frames[i].runs \/ hs[p].id > frames[i].id
    <3>1. CASE t \in 1 .. Len(dyn)
      BY <1>1, <2>3, <2>6, <3>1
    <3>2. CASE k # "callcc" /\ t = Len(dyn) + 1 /\ Entry(t)' = e
      BY <2>6, <3>2 DEF Fits
    <3>. QED
      BY <1>2, <3>1, <3>2
  <2>. QED
    BY <2>2, <2>3, <2>4, <2>5, <2>6
<1>4. ASSUME k \in {"raise", "continue"}, NEW i, i = n + 1
      PROVE  (/\ frames[i].runs < frames[i].id
              /\ Bindings(i) + 1 \in 1 .. Len(dyn) /\ Entry(Bindings(i) + 1).bound
              /\ \A t \in 1 .. Len(dyn) : t > Bindings(i) /\ Entry(t).bound =>
                   LET hs == Entry(t).handlers
                   IN  \A p \in 1 .. Len(hs) :
                         hs[p].id < frames[i].runs \/ hs[p].id > frames[i].id)'
  <2>1. frames'[i].runs = h /\ frames'[i].id = entered + 1 /\ entered \in Nat /\ h \in Nat
    BY <1>4, GrowFrames, ControlAssumption DEF IInv, Grow, Activation
  <2>2. Bindings(i)' = Len(dyn)
    <3>1. i \in 1 .. (n + 1)
      BY <1>1, <1>4
    <3>2. Bindings(i)' = Bindings(i)
      BY <3>1, GrowDyn
    <3>. QED
      BY <1>4, <3>2, GrowDyn
  <2>3. Len(dyn') = Len(dyn) + 1 /\ \A t : t = Len(dyn) + 1 => Entry(t)' = e
    BY <1>4, GrowDyn
  <2>4. Entry(Bindings(i) + 1)' = e
    BY <2>2, <2>3 DEF Entry, At
  <2>5. \A t \in 1 .. Len(dyn') : t > Len(dyn) => Entry(t)' = e
    BY <1>1, <2>3
  <2>6. \A p \in 1 .. Len(e.handlers) : e.handlers[p].id < h
    BY <1>4 DEF Fits
  <2>. QED
    BY <1>1, <1>4, <2>1, <2>2, <2>3, <2>4, <2>5, <2>6
<1>5. Positions({"raise", "continue"})' = Positions({"raise", "continue"})
                                         \cup (IF k \in {"raise", "continue"} THEN {n + 1} ELSE {})
  BY GrowPositions DEF IInv
<1>6. ASSUME NEW i \in Positions({"raise", "continue"})'
      PROVE  \/ i \in Positions({"raise", "continue"})
             \/ k \in {"raise", "continue"} /\ i = n + 1
  BY <1>5
<1>. QED
  BY <1>3, <1>4, <1>6 DEF RaisesOutward

(* The activation of the new frame is that of no older escape procedure.   *)
LEMMA GrowKeepsEscapes ==
  ASSUME IInv, NEW k, NEW a, NEW h, NEW e, Grow(k, a, h, e)
  PROVE  EscapesInPlace'
<1> DEFINE n == Len(frames)
<1>1. /\ n \in Nat /\ DOMAIN frames' = 1 .. (n + 1) /\ DOMAIN frames = 1 .. n
      /\ \A j \in 1 .. n : frames'[j] = frames[j]
      /\ frames'[n + 1].id = entered + 1 /\ frames'[n + 1].cont = a
      /\ entered \in Nat /\ entered' = entered + 1
  BY GrowFrames DEF IInv
<1>2. ASSUME NEW x \in escapes
      PROVE  /\ x.id <= entered'
             /\ \A i \in 1 .. (n + 1) : frames'[i].id = x.id => frames'[i].cont = x.cont
  <2>1. x.id <= entered /\ \A i \in 1 .. n : frames[i].id = x.id => frames[i].cont = x.cont
    BY <1>1 DEF IInv, EscapesInPlace
  <2>2. x.id \in Nat
    BY ControlAssumption DEF IInv, ControlTypeOK, Procedure, Activation
  <2>3. x.id # entered + 1 /\ x.id <= entered + 1
    BY <1>1, <2>1, <2>2
  <2>. QED
    BY <1>1, <2>1, <2>3
<1>3. ASSUME NEW x, x = [id |-> entered + 1, cont |-> a]
      PROVE  /\ x.id <= entered'
             /\ \A i \in 1 .. (n + 1) : frames'[i].id = x.id => frames'[i].cont = x.cont
  <2>1. \A i \in 1 .. n : frames[i].id # entered + 1
    <3>1. \A i \in 1 .. n : frames[i].id <= entered /\ frames[i].id \in Nat
      BY <1>1, FrameTypes, ControlAssumption DEF IInv, FramesInOrder, Activation
    <3>. QED
      BY <1>1, <3>1
  <2>. QED
    BY <1>1, <1>3, <2>1
<1>4. escapes' \subseteq escapes \cup {[id |-> entered + 1, cont |-> a]}
  BY DEF Grow
<1>. QED
  BY <1>1, <1>2, <1>3, <1>4 DEF EscapesInPlace

(* Every way into a function keeps the invariant.                          *)
LEMMA GrowKeepsIInv ==
  ASSUME IInv, NEW k, NEW a, NEW h, NEW e, Grow(k, a, h, e), k # "callcc" => Fits(h, e),
         k \in {"raise", "continue"} => e.bound /\ h # 0 /\ h <= entered
  PROVE  IInv'
BY GrowKeepsTypes, GrowKeepsPoints, GrowKeepsDyn, GrowKeepsHandlers, GrowKeepsRaises,
   GrowKeepsEscapes DEF IInv

-----------------------------------------------------------------------------
(* The actions.                                                            *)

(* The handlers in force are installed on the C stack, the innermost       *)
(* first, and none of them is that of a call of raise.                     *)
LEMMA HandlersFit ==
  ASSUME IInv
  PROVE  /\ Handlers \in Seq(Procedure) /\ InnermostFirst(Handlers)
         /\ \A p \in 1 .. Len(Handlers) :
              /\ InstalledBelow(Handlers[p], Len(dyn) + 1) /\ Handlers[p].id <= entered
              /\ \A i \in Positions({"raise", "continue"}) :
                   Handlers[p].id < frames[i].runs \/ Handlers[p].id > frames[i].id
<1>1. CASE Handlers = <<>>
  BY <1>1 DEF InnermostFirst
<1>2. ASSUME NEW t \in 1 .. Len(dyn), Entry(t).bound, Handlers = Entry(t).handlers,
             \A u \in 1 .. Len(dyn) : u > t => ~Entry(u).bound
      PROVE  /\ Handlers \in Seq(Procedure) /\ InnermostFirst(Handlers)
             /\ \A p \in 1 .. Len(Handlers) :
                  /\ InstalledBelow(Handlers[p], Len(dyn) + 1) /\ Handlers[p].id <= entered
                  /\ \A i \in Positions({"raise", "continue"}) :
                       Handlers[p].id < frames[i].runs \/ Handlers[p].id > frames[i].id
  <2>1. Len(dyn) \in Nat /\ Entry(t) \in Environment
    <3>1. dyn \in Seq(Environment) /\ Len(dyn) \in Nat
      BY DEF IInv, ControlTypeOK
    <3>2. Len(dyn) + 1 - t \in 1 .. Len(dyn)
      BY <3>1
    <3>. QED
      BY <3>1, <3>2 DEF Entry, At
  <2>2. Handlers \in Seq(Procedure)
    BY <1>2, <2>1 DEF Environment
  <2>3. InnermostFirst(Handlers) /\ \A p \in 1 .. Len(Handlers) : InstalledBelow(Handlers[p], t)
    BY <1>2 DEF IInv, HandlersInPlace
  <2>4. ASSUME NEW p \in 1 .. Len(Handlers)
        PROVE  InstalledBelow(Handlers[p], Len(dyn) + 1) /\ Handlers[p].id <= entered
    <3>1. PICK j \in Positions({"try", "handler"}) :
            frames[j].id = Handlers[p].id /\ frames[j].cont = Handlers[p].cont /\ Bindings(j) < t
      BY <2>3 DEF InstalledBelow
    <3>2. j \in DOMAIN frames /\ j \in Nat
      BY FrameTypes DEF IInv, Positions
    <3>3. Bindings(j) \in Nat
      BY <3>2, BindingsCount DEF IInv
    <3>4. Bindings(j) < Len(dyn) + 1
      BY <2>1, <3>1, <3>3
    <3>5. frames[j].id <= entered
      BY <3>2 DEF IInv, FramesInOrder
    <3>. QED
      BY <3>1, <3>4, <3>5 DEF InstalledBelow
  <2>5. ASSUME NEW i \in Positions({"raise", "continue"}), NEW p \in 1 .. Len(Handlers)
        PROVE  Handlers[p].id < frames[i].runs \/ Handlers[p].id > frames[i].id
    <3>1. i \in Nat /\ Bindings(i) \in Nat
      <4>1. i \in Nat
        BY FrameTypes DEF IInv, Positions
      <4>. QED
        BY <4>1, BindingsCount DEF IInv
    <3>2. Bindings(i) + 1 \in 1 .. Len(dyn) /\ Entry(Bindings(i) + 1).bound
      BY DEF IInv, RaisesOutward
    <3>3. t > Bindings(i)
      BY <1>2, <3>1, <3>2
    <3>. QED
      BY <1>2, <3>3 DEF IInv, RaisesOutward
  <2>. QED
    BY <2>2, <2>3, <2>4, <2>5
<1>. QED
  BY <1>1, <1>2, HandlersInForce DEF IInv

(* pic_start_try and with-exception-handler put a handler of the new frame *)
(* before those in force.                                                  *)
LEMMA NewHandlerFits ==
  ASSUME IInv, NEW k \in {"try", "handler"}, NEW a,
         NEW e, e = Bind(<<[id |-> entered + 1, cont |-> a]>> \o Handlers),
         Grow(k, a, 0, e)
  PROVE  Fits(0, e)
<1> DEFINE n == Len(frames)
           hd == [id |-> entered + 1, cont |-> a]
<1>1. /\ n \in Nat /\ frames'[n + 1].id = entered + 1 /\ frames'[n + 1].cont = a
      /\ entered \in Nat /\ entered + 1 \in Activation
  BY GrowFrames DEF IInv
<1>2. hd \in Procedure
  BY <1>1 DEF Procedure, Grow
<1>3. Handlers \in Seq(Procedure) /\ Len(Handlers) \in Nat
  BY HandlersFit
<1>4. /\ e.bound /\ Len(e.handlers) = Len(Handlers) + 1 /\ e.handlers[1] = hd
      /\ \A p \in 2 .. (Len(Handlers) + 1) : e.handlers[p] = Handlers[p - 1]
  <2>1. <<hd>> \in Seq(Procedure) /\ Len(<<hd>>) = 1 /\ <<hd>>[1] = hd
    BY <1>2
  <2>2. e.bound /\ e.handlers = <<hd>> \o Handlers
    BY DEF Bind
  <2> HIDE DEF hd
  <2>3. /\ Len(<<hd>> \o Handlers) = Len(<<hd>>) + Len(Handlers)
        /\ \A p \in 1 .. Len(<<hd>>) + Len(Handlers) : (<<hd>> \o Handlers)[p] =
               IF p <= Len(<<hd>>) THEN <<hd>>[p] ELSE Handlers[p - Len(<<hd>>)]
    BY <1>3, <2>1, ConcatProperties
  <2>. QED
    BY <1>3, <2>1, <2>2, <2>3
<1>5. e.handlers[1].id = entered + 1 /\ e.handlers[1].cont = a
  BY <1>4
<1> HIDE DEF hd
<1>6. \A p \in 1 .. Len(Handlers) : Handlers[p].id \in Nat /\ Handlers[p].id <= entered
  <2>1. \A p \in 1 .. Len(Handlers) : Handlers[p] \in Procedure
    BY <1>3
  <2>. QED
    BY <2>1, HandlersFit, ControlAssumption DEF Procedure, Activation
<1>7. ASSUME NEW p \in 1 .. Len(e.handlers), p # 1
      PROVE  /\ p \in 2 .. (Len(Handlers) + 1) /\ p - 1 \in 1 .. Len(Handlers)
             /\ e.handlers[p] = Handlers[p - 1]
  BY <1>3, <1>4, <1>7
<1>8. InnermostFirst(e.handlers)
  <2>1. ASSUME NEW p \in 1 .. Len(e.handlers), NEW q \in 1 .. Len(e.handlers), p < q
        PROVE  e.handlers[q].id < e.handlers[p].id
    <3>1. q # 1 /\ p \in Nat /\ q \in Nat
      BY <1>3, <1>4, <2>1
    <3>2. q - 1 \in 1 .. Len(Handlers) /\ e.handlers[q] = Handlers[q - 1]
      BY <1>7, <3>1
    <3>3. CASE p = 1
      BY <1>1, <1>5, <1>6, <3>2, <3>3
    <3>4. CASE p # 1
      <4>1. p - 1 \in 1 .. Len(Handlers) /\ e.handlers[p] = Handlers[p - 1] /\ p - 1 < q - 1
        BY <1>7, <2>1, <3>1, <3>4
      <4>. QED
        BY <3>2, <4>1, HandlersFit DEF InnermostFirst
    <3>. QED
      BY <3>3, <3>4
  <2>. QED
    BY <2>1 DEF InnermostFirst
<1>9. ASSUME NEW p \in 1 .. Len(e.handlers), NEW t, t = Len(dyn) + 1
      PROVE  InstalledBelow(e.handlers[p], t)'
  <2>1. CASE p = 1
    <3>1. ASSUME NEW j, j = n + 1
          PROVE  /\ j \in Positions({"try", "handler"})' /\ frames'[j].id = e.handlers[p].id
                 /\ frames'[j].cont = e.handlers[p].cont /\ Bindings(j)' < t
      <4>1. j \in Positions({"try", "handler"})'
        BY <3>1, GrowPositions DEF IInv
      <4>2. Bindings(j)' = Bindings(j) /\ Bindings(j) = Len(dyn) /\ Len(dyn) \in Nat
        <5>1. j \in 1 .. (n + 1)
          BY <1>1, <3>1
        <5>. QED
          BY <3>1, <5>1, GrowDyn
      <4>. QED
        BY <1>1, <1>5, <1>9, <2>1, <3>1, <4>1, <4>2
    <3>. QED
      BY <3>1 DEF InstalledBelow
  <2>2. CASE p # 1
    <3>1. InstalledBelow(e.handlers[p], t)
      BY <1>7, <1>9, <2>2, HandlersFit
    <3>. QED
      BY <3>1, GrowKeepsInstalled
  <2>. QED
    BY <2>1, <2>2
<1>10. ASSUME NEW p \in 1 .. Len(e.handlers), NEW i \in Positions({"raise", "continue"})
       PROVE  e.handlers[p].id < frames[i].runs \/ e.handlers[p].id > frames[i].id
  <2>1. CASE p = 1
    <3>1. frames[i].id \in Nat /\ frames[i].id <= entered
      BY FrameTypes, ControlAssumption DEF IInv, Positions, FramesInOrder, Activation
    <3>. QED
      BY <1>1, <1>5, <2>1, <3>1
  <2>2. CASE p # 1
    BY <1>7, <2>2, HandlersFit
  <2>. QED
    BY <2>1, <2>2
<1>. QED
  BY <1>8, <1>9, <1>10 DEF Fits

(* The handlers that are in force while a handler runs are those after it. *)
LEMMA SignalFits ==
  ASSUME IInv, Handlers # <<>>, NEW k \in {"raise", "continue"},
         NEW h, h = Handlers[1].id, NEW e, e = Bind(Tail(Handlers)), Grow(k, Null, h, e)
  PROVE  Fits(h, e) /\ e.bound /\ h # 0 /\ h <= entered
<1>1. Handlers \in Seq(Procedure) /\ Len(Handlers) \in Nat /\ 1 \in 1 .. Len(Handlers)
  BY HandlersFit
<1>2. e.bound /\ e.handlers = Tail(Handlers)
  BY DEF Bind
<1>3. /\ Len(e.handlers) = Len(Handlers) - 1
      /\ \A p \in 1 .. Len(e.handlers) : e.handlers[p] = Handlers[p + 1]
  BY <1>1, <1>2, HeadTailProperties
<1>4. \A p \in 1 .. Len(e.handlers) : p + 1 \in 1 .. Len(Handlers) /\ 1 < p + 1
  BY <1>1, <1>3
<1>5. InnermostFirst(e.handlers)
  <2>1. ASSUME NEW p \in 1 .. Len(e.handlers), NEW q \in 1 .. Len(e.handlers), p < q
        PROVE  e.handlers[q].id < e.handlers[p].id
    <3>1. p + 1 < q + 1
      BY <2>1
    <3>. QED
      BY <1>3, <1>4, <3>1, HandlersFit DEF InnermostFirst
  <2>. QED
    BY <2>1 DEF InnermostFirst
<1>6. ASSUME NEW p \in 1 .. Len(e.handlers)
      PROVE  /\ \A t : t = Len(dyn) + 1 => InstalledBelow(e.handlers[p], t)'
             /\ e.handlers[p].id < h
             /\ \A i \in Positions({"raise", "continue"}) :
                  e.handlers[p].id < frames[i].runs \/ e.handlers[p].id > frames[i].id
  <2>1. \A t : t = Len(dyn) + 1 => InstalledBelow(e.handlers[p], t)
    BY <1>3, <1>4, HandlersFit
  <2>2. \A t : t = Len(dyn) + 1 => InstalledBelow(e.handlers[p], t)'
    BY <2>1, GrowKeepsInstalled
  <2>3. e.handlers[p].id < h
    BY <1>1, <1>3, <1>4, HandlersFit DEF InnermostFirst
  <2>. QED
    BY <1>3, <1>4, <2>2, <2>3, HandlersFit
<1>7. h # 0 /\ h <= entered
  <2>1. Handlers[1] \in Procedure
    BY <1>1
  <2>. QED
    BY <1>1, <2>1, HandlersFit, ControlAssumption DEF Procedure, Activation
<1>. QED
  BY <1>2, <1>5, <1>6, <1>7 DEF Fits

(* pic_load_point and longjmp leave the frames from the one on that owns   *)
(* the saved point.                                                        *)
LEMMA ResumeCuts ==
  ASSUME IInv, NEW a, OnChain(a), Resume(a)
  PROVE  \E i : Cut(i)
<1>1. PICK j \in Saved : frames[j].cont = a
  BY ChainIsSaved DEF IInv
<1>2. /\ a # Null /\ mem[a] # Null /\ mem[a].jmp = frames[j].id /\ LastBelow(j, mem[a].prev)
      /\ a \in Addr /\ j \in DOMAIN frames
  BY <1>1, FrameTypes DEF IInv, PointsInPlace
<1>3. PICK i \in DOMAIN frames : frames[i].id = mem[a].jmp /\ Unwind(i)
  BY DEF Resume
<1>4. i = j
  <2>1. i \in Nat /\ j \in Nat /\ frames[i].id \in Nat /\ frames[i].id = frames[j].id
    BY <1>2, <1>3, FrameTypes, ControlAssumption DEF IInv, Activation
  <2>2. ~(i < j) /\ ~(j < i)
    BY <1>2, <1>3, <2>1 DEF IInv, FramesInOrder
  <2>. QED
    BY <2>1, <2>2
<1>5. mem[a] \in SavedPoint
  BY <1>2 DEF IInv, ControlTypeOK
<1>6. cc' \in Addr \cup {Null} /\ LastBelow(i, cc')
  BY <1>2, <1>4, <1>5 DEF Resume, SavedPoint
<1>7. /\ dyn' \in Seq(Environment) /\ Len(dyn') = Bindings(i)
      /\ \A t \in 1 .. Bindings(i) : At(dyn', t) = Entry(t)
  <2>1. dyn' = mem[a].dyn
    BY DEF Resume
  <2>2. /\ Len(mem[a].dyn) = Bindings(i)
        /\ \A t \in 1 .. Len(mem[a].dyn) : At(mem[a].dyn, t) = Entry(t)
    BY <1>1, <1>4 DEF IInv, DynInPlace
  <2>. QED
    BY <1>5, <2>1, <2>2 DEF SavedPoint
<1>8. pc' \in {"run", "error", "panic"} /\ UNCHANGED <<mem, escapes, entered>>
  BY DEF Resume
<1>. QED
  BY <1>3, <1>6, <1>7, <1>8 DEF Cut

(* So do pic_exit_point, pic_end_try and with-dynamic-environment.         *)
LEMMA ReturnCuts ==
  ASSUME IInv, ThunkReturns
  PROVE  Cut(Active)
<1> DEFINE n == Len(frames)
<1>1. n \in Nat /\ n > 0 /\ DOMAIN frames = 1 .. n /\ n \in DOMAIN frames
      /\ Top = frames[n] /\ Saved \subseteq 1 .. n
  BY FrameTypes DEF IInv, ThunkReturns, Active, Top
<1>2. LastBelow(n + 1, cc)
  BY DEF IInv, PointsInPlace, Active
<1>3. cc' \in Addr \cup {Null} /\ LastBelow(n, cc')
  <2>1. CASE Top.kind \in {"callcc", "try"}
    <3>1. n \in Saved
      BY <1>1, <2>1 DEF Saved, Positions
    <3>2. cc = frames[n].cont
      BY <1>1, <1>2, <3>1 DEF LastBelow
    <3>3. LastBelow(n, mem[cc].prev) /\ mem[cc] # Null /\ cc \in Addr
      BY <1>1, <3>1, <3>2, FrameTypes DEF IInv, PointsInPlace
    <3>4. mem[cc] \in SavedPoint
      BY <3>3 DEF IInv, ControlTypeOK
    <3>. QED
      BY <2>1, <3>3, <3>4 DEF ThunkReturns, SavedPoint
  <2>2. CASE Top.kind \notin {"callcc", "try"}
    <3>1. n \notin Saved
      BY <1>1, <2>2 DEF Saved, Positions
    <3>2. LastBelow(n, cc)
      BY <1>1, <1>2, <3>1 DEF LastBelow
    <3>. QED
      BY <2>2, <3>2 DEF ThunkReturns, IInv, ControlTypeOK
  <2>. QED
    BY <2>1, <2>2
<1>4. dyn \in Seq(Environment) /\ Len(dyn) \in Nat /\ Len(dyn) = Bindings(n + 1)
  BY DEF IInv, ControlTypeOK, DynInPlace, Active
<1>5. Bindings(n) \in Nat
  BY <1>1, BindingsCount DEF IInv
<1>6. /\ dyn' \in Seq(Environment) /\ Len(dyn') = Bindings(n)
      /\ \A t \in 1 .. Bindings(n) : At(dyn', t) = Entry(t)
  <2>1. CASE Top.kind = "callcc"
    <3>1. n \notin Positions(FrameKind \ {"callcc"})
      BY <1>1, <2>1 DEF Positions
    <3>2. Bindings(n + 1) = Bindings(n)
      BY <1>1, <3>1, BindingsCount DEF IInv
    <3>. QED
      BY <1>4, <2>1, <3>2 DEF ThunkReturns, Entry
  <2>2. CASE Top.kind # "callcc"
    <3>1. n \in Positions(FrameKind \ {"callcc"})
      BY <1>1, <2>2, FrameTypes DEF IInv, Positions
    <3>2. Bindings(n + 1) = Bindings(n) + 1
      BY <1>1, <3>1, BindingsCount DEF IInv
    <3>3. dyn' = Tail(dyn) /\ dyn # <<>>
      BY <1>4, <1>5, <2>2, <3>2 DEF ThunkReturns
    <3>4. /\ dyn' \in Seq(Environment) /\ Len(dyn') = Len(dyn) - 1
          /\ \A p \in 1 .. Len(Tail(dyn)) : Tail(dyn)[p] = dyn[p + 1]
      BY <1>4, <3>3, HeadTailProperties
    <3>5. Len(dyn') = Bindings(n)
      BY <1>4, <1>5, <3>2, <3>4
    <3>6. ASSUME NEW t \in 1 .. Bindings(n)
          PROVE  At(dyn', t) = Entry(t)
      <4>1. Len(dyn') + 1 - t \in 1 .. Len(dyn') /\ Len(dyn') + 1 - t + 1 = Len(dyn) + 1 - t
        BY <1>4, <1>5, <3>4, <3>5
      <4>. QED
        BY <3>3, <3>4, <4>1 DEF At, Entry
    <3>. QED
      BY <3>4, <3>5, <3>6
  <2>. QED
    BY <2>1, <2>2
<1>7. /\ Unwind(n) /\ pc' \in {"run", "error", "panic"} /\ UNCHANGED <<mem, escapes, entered>>
  BY DEF ThunkReturns, IInv, ControlTypeOK, Active, Running
<1>. QED
  BY <1>1, <1>3, <1>6, <1>7 DEF Cut, Active

(* Handlers are in place as long as the C stack and the dynamic            *)
(* environment are the same.                                               *)
LEMMA SameStackKeepsHandlers ==
  ASSUME IInv, UNCHANGED <<frames, dyn>>
  PROVE  HandlersInPlace' /\ RaisesOutward'
<1>1. frames' = frames /\ dyn' = dyn
  OBVIOUS
<1>2. \A K : Positions(K)' = Positions(K)
  BY <1>1 DEF Positions
<1>3. \A i : Extenders(i)' = Extenders(i)
  BY <1>2 DEF Extenders
<1>4. \A i : Bindings(i)' = Bindings(i)
  BY <1>3 DEF Bindings
<1>5. \A t : Entry(t)' = Entry(t)
  BY <1>1 DEF Entry, At
<1>6. ASSUME NEW hd, NEW t, InstalledBelow(hd, t)
      PROVE  InstalledBelow(hd, t)'
  <2>1. PICK j \in Positions({"try", "handler"}) :
          frames[j].id = hd.id /\ frames[j].cont = hd.cont /\ Bindings(j) < t
    BY <1>6 DEF InstalledBelow
  <2>2. j \in Positions({"try", "handler"})'
    BY <1>2, <2>1
  <2>3. Bindings(j)' < t
    BY <1>4, <2>1
  <2>. QED
    BY <1>1, <2>1, <2>2, <2>3 DEF InstalledBelow
<1>7. ASSUME NEW t \in 1 .. Len(dyn'), Entry(t)'.bound
      PROVE  (LET hs == Entry(t).handlers
              IN  InnermostFirst(hs) /\ \A p \in 1 .. Len(hs) : InstalledBelow(hs[p], t))'
  <2> DEFINE hs == Entry(t).handlers
  <2>1. Entry(t)' = Entry(t)
    BY <1>5
  <2>2. InnermostFirst(hs) /\ \A p \in 1 .. Len(hs) : InstalledBelow(hs[p], t)
    BY <1>1, <1>7, <2>1 DEF IInv, HandlersInPlace
  <2>3. \A hd : InstalledBelow(hd, t) => InstalledBelow(hd, t)'
    BY <1>6
  <2>4. \A p \in 1 .. Len(hs') : InstalledBelow(hs[p], t)'
    BY <2>1, <2>2, <2>3 DEF InstalledBelow
  <2>. QED
    BY <2>1, <2>2, <2>4 DEF InnermostFirst
<1>8. HandlersInPlace'
  BY <1>7 DEF HandlersInPlace
<1>9. ASSUME NEW i \in Positions({"raise", "continue"})
      PROVE  (/\ frames[i].runs < frames[i].id
              /\ Bindings(i) + 1 \in 1 .. Len(dyn) /\ Entry(Bindings(i) + 1).bound
              /\ \A t \in 1 .. Len(dyn) : t > Bindings(i) /\ Entry(t).bound =>
                   LET hs == Entry(t).handlers
                   IN  \A p \in 1 .. Len(hs) :
                         hs[p].id < frames[i].runs \/ hs[p].id > frames[i].id)'
  <2>1. /\ frames[i].runs < frames[i].id
        /\ Bindings(i) + 1 \in 1 .. Len(dyn) /\ Entry(Bindings(i) + 1).bound
        /\ \A t \in 1 .. Len(dyn) : t > Bindings(i) /\ Entry(t).bound =>
             LET hs == Entry(t).handlers
             IN  \A p \in 1 .. Len(hs) : hs[p].id < frames[i].runs \/ hs[p].id > frames[i].id
    BY DEF IInv, RaisesOutward
  <2>2. Bindings(i)' = Bindings(i)
    BY <1>4
  <2>3. Entry(Bindings(i) + 1)' = Entry(Bindings(i) + 1)
    BY <1>1, <2>2 DEF Entry, At
  <2>. QED
    BY <1>1, <1>5, <2>1, <2>2, <2>3
<1>10. RaisesOutward'
  BY <1>2, <1>9 DEF RaisesOutward
<1>. QED
  BY <1>8, <1>10

(* A step that only turns to an error or a panic keeps the invariant.      *)
LEMMA SameStateKeepsIInv ==
  ASSUME IInv, UNCHANGED <<frames, mem, cc, arena, dyn, escapes, entered>>,
         pc' \in {"run", "error", "panic"}
  PROVE  IInv'
<1>1. ControlTypeOK'
  BY DEF IInv, ControlTypeOK
<1>2. FramesInOrder' /\ EscapesInPlace'
  BY DEF IInv, FramesInOrder, EscapesInPlace
<1>3. \A K : Positions(K)' = Positions(K)
  BY DEF Positions
<1>4. Saved' = Saved
  BY DEF Saved, Positions
<1>5. \A i : Bindings(i)' = Bindings(i)
  BY DEF Bindings, Extenders, Positions
<1>6. PointsInPlace'
  BY <1>4 DEF IInv, PointsInPlace, LastBelow, OnChain, Active
<1>7. DynInPlace'
  BY <1>4 DEF IInv, DynInPlace, Bindings, Extenders, Positions, At, Entry, Active
<1>8. HandlersInPlace' /\ RaisesOutward'
  BY SameStackKeepsHandlers
<1>. QED
  BY <1>1, <1>2, <1>6, <1>7, <1>8 DEF IInv

(* A collection frees no saved point of a frame that is on the C stack.    *)
LEMMA CollectKeepsIInv ==
  ASSUME IInv, Collect
  PROVE  IInv'
<1>1. /\ UNCHANGED <<frames, cc, arena, dyn, escapes, entered, pc>>
      /\ mem' = [a \in Addr |-> IF \E i \in DOMAIN arena : arena[i] = a THEN mem[a] ELSE Null]
  BY DEF Collect
<1>2. ASSUME NEW i \in Saved
      PROVE  frames[i].cont \in Addr /\ mem'[frames[i].cont] = mem[frames[i].cont]
  <2>1. /\ frames[i].cont \in Addr \cup {Null} /\ frames[i].base \in Nat
    BY FrameTypes DEF IInv
  <2>2. /\ frames[i].cont # Null /\ frames[i].base + 1 <= Len(arena)
        /\ arena[frames[i].base + 1] = frames[i].cont
    BY DEF IInv, PointsInPlace
  <2>3. frames[i].base + 1 \in DOMAIN arena
    <3>1. arena \in Seq(Addr)
      BY DEF IInv, ControlTypeOK
    <3>. QED
      BY <2>1, <2>2, <3>1
  <2>. QED
    BY <1>1, <2>1, <2>2, <2>3
<1>3. Saved' = Saved
  BY <1>1 DEF Saved, Positions
<1>4. ControlTypeOK'
  BY <1>1 DEF IInv, ControlTypeOK
<1>5. FramesInOrder' /\ EscapesInPlace'
  BY <1>1 DEF IInv, FramesInOrder, EscapesInPlace
<1>6. HandlersInPlace' /\ RaisesOutward'
  BY <1>1, SameStackKeepsHandlers
<1>8. DynInPlace'
  <2>1. Bindings(Active + 1)' = Bindings(Active + 1)
    BY <1>1 DEF Bindings, Extenders, Positions, Active
  <2>2. ASSUME NEW i \in Saved
        PROVE  (LET d == mem[frames[i].cont].dyn
                IN  Len(d) = Bindings(i) /\ \A t \in 1 .. Len(d) : At(d, t) = Entry(t))'
    <3>1. Bindings(i)' = Bindings(i) /\ (mem[frames[i].cont].dyn)' = mem[frames[i].cont].dyn
      BY <1>1, <1>2 DEF Bindings, Extenders, Positions
    <3>2. LET d == mem[frames[i].cont].dyn
          IN  Len(d) = Bindings(i) /\ \A t \in 1 .. Len(d) : At(d, t) = Entry(t)
      BY DEF IInv, DynInPlace
    <3>. QED
      BY <1>1, <3>1, <3>2 DEF At, Entry
  <2>. QED
    BY <1>1, <1>3, <2>1, <2>2 DEF IInv, DynInPlace
<1>9. ASSUME NEW j \in Saved
      PROVE  OnChain(frames[j].cont)'
  <2>1. frames'[j].cont = frames[j].cont /\ frames[j].cont # Null
    BY <1>1 DEF IInv, PointsInPlace
  <2>2. SUFFICES ASSUME NEW S \in SUBSET Addr, cc \in S \cup {Null},
                        \A b \in S : mem'[b] # Null => mem'[b].prev \in S \cup {Null}
                 PROVE  frames[j].cont \in S
    BY <1>1, <2>1 DEF OnChain
  <2> DEFINE T == {b \in S : \E i \in Saved : b = frames[i].cont}
  <2>3. cc \in T \cup {Null}
    BY <2>2 DEF IInv, PointsInPlace, LastBelow
  <2>4. ASSUME NEW b \in T
        PROVE  mem[b].prev \in T \cup {Null}
    <3>1. PICK i \in Saved : b = frames[i].cont
      OBVIOUS
    <3>2. mem[b] # Null /\ LastBelow(i, mem[b].prev)
      BY <3>1 DEF IInv, PointsInPlace
    <3>3. mem[b].prev \in S \cup {Null}
      BY <1>2, <2>2, <3>1, <3>2
    <3>. QED
      BY <3>2, <3>3 DEF LastBelow
  <2>5. OnChain(frames[j].cont)
    BY DEF IInv, PointsInPlace
  <2>6. frames[j].cont \in T
    BY <2>3, <2>4, <2>5 DEF OnChain
  <2>. QED
    BY <2>6
<1>10. ASSUME NEW i \in Saved
       PROVE  (LET a == frames[i].cont
                   b == frames[i].base + 1
               IN  /\ a # Null /\ mem[a] # Null /\ OnChain(a)
                   /\ mem[a].jmp = frames[i].id /\ LastBelow(i, mem[a].prev)
                   /\ mem[a].arena_idx = b /\ b <= Len(arena) /\ arena[b] = a
                   /\ \A j \in DOMAIN frames : j > i => frames[j].base >= b)'
  <2>1. OnChain(frames[i].cont)'
    BY <1>9
  <2>2. LastBelow(i, mem[frames[i].cont].prev)'
    <3>1. LastBelow(i, mem[frames[i].cont].prev)
      BY DEF IInv, PointsInPlace
    <3>2. (mem[frames[i].cont].prev)' = mem[frames[i].cont].prev
      BY <1>1, <1>2
    <3>. QED
      BY <1>1, <1>3, <3>1, <3>2 DEF LastBelow
  <2>3. LET a == frames[i].cont
            b == frames[i].base + 1
        IN  /\ a # Null /\ mem[a] # Null /\ mem[a].jmp = frames[i].id
            /\ mem[a].arena_idx = b /\ b <= Len(arena) /\ arena[b] = a
            /\ \A j \in DOMAIN frames : j > i => frames[j].base >= b
    BY DEF IInv, PointsInPlace
  <2>. QED
    BY <1>1, <1>2, <2>1, <2>2, <2>3
<1>11. LastBelow(Active + 1, cc)'
  BY <1>1, <1>3 DEF IInv, PointsInPlace, LastBelow, Active
<1>12. PointsInPlace'
  BY <1>1, <1>3, <1>10, <1>11 DEF IInv, PointsInPlace
<1>. QED
  BY <1>4, <1>5, <1>6, <1>8, <1>12 DEF IInv

-----------------------------------------------------------------------------
(* The theorems.                                                           *)

(* The invariant holds at the start.                                       *)
LEMMA InitIInv == ControlInit => IInv
<1> SUFFICES ASSUME ControlInit PROVE IInv
  OBVIOUS
<1>1. ControlTypeOK
  BY ControlAssumption DEF ControlInit, ControlTypeOK
<1>2. frames = <<>> /\ DOMAIN frames = {} /\ Len(frames) = 0 /\ Len(dyn) = 0
  BY DEF ControlInit
<1>3. \A K : Positions(K) = {}
  BY <1>2 DEF Positions
<1>4. Bindings(Active + 1) = 0
  <2>1. Extenders(Active + 1) = {}
    BY <1>3 DEF Extenders
  <2>. QED
    BY <2>1, FS_EmptySet DEF Bindings
<1>5. FramesInOrder /\ EscapesInPlace
  BY <1>2 DEF ControlInit, FramesInOrder, EscapesInPlace
<1>6. PointsInPlace
  BY <1>2, <1>3 DEF ControlInit, PointsInPlace, Saved, LastBelow
<1>7. DynInPlace /\ HandlersInPlace /\ RaisesOutward
  BY <1>2, <1>3, <1>4 DEF DynInPlace, HandlersInPlace, RaisesOutward, Saved
<1>. QED
  BY <1>1, <1>5, <1>6, <1>7 DEF IInv

(* Raising keeps the invariant, whether the handler escapes or runs.       *)
LEMMA SignalKeepsIInv ==
  ASSUME IInv, NEW k \in {"raise", "continue"}, Signal(k)
  PROVE  IInv'
<1>1. CASE Handlers = <<>> /\ pc' = "panic" /\ UNCHANGED <<frames, mem, cc, arena, dyn, escapes, entered>>
  BY <1>1, SameStateKeepsIInv
<1>2. CASE Handlers # <<>> /\ OnChain(Handlers[1].cont) /\ Resume(Handlers[1].cont)
  <2>1. PICK a : a = Handlers[1].cont
    OBVIOUS
  <2>. QED
    BY <1>2, <2>1, ResumeCuts, CutKeepsIInv
<1>3. CASE /\ Handlers # <<>> /\ Push(k, Null, Handlers[1].id)
           /\ dyn' = <<Bind(Tail(Handlers))>> \o dyn
           /\ pc' \in {"run", "error"}
           /\ UNCHANGED <<mem, cc, arena, escapes>>
  <2>1. PICK h : h = Handlers[1].id
    OBVIOUS
  <2>2. PICK e : e = Bind(Tail(Handlers))
    OBVIOUS
  <2>3. e \in Environment /\ h \in Activation
    <3>1. Handlers \in Seq(Procedure) /\ Handlers[1] \in Procedure /\ Tail(Handlers) \in Seq(Procedure)
      BY <1>3, HandlersFit, HeadTailProperties
    <3>. QED
      BY <2>1, <2>2, <3>1 DEF Bind, Environment, Procedure
  <2>4. Grow(k, Null, h, e)
    BY <1>3, <2>1, <2>2, <2>3 DEF Grow, FrameKind
  <2>5. Fits(h, e) /\ e.bound /\ h # 0 /\ h <= entered
    BY <1>3, <2>1, <2>2, <2>4, SignalFits
  <2>. QED
    BY <2>4, <2>5, GrowKeepsIInv
<1>. QED
  BY <1>1, <1>2, <1>3 DEF Signal

(* So does calling any of the functions,                                   *)
LEMMA EnterKeepsIInv ==
  ASSUME IInv, EnterFunction
  PROVE  IInv'
<1>1. CASE CallCC
  <2>1. PICK a \in Addr : /\ SavePoint(a) /\ Push("callcc", a, 0)
                          /\ escapes' = escapes \cup {[id |-> entered + 1, cont |-> a]}
    BY <1>1 DEF CallCC
  <2>2. Grow("callcc", a, 0, 0)
    BY <1>1, <2>1 DEF CallCC, Grow, FrameKind, Running
  <2>. QED
    BY <2>2, GrowKeepsIInv
<1>2. CASE StartTry
  <2>1. PICK a \in Addr :
          /\ SavePoint(a) /\ Push("try", a, 0)
          /\ dyn' = <<Bind(<<[id |-> entered + 1, cont |-> a]>> \o Handlers)>> \o dyn
    BY <1>2 DEF StartTry
  <2>2. PICK e : e = Bind(<<[id |-> entered + 1, cont |-> a]>> \o Handlers)
    OBVIOUS
  <2>3. e \in Environment
    <3>1. entered + 1 \in Activation
      BY <2>1, ControlAssumption DEF Push, Activation, IInv, ControlTypeOK
    <3>2. <<[id |-> entered + 1, cont |-> a]>> \in Seq(Procedure)
      BY <3>1 DEF Procedure
    <3>3. <<[id |-> entered + 1, cont |-> a]>> \o Handlers \in Seq(Procedure)
      BY <3>2, HandlersFit, ConcatProperties
    <3>. QED
      BY <2>2, <3>3 DEF Bind, Environment
  <2>4. Grow("try", a, 0, e)
    BY <1>2, <2>1, <2>2, <2>3 DEF StartTry, Grow, FrameKind, Running
  <2>5. Fits(0, e)
    BY <2>2, <2>4, NewHandlerFits
  <2>. QED
    BY <2>4, <2>5, GrowKeepsIInv
<1>3. CASE WithHandler
  <2>1. PICK e : e = Bind(<<[id |-> entered + 1, cont |-> Null]>> \o Handlers)
    OBVIOUS
  <2>2. e \in Environment
    <3>1. entered + 1 \in Activation
      BY <1>3, ControlAssumption DEF WithHandler, Push, Activation, IInv, ControlTypeOK
    <3>2. <<[id |-> entered + 1, cont |-> Null]>> \in Seq(Procedure)
      BY <3>1 DEF Procedure
    <3>3. <<[id |-> entered + 1, cont |-> Null]>> \o Handlers \in Seq(Procedure)
      BY <3>2, HandlersFit, ConcatProperties
    <3>. QED
      BY <2>1, <3>3 DEF Bind, Environment
  <2>3. Grow("handler", Null, 0, e)
    BY <1>3, <2>1, <2>2 DEF WithHandler, Grow, FrameKind, Running
  <2>4. Fits(0, e)
    BY <2>1, <2>3, NewHandlerFits
  <2>. QED
    BY <2>3, <2>4, GrowKeepsIInv
<1>4. CASE Parameterize
  <2>1. Unbound \in Environment /\ Unbound.bound = FALSE
    BY DEF Unbound, Environment
  <2>2. Grow("param", Null, 0, Unbound)
    BY <1>4, <2>1 DEF Parameterize, Grow, FrameKind, Running
  <2>3. Fits(0, Unbound)
    BY <2>1 DEF Fits
  <2>. QED
    BY <2>2, <2>3, GrowKeepsIInv
<1>. QED
  BY <1>1, <1>2, <1>3, <1>4 DEF EnterFunction

(* and so does every way out of one.                                       *)
LEMMA LeaveKeepsIInv ==
  ASSUME IInv, LeaveFunction
  PROVE  IInv'
<1>1. CASE ThunkReturns
  <2>1. PICK i : i = Active
    OBVIOUS
  <2>2. Cut(i)
    BY <1>1, <2>1, ReturnCuts
  <2>. QED
    BY <2>2, CutKeepsIInv
<1>2. CASE HandlerReturns
  BY <1>2, SameStateKeepsIInv DEF HandlerReturns
<1>3. CASE ContCall
  <2>1. PICK k \in escapes :
          \/ OnChain(k.cont) /\ Resume(k.cont)
          \/ pc' = "error" /\ UNCHANGED <<frames, mem, cc, arena, dyn, escapes, entered>>
    BY <1>3 DEF ContCall
  <2>2. CASE OnChain(k.cont) /\ Resume(k.cont)
    BY <2>2, ResumeCuts, CutKeepsIInv
  <2>3. CASE pc' = "error" /\ UNCHANGED <<frames, mem, cc, arena, dyn, escapes, entered>>
    BY <2>3, SameStateKeepsIInv
  <2>. QED
    BY <2>1, <2>2, <2>3
<1>4. CASE Raise
  BY <1>4, SignalKeepsIInv DEF Raise
<1>5. CASE Error
  BY <1>5, SignalKeepsIInv DEF Error
<1>. QED
  BY <1>1, <1>2, <1>3, <1>4, <1>5 DEF LeaveFunction

(* The invariant holds in every state.                                     *)
THEOREM ControlInvariant == ControlSpec => []IInv
<1>1. ASSUME IInv, [ControlNext]_controlVars
      PROVE  IInv'
  <2>1. CASE EnterFunction
    BY <1>1, <2>1, EnterKeepsIInv
  <2>2. CASE LeaveFunction
    BY <1>1, <2>2, LeaveKeepsIInv
  <2>3. CASE Collect
    BY <1>1, <2>3, CollectKeepsIInv
  <2>4. CASE UNCHANGED controlVars
    BY <1>1, <2>4, SameStateKeepsIInv DEF controlVars, IInv, ControlTypeOK
  <2>. QED
    BY <1>1, <2>1, <2>2, <2>3, <2>4 DEF ControlNext
<1>. QED
  BY <1>1, InitIInv, PTL DEF ControlSpec

(* pic->cc, followed along prev, is the saved points of the C stack, and   *)
(* none of them has been freed.                                            *)
THEOREM ChainIsTheStackHolds == ControlSpec => []ChainIsTheStack
<1>1. IInv => ChainIsTheStack
  BY DEF IInv, PointsInPlace, ChainIsTheStack
<1>. QED
  BY <1>1, ControlInvariant, PTL

(* Going back to the arena index of a saved point keeps its own slot.      *)
THEOREM ArenaProtectsChainHolds == ControlSpec => []ArenaProtectsChain
<1>1. ASSUME IInv, NEW i \in Saved
      PROVE  LET a == frames[i].cont
             IN  mem[a].arena_idx \in 1 .. Len(arena) /\ arena[mem[a].arena_idx] = a
  <2>1. frames[i].base \in Nat /\ Len(arena) \in Nat
    BY <1>1, FrameTypes DEF IInv, ControlTypeOK
  <2>2. LET a == frames[i].cont
            b == frames[i].base + 1
        IN  mem[a].arena_idx = b /\ b <= Len(arena) /\ arena[b] = a
    BY <1>1 DEF IInv, PointsInPlace
  <2>. QED
    BY <2>1, <2>2
<1>2. IInv => ArenaProtectsChain
  BY <1>1 DEF ArenaProtectsChain
<1>. QED
  BY <1>2, ControlInvariant, PTL

(* The dynamic environment has an entry for every function on the C stack  *)
(* that extends it, and what a saved point recorded is its oldest part.    *)
THEOREM DynIsTheStackHolds == ControlSpec => []DynIsTheStack
<1>1. ASSUME IInv
      PROVE  Len(dyn) = Cardinality(Positions(FrameKind \ {"callcc"}))
  <2>1. Extenders(Active + 1) = Positions(FrameKind \ {"callcc"})
    BY <1>1, FrameTypes DEF IInv, Extenders, Positions, Active
  <2>. QED
    BY <1>1, <2>1 DEF IInv, DynInPlace, Bindings
<1>2. ASSUME IInv, NEW i \in Saved
      PROVE  LET d == mem[frames[i].cont].dyn
             IN  Len(d) <= Len(dyn) /\ d = SubSeq(dyn, Len(dyn) - Len(d) + 1, Len(dyn))
  <2> DEFINE d == mem[frames[i].cont].dyn
             m == Len(dyn) - Len(d) + 1
  <2>1. d \in Seq(Environment) /\ dyn \in Seq(Environment)
    <3>1. frames[i].cont \in Addr \cup {Null} /\ frames[i].cont # Null
          /\ mem[frames[i].cont] # Null
      BY <1>2, FrameTypes DEF IInv, PointsInPlace
    <3>2. mem[frames[i].cont] \in SavedPoint
      BY <1>2, <3>1 DEF IInv, ControlTypeOK
    <3>. QED
      BY <1>2, <3>2 DEF IInv, ControlTypeOK, SavedPoint
  <2>2. /\ Len(d) = Bindings(i) /\ Len(dyn) = Bindings(Active + 1)
        /\ \A t \in 1 .. Len(d) : At(d, t) = At(dyn, t)
    BY <1>2 DEF IInv, DynInPlace, Entry
  <2>3. i \in Nat /\ Active + 1 \in Nat /\ i <= Active + 1
    BY <1>2, FrameTypes DEF IInv, Active
  <2>4. Len(d) \in Nat /\ Len(dyn) \in Nat /\ Len(d) <= Len(dyn)
    BY <1>2, <2>1, <2>2, <2>3, BindingsCount DEF IInv
  <2> HIDE DEF d
  <2>5. ASSUME NEW p \in 1 .. Len(d)
        PROVE  d[p] = dyn[m + p - 1]
    <3> DEFINE t == Len(d) + 1 - p
    <3>1. /\ t \in 1 .. Len(d) /\ Len(d) + 1 - t = p
          /\ Len(dyn) + 1 - t = m + p - 1
      BY <2>4
    <3>. QED
      BY <2>2, <3>1 DEF At
  <2>6. m \in 1 .. (Len(dyn) + 1) /\ Len(dyn) + 1 - m = Len(d)
    BY <2>4
  <2> HIDE DEF m
  <2>7. /\ SubSeq(dyn, m, Len(dyn)) \in Seq(Environment)
        /\ Len(SubSeq(dyn, m, Len(dyn))) = Len(d)
        /\ \A p \in 1 .. Len(d) : SubSeq(dyn, m, Len(dyn))[p] = dyn[m + p - 1]
    BY <2>1, <2>4, <2>6, SubSeqProperties
  <2>8. d = SubSeq(dyn, m, Len(dyn))
    BY <2>1, <2>5, <2>7, SeqEqual
  <2>. QED
    BY <2>4, <2>8 DEF d, m
<1>3. IInv => DynIsTheStack
  BY <1>1, <1>2 DEF DynIsTheStack, SavedDynIsTail
<1>. QED
  BY <1>3, ControlInvariant, PTL

(* Activations tell how the frames are ordered.                            *)
LEMMA OrderOfIds ==
  ASSUME IInv, NEW i \in DOMAIN frames, NEW j \in DOMAIN frames
  PROVE  frames[i].id < frames[j].id => i < j
<1>1. /\ i \in Nat /\ j \in Nat
      /\ frames[i].id \in Nat /\ frames[j].id \in Nat
  BY FrameTypes, ControlAssumption DEF IInv, Activation
<1>2. ~(j < i) \/ frames[j].id < frames[i].id
  BY DEF IInv, FramesInOrder
<1>. QED
  BY <1>1, <1>2

(* A handler in force belongs to a function that is on the C stack, that   *)
(* of pic_try escapes to it, and one that runs has only those outside of   *)
(* it in force.                                                            *)
THEOREM HandlersLiveHolds == ControlSpec => []HandlersLive
<1>1. ASSUME IInv, NEW n \in DOMAIN Handlers, NEW h, h = Handlers[n]
      PROVE  /\ Installer(h) # {}
             /\ h.cont # Null => OnChain(h.cont) /\ mem[h.cont].jmp = h.id
  <2>1. PICK j \in Positions({"try", "handler"}) :
          frames[j].id = h.id /\ frames[j].cont = h.cont
    BY <1>1, HandlersFit DEF InstalledBelow
  <2>2. Installer(h) # {}
    BY <2>1 DEF Installer
  <2>3. ASSUME h.cont # Null
        PROVE  OnChain(h.cont) /\ mem[h.cont].jmp = h.id
    <3>1. j \in Saved
      BY <1>1, <2>1, <2>3 DEF IInv, PointsInPlace, Positions
    <3>. QED
      BY <1>1, <2>1, <3>1 DEF IInv, PointsInPlace
  <2>. QED
    BY <2>2, <2>3
<1>2. ASSUME IInv, NEW i \in Positions({"raise", "continue"}), NEW j \in DOMAIN frames,
             frames[j].id = frames[i].runs
      PROVE  /\ j < i
             /\ \A n \in DOMAIN Handlers : \A m \in Installer(Handlers[n]) : m < j \/ m > i
  <2>1. i \in DOMAIN frames /\ frames[i].runs < frames[i].id
    BY <1>2 DEF IInv, RaisesOutward, Positions
  <2>2. j < i
    BY <1>2, <2>1, OrderOfIds
  <2>3. ASSUME NEW n \in DOMAIN Handlers, NEW m \in Installer(Handlers[n])
        PROVE  m < j \/ m > i
    <3>1. m \in DOMAIN frames /\ frames[m].id = Handlers[n].id
      BY DEF Installer, Positions
    <3>2. n \in 1 .. Len(Handlers)
      BY <1>2, HandlersFit
    <3>3. frames[m].id < frames[j].id \/ frames[i].id < frames[m].id
      <4>1. Handlers[n].id < frames[i].runs \/ Handlers[n].id > frames[i].id
        BY <1>2, <3>2, HandlersFit
      <4>2. /\ frames[m].id \in Nat /\ frames[i].id \in Nat /\ frames[j].id \in Nat
        BY <1>2, <2>1, <3>1, FrameTypes, ControlAssumption DEF IInv, Activation
      <4>. QED
        BY <1>2, <3>1, <4>1, <4>2
    <3>4. m < j \/ i < m
      BY <1>2, <2>1, <3>1, <3>3, OrderOfIds
    <3>5. m \in Nat /\ i \in Nat
      BY <1>2, <2>1, <3>1, FrameTypes DEF IInv
    <3>. QED
      BY <3>4, <3>5
  <2>. QED
    BY <2>2, <2>3
<1>3. IInv => HandlersLive
  BY <1>1, <1>2 DEF HandlersLive
<1>. QED
  BY <1>3, ControlInvariant, PTL

(* An escape procedure whose call/cc is on the C stack is not refused, and *)
(* jumps into that call.                                                   *)
THEOREM LiveEscapesHold == ControlSpec => []LiveEscapes
<1>1. ASSUME IInv, NEW k \in escapes, NEW i \in Positions({"callcc"}), frames[i].id = k.id
      PROVE  OnChain(k.cont) /\ mem[k.cont].jmp = k.id
  <2>1. i \in Saved /\ i \in DOMAIN frames
    BY DEF Saved, Positions
  <2>2. frames[i].cont = k.cont
    BY <1>1, <2>1 DEF IInv, EscapesInPlace
  <2>. QED
    BY <1>1, <2>1, <2>2 DEF IInv, PointsInPlace
<1>2. IInv => LiveEscapes
  BY <1>1 DEF LiveEscapes
<1>. QED
  BY <1>2, ControlInvariant, PTL
=============================================================================
