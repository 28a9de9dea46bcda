---------------------------- MODULE FramesProofs ----------------------------
(***************************************************************************)
(* Proofs about Frames: for a VM stack of any size and any number of calls *)
(* a captured variable stays one variable, and no context points at        *)
(* registers that were given up.                                           *)
(*                                                                         *)
(* Neither is inductive by itself.  That a call leaves the contexts alone  *)
(* takes that none of them points above the top of the stack; that a frame *)
(* and the closures agree takes that the call has one frame, and a context *)
(* if and only if a closure holds it.  Known says these.                   *)
(***************************************************************************)
EXTENDS Frames, TLAPS

\* Calls have numbers of their own, a frame and its closures agree on whether
\* there is a context, and the contexts above one are held by closures too.
Known ==
  /\ \A c \in procs : c <= ids /\ ctx[c].up \in procs \cup {0}
  /\ \A d \in 1 .. depth :
       /\ ci[d].id <= ids /\ ci[d].up \in procs \cup {0}
       /\ ci[d].cxt <=> ci[d].id \in procs
  /\ \A d, e \in 1 .. depth : ci[d].id # 0 /\ ci[d].id = ci[e].id => d = e

IInv == TypeOK /\ Known /\ NoStaleRegisters /\ OneVariable

\* What the types of the variables give the other proofs.
LEMMA TypeFacts ==
  TypeOK => /\ depth \in Nat /\ depth <= MaxDepth /\ ids \in Nat
            /\ \A c \in Id : c \in Nat /\ ctx[c] \in Context /\ ctx[c].at \in Nat
            /\ \A d \in 1 .. depth : d \in Depth /\ ci[d].id \in Id \cup {0}
<1> SUFFICES ASSUME TypeOK
    PROVE  /\ depth \in Nat /\ depth <= MaxDepth /\ ids \in Nat
           /\ \A c \in Id : c \in Nat /\ ctx[c] \in Context /\ ctx[c].at \in Nat
           /\ \A d \in 1 .. depth : d \in Depth /\ ci[d].id \in Id \cup {0}
  OBVIOUS
<1>1. depth \in Nat /\ depth <= MaxDepth /\ ids \in Nat
  BY FrameAssumption DEF TypeOK
<1>2. \A c \in Id : c \in Nat /\ ctx[c] \in Context /\ ctx[c].at \in Nat
  BY DEF TypeOK, Id, Context, Depth
<1>3. \A d \in 1 .. depth : d \in Depth
  BY <1>1, FrameAssumption DEF Depth
<1>4. \A d \in Depth : ci[d] \in Frame
  BY DEF TypeOK
<1>5. \A d \in Depth : ci[d].id \in Id \cup {0}
  BY <1>4 DEF Frame
<1> QED
  BY <1>1, <1>2, <1>3, <1>5

\* Initially there are no calls and no closures (state.c, pic_open).
LEMMA InitIInv == Init => IInv
<1> SUFFICES ASSUME Init PROVE IInv
  OBVIOUS
<1>1. TypeOK
  BY FrameAssumption DEF Init, TypeOK, Id, Depth, Frame, Context
<1>2. Known
  BY DEF Init, Known
<1>3. NoStaleRegisters /\ OneVariable
  BY DEF Init, NoStaleRegisters, OneVariable
<1> QED
  BY <1>1, <1>2, <1>3 DEF IInv

\* A Scheme procedure is called: its variable is new and its frame is at d.  The
\* contexts, if a tail call has just torn one off, keep clear of that frame.
LEMMA EnterKeeps ==
  ASSUME NEW d, IInv, Enter(d), d = depth + 1 \/ d = depth,
         ctx' \in [Id -> Context], procs' = procs,
         \A c \in Id : /\ ctx'[c].up = ctx[c].up
                       /\ ctx'[c].at \in {0, ctx[c].at}
                       /\ Regs(c) = IF ctx'[c].at = 0 THEN ctx'[c].storage
                                    ELSE slot[ctx'[c].at],
         \A c \in procs : ctx'[c].at # d
  PROVE  IInv'
<1> USE FrameAssumption
<1>1. PICK u \in procs \cup {0}, v \in Val :
        /\ ci' = [ci EXCEPT ![d] = [id |-> ids + 1, up |-> u, cxt |-> FALSE]]
        /\ slot' = [slot EXCEPT ![d] = v]
        /\ truth' = [truth EXCEPT ![ids + 1] = v]
  BY DEF Enter
<1>2. depth' = d /\ ids' = ids + 1 /\ d \in Depth /\ ids + 1 \in Id
  BY DEF Enter, IInv, TypeOK, Id
<1>3. /\ depth \in Nat /\ ids \in Nat /\ d \in Nat /\ procs \subseteq Id
      /\ \A c \in Id : c \in Nat /\ ctx[c].at \in Nat
      /\ \A e \in 1 .. depth : e \in Depth /\ ci[e].id \in Id \cup {0}
  BY <1>2, TypeFacts DEF IInv, TypeOK, Depth
<1>4. /\ ci'[d] = [id |-> ids + 1, up |-> u, cxt |-> FALSE]
      /\ slot'[d] = v /\ truth'[ids + 1] = v
      /\ \A e \in Depth \ {d} : ci'[e] = ci[e] /\ slot'[e] = slot[e]
      /\ \A c \in Id \ {ids + 1} : truth'[c] = truth[c]
  BY <1>1, <1>2 DEF IInv, TypeOK
<1>5. ids + 1 \notin procs /\ \A e \in 1 .. depth : ci[e].id # ids + 1
  BY <1>3 DEF IInv, Known
<1>6. \A e \in 1 .. depth' : e = d \/ e \in (1 .. depth) \ {d}
  BY <1>2, <1>3
<1>7. TypeOK'
  BY <1>1, <1>2 DEF IInv, TypeOK, Id, Depth, Frame
<1>8. Known'
  <2>1. \A c \in procs' : c <= ids' /\ ctx'[c].up \in procs' \cup {0}
    BY <1>2, <1>3 DEF IInv, Known
  <2>2. \A e \in 1 .. depth' :
          /\ ci'[e].id <= ids' /\ ci'[e].up \in procs' \cup {0}
          /\ ci'[e].cxt <=> ci'[e].id \in procs'
    <3> SUFFICES ASSUME NEW e \in 1 .. depth'
        PROVE  /\ ci'[e].id <= ids' /\ ci'[e].up \in procs' \cup {0}
               /\ ci'[e].cxt <=> ci'[e].id \in procs'
      OBVIOUS
    <3>1. CASE e = d
      BY <3>1, <1>2, <1>3, <1>4, <1>5
    <3>2. CASE e \in (1 .. depth) \ {d}
      <4>1. ci'[e] = ci[e] /\ ci[e].id \in Nat
        BY <3>2, <1>3, <1>4
      <4>2. ci[e].id <= ids /\ ci[e].up \in procs \cup {0}
        BY <3>2 DEF IInv, Known
      <4>3. ci[e].cxt <=> ci[e].id \in procs
        BY <3>2 DEF IInv, Known
      <4>4. ci'[e].id <= ids'
        BY <4>1, <4>2, <1>2, <1>3
      <4> QED
        BY <4>1, <4>2, <4>3, <4>4
    <3> QED
      BY <3>1, <3>2, <1>6
  <2>3. \A e, f \in 1 .. depth' : ci'[e].id # 0 /\ ci'[e].id = ci'[f].id => e = f
    <3>1. \A e \in (1 .. depth) \ {d} : ci'[e].id = ci[e].id /\ ci[e].id # ids + 1
      BY <1>3, <1>4, <1>5
    <3>2. ci'[d].id = ids + 1
      BY <1>4
    <3> QED
      BY <3>1, <3>2, <1>6 DEF IInv, Known
  <2> QED
    BY <2>1, <2>2, <2>3 DEF Known
<1>9. \A c \in procs : ctx'[c].at # 0 =>
        /\ ctx'[c].at \in 1 .. depth /\ ctx'[c].at # d /\ ctx'[c].at = ctx[c].at
        /\ ci[ctx'[c].at].id = c /\ ci[ctx'[c].at].cxt
  BY <1>3 DEF IInv, NoStaleRegisters
<1>10. NoStaleRegisters'
  BY <1>2, <1>3, <1>4, <1>9 DEF NoStaleRegisters
<1>11. \A c \in procs : Regs(c)' = truth'[c]
  <2> SUFFICES ASSUME NEW c \in procs PROVE Regs(c)' = truth'[c]
    OBVIOUS
  <2>1. truth'[c] = truth[c] /\ truth[c] = Regs(c)
    BY <1>3, <1>4, <1>5 DEF IInv, OneVariable
  <2>2. ctx'[c].at # 0 => slot'[ctx'[c].at] = slot[ctx'[c].at]
    BY <1>3, <1>4, <1>9
  <2> QED
    BY <2>1, <2>2, <1>3 DEF Regs
<1>12. \A e \in 1 .. depth' : ci'[e].id # 0 => Own(e)' = truth'[ci'[e].id]
  <2> SUFFICES ASSUME NEW e \in 1 .. depth', ci'[e].id # 0
      PROVE  Own(e)' = truth'[ci'[e].id]
    OBVIOUS
  <2>1. CASE e = d
    BY <2>1, <1>4 DEF Own, TornOff
  <2>2. CASE e \in (1 .. depth) \ {d}
    <3>1. /\ ci'[e] = ci[e] /\ slot'[e] = slot[e]
          /\ ci[e].id \in Id \ {ids + 1} /\ truth'[ci[e].id] = truth[ci[e].id]
      BY <2>2, <1>3, <1>4, <1>5
    <3>2. Own(e) = truth[ci[e].id]
      BY <2>2, <3>1 DEF IInv, OneVariable
    <3>3. ci[e].cxt => Regs(ci[e].id) = truth[ci[e].id]
      BY <2>2 DEF IInv, Known, OneVariable
    <3>4. CASE TornOff(e)'
      BY <3>1, <3>3, <3>4 DEF Own, TornOff
    <3>5. CASE ~ TornOff(e)'
      BY <3>1, <3>2, <3>5 DEF Own, TornOff
    <3> QED
      BY <3>4, <3>5
  <2> QED
    BY <2>1, <2>2, <1>6
<1> QED
  BY <1>2, <1>7, <1>8, <1>10, <1>11, <1>12 DEF IInv, OneVariable

\* A C function is called in the frame at d: it has no variable to capture.
LEMMA EnterFuncKeeps ==
  ASSUME NEW d, IInv, EnterFunc(d), d = depth + 1 \/ d = depth,
         ctx' \in [Id -> Context], procs' = procs,
         \A c \in Id : /\ ctx'[c].up = ctx[c].up
                       /\ ctx'[c].at \in {0, ctx[c].at}
                       /\ Regs(c) = IF ctx'[c].at = 0 THEN ctx'[c].storage
                                    ELSE slot[ctx'[c].at],
         \A c \in procs : ctx'[c].at # d
  PROVE  IInv'
<1> USE FrameAssumption
<1>1. PICK v \in Val : slot' = [slot EXCEPT ![d] = v]
  BY DEF EnterFunc
<1>2. /\ depth' = d /\ ids' = ids /\ truth' = truth /\ d \in Depth
      /\ ci' = [ci EXCEPT ![d] = [id |-> 0, up |-> 0, cxt |-> FALSE]]
  BY DEF EnterFunc
<1>3. /\ depth \in Nat /\ ids \in Nat /\ d \in Nat /\ procs \subseteq Id
      /\ \A c \in Id : c \in Nat /\ c # 0 /\ ctx[c].at \in Nat
      /\ \A e \in 1 .. depth : e \in Depth /\ ci[e].id \in Id \cup {0}
  BY <1>2, TypeFacts DEF IInv, TypeOK, Depth, Id
<1>4. /\ ci'[d] = [id |-> 0, up |-> 0, cxt |-> FALSE]
      /\ \A e \in Depth \ {d} : ci'[e] = ci[e] /\ slot'[e] = slot[e]
  BY <1>1, <1>2 DEF IInv, TypeOK
<1>5. \A e \in 1 .. depth' : e = d \/ e \in (1 .. depth) \ {d}
  BY <1>2, <1>3
<1>6. TypeOK'
  BY <1>1, <1>2 DEF IInv, TypeOK, Id, Depth, Frame
<1>7. Known'
  <2>1. \A c \in procs' : c <= ids' /\ ctx'[c].up \in procs' \cup {0}
    BY <1>2, <1>3 DEF IInv, Known
  <2>2. \A e \in 1 .. depth' :
          /\ ci'[e].id <= ids' /\ ci'[e].up \in procs' \cup {0}
          /\ ci'[e].cxt <=> ci'[e].id \in procs'
    <3> SUFFICES ASSUME NEW e \in 1 .. depth'
        PROVE  /\ ci'[e].id <= ids' /\ ci'[e].up \in procs' \cup {0}
               /\ ci'[e].cxt <=> ci'[e].id \in procs'
      OBVIOUS
    <3>1. CASE e = d
      BY <3>1, <1>2, <1>3, <1>4
    <3>2. CASE e \in (1 .. depth) \ {d}
      <4>1. ci'[e] = ci[e]
        BY <3>2, <1>3, <1>4
      <4>2. ci[e].id <= ids /\ ci[e].up \in procs \cup {0}
        BY <3>2 DEF IInv, Known
      <4>3. ci[e].cxt <=> ci[e].id \in procs
        BY <3>2 DEF IInv, Known
      <4> QED
        BY <4>1, <4>2, <4>3, <1>2
    <3> QED
      BY <3>1, <3>2, <1>5
  <2>3. \A e, f \in 1 .. depth' : ci'[e].id # 0 /\ ci'[e].id = ci'[f].id => e = f
    BY <1>3, <1>4, <1>5 DEF IInv, Known
  <2> QED
    BY <2>1, <2>2, <2>3 DEF Known
<1>8. \A c \in procs : ctx'[c].at # 0 =>
        /\ ctx'[c].at \in 1 .. depth /\ ctx'[c].at # d /\ ctx'[c].at = ctx[c].at
        /\ ci[ctx'[c].at].id = c /\ ci[ctx'[c].at].cxt
  BY <1>3 DEF IInv, NoStaleRegisters
<1>9. NoStaleRegisters'
  BY <1>2, <1>3, <1>4, <1>8 DEF NoStaleRegisters
<1>10. \A c \in procs : Regs(c)' = truth'[c]
  <2> SUFFICES ASSUME NEW c \in procs PROVE Regs(c)' = truth'[c]
    OBVIOUS
  <2>1. truth'[c] = Regs(c)
    BY <1>2 DEF IInv, OneVariable
  <2>2. ctx'[c].at # 0 => slot'[ctx'[c].at] = slot[ctx'[c].at]
    BY <1>3, <1>4, <1>8
  <2> QED
    BY <2>1, <2>2, <1>3 DEF Regs
<1>11. \A e \in 1 .. depth' : ci'[e].id # 0 => Own(e)' = truth'[ci'[e].id]
  <2> SUFFICES ASSUME NEW e \in 1 .. depth', ci'[e].id # 0
      PROVE  Own(e)' = truth'[ci'[e].id]
    OBVIOUS
  <2>1. e \in (1 .. depth) \ {d}
    BY <1>4, <1>5
  <2>2. ci'[e] = ci[e] /\ slot'[e] = slot[e] /\ ci[e].id \in Id
    BY <2>1, <1>3, <1>4
  <2>3. Own(e) = truth[ci[e].id]
    BY <2>1, <2>2 DEF IInv, OneVariable
  <2>4. ci[e].cxt => Regs(ci[e].id) = truth[ci[e].id]
    BY <2>1 DEF IInv, Known, OneVariable
  <2>5. CASE TornOff(e)'
    BY <1>2, <2>2, <2>4, <2>5 DEF Own, TornOff
  <2>6. CASE ~ TornOff(e)'
    BY <1>2, <2>2, <2>3, <2>6 DEF Own, TornOff
  <2> QED
    BY <2>5, <2>6
<1> QED
  BY <1>2, <1>6, <1>7, <1>9, <1>10, <1>11 DEF IInv, OneVariable

\* Tearing off frames moves variables and changes none, and leaves no context
\* pointing into the frames.
LEMMA TearOffMoves ==
  ASSUME IInv, NEW D \in SUBSET (1 .. depth), TearOff(D)
  PROVE  /\ ctx' \in [Id -> Context]
         /\ \A c \in Id : /\ ctx'[c].up = ctx[c].up
                          /\ ctx'[c].at \in {0, ctx[c].at}
                          /\ Regs(c) = IF ctx'[c].at = 0 THEN ctx'[c].storage
                                       ELSE slot[ctx'[c].at]
         /\ \A c \in procs : ctx'[c].at \notin D
<1>1. /\ depth \in Nat /\ procs \subseteq Id
      /\ \A c \in Id : ctx[c] \in Context /\ ctx[c].at \in Nat
      /\ \A e \in 1 .. depth : e \in Depth
  BY TypeFacts DEF IInv, TypeOK
<1>2. \A c \in Id : Regs(c) \in Val
  BY DEF IInv, TypeOK, Context, Regs
<1> DEFINE Torn(c) == \E d \in D : ci[d].cxt /\ ci[d].id = c
<1>3. \A c \in Id :
        /\ Torn(c) => ctx'[c] = [at |-> 0, storage |-> Regs(c), up |-> ctx[c].up]
        /\ ~ Torn(c) => ctx'[c] = ctx[c]
  BY DEF TearOff
<1> HIDE DEF Torn
<1>4. ctx' \in [Id -> Context]
  <2>1. ASSUME NEW c \in Id PROVE ctx'[c] \in Context
    <3>1. CASE Torn(c)
      <4>1. ctx[c].up \in Id \cup {0}
        BY <1>1 DEF Context
      <4>2. ctx'[c] = [at |-> 0, storage |-> Regs(c), up |-> ctx[c].up]
        BY <1>3, <3>1
      <4> QED
        BY <4>1, <4>2, <1>2 DEF Context
    <3>2. CASE ~ Torn(c)
      BY <3>2, <1>1, <1>3
    <3> QED
      BY <3>1, <3>2
  <2>2. ctx' = [c \in Id |-> ctx'[c]]
    BY DEF TearOff
  <2> QED
    BY <2>1, <2>2
<1>5. ASSUME NEW c \in Id
      PROVE  /\ ctx'[c].up = ctx[c].up
             /\ ctx'[c].at \in {0, ctx[c].at}
             /\ Regs(c) = IF ctx'[c].at = 0 THEN ctx'[c].storage
                          ELSE slot[ctx'[c].at]
  <2>1. CASE Torn(c)
    <3>1. ctx'[c] = [at |-> 0, storage |-> Regs(c), up |-> ctx[c].up]
      BY <1>3, <2>1
    <3> QED
      BY <3>1
  <2>2. CASE ~ Torn(c)
    <3>1. ctx'[c] = ctx[c]
      BY <1>3, <2>2
    <3> QED
      BY <3>1 DEF Regs
  <2> QED
    BY <2>1, <2>2
<1>6. ASSUME NEW c \in procs, ctx'[c].at \in D PROVE FALSE
  <2>1. c \in Id /\ ctx'[c].at # 0
    BY <1>1, <1>6
  <2>2. ~ Torn(c) /\ ctx'[c] = ctx[c]
    <3>1. CASE Torn(c)
      <4>1. ctx'[c] = [at |-> 0, storage |-> Regs(c), up |-> ctx[c].up]
        BY <1>3, <2>1, <3>1
      <4> QED
        BY <4>1, <2>1
    <3> QED
      BY <3>1, <1>3, <2>1
  <2>3. ci[ctx[c].at].id = c /\ ci[ctx[c].at].cxt
    BY <2>1, <2>2 DEF IInv, NoStaleRegisters
  <2> QED
    BY <1>6, <2>2, <2>3 DEF Torn
<1> QED
  BY <1>4, <1>5, <1>6

\* Frames are given up, all of them torn off; D are the frames torn off.
LEMMA UnwindKeeps ==
  ASSUME IInv, NEW D \in SUBSET (1 .. depth), TearOff(D),
         depth' \in 0 .. depth, (depth' + 1) .. depth \subseteq D,
         UNCHANGED <<ci, slot, procs, ids, truth>>
  PROVE  IInv'
<1>1. /\ depth \in Nat /\ depth <= MaxDepth /\ procs \subseteq Id
      /\ \A c \in Id : ctx[c].at \in Nat
      /\ \A e \in 1 .. depth : e \in Depth /\ ci[e].id \in Id \cup {0}
  BY TypeFacts DEF IInv, TypeOK
<1>2. /\ ctx' \in [Id -> Context]
      /\ \A c \in Id : /\ ctx'[c].up = ctx[c].up
                       /\ ctx'[c].at \in {0, ctx[c].at}
                       /\ Regs(c) = IF ctx'[c].at = 0 THEN ctx'[c].storage
                                    ELSE slot[ctx'[c].at]
      /\ \A c \in procs : ctx'[c].at \notin D
  BY TearOffMoves
<1>3. depth' \in Nat /\ \A e \in 1 .. depth' : e \in 1 .. depth
  BY <1>1
<1>4. TypeOK'
  BY <1>1, <1>2, <1>3, FrameAssumption DEF IInv, TypeOK
<1>5. Known'
  BY <1>1, <1>2, <1>3 DEF IInv, Known
<1>6. NoStaleRegisters'
  <2> SUFFICES ASSUME NEW c \in procs, ctx'[c].at # 0
      PROVE  /\ ctx'[c].at <= depth'
             /\ ci[ctx'[c].at].id = c /\ ci[ctx'[c].at].cxt
    BY DEF NoStaleRegisters
  <2>1. ctx'[c].at = ctx[c].at /\ ctx[c].at \in Nat /\ ctx[c].at \notin D
    BY <1>1, <1>2
  <2>2. ctx[c].at <= depth /\ ci[ctx[c].at].id = c /\ ci[ctx[c].at].cxt
    BY <2>1 DEF IInv, NoStaleRegisters
  <2>3. ctx[c].at \notin (depth' + 1) .. depth
    BY <2>1
  <2>4. ctx[c].at <= depth'
    BY <2>1, <2>2, <2>3, <1>1, <1>3
  <2> QED
    BY <2>1, <2>2, <2>4
<1>7. \A c \in procs : Regs(c)' = truth[c]
  BY <1>1, <1>2 DEF IInv, OneVariable, Regs
<1>8. \A e \in 1 .. depth' : ci[e].id # 0 => Own(e)' = truth[ci[e].id]
  <2> SUFFICES ASSUME NEW e \in 1 .. depth', ci[e].id # 0
      PROVE  Own(e)' = truth[ci[e].id]
    OBVIOUS
  <2>1. ci[e].id \in Id /\ Own(e) = truth[ci[e].id]
    BY <1>1, <1>3 DEF IInv, OneVariable
  <2>2. ci[e].cxt => Regs(ci[e].id) = truth[ci[e].id]
    BY <1>3 DEF IInv, Known, OneVariable
  <2>3. CASE TornOff(e)'
    BY <1>2, <2>1, <2>2, <2>3 DEF Own, TornOff
  <2>4. CASE ~ TornOff(e)'
    BY <1>2, <2>1, <2>4 DEF Own, TornOff
  <2> QED
    BY <2>3, <2>4
<1> QED
  BY <1>4, <1>5, <1>6, <1>7, <1>8 DEF IInv, OneVariable

\* What CREF and CSET reach has been captured by a closure.
LEMMA VisibleIsHeld == IInv /\ depth > 0 => Visible \subseteq procs
<1> SUFFICES ASSUME IInv, depth > 0, NEW c \in Visible PROVE c \in procs
  OBVIOUS
<1>1. procs \in SUBSET Id /\ depth \in 1 .. depth
  BY TypeFacts DEF IInv, TypeOK
<1>2. ci[depth].up \in procs \cup {0} /\ \A s \in procs : ctx[s].up \in procs \cup {0}
  BY <1>1 DEF IInv, Known
<1> QED
  BY <1>1, <1>2 DEF Visible

\* A variable is assigned to, where the context or, if it is not captured yet,
\* the frame keeps it.
LEMMA SetKeeps ==
  ASSUME IInv, depth > 0, NEW c \in Id, NEW v \in Val,
         c \in procs \/ ci[depth].id = c,
         truth' = [truth EXCEPT ![c] = v],
         \/ /\ c \in procs /\ ctx[c].at = 0
            /\ ctx' = [ctx EXCEPT ![c].storage = v] /\ UNCHANGED slot
         \/ /\ c \in procs /\ ctx[c].at # 0
            /\ slot' = [slot EXCEPT ![ctx[c].at] = v] /\ UNCHANGED ctx
         \/ /\ c \notin procs
            /\ slot' = [slot EXCEPT ![depth] = v] /\ UNCHANGED ctx,
         UNCHANGED <<depth, ci, procs, ids>>
  PROVE  IInv'
<1>1. /\ depth \in Nat /\ procs \subseteq Id /\ depth \in 1 .. depth
      /\ \A b \in Id : ctx[b] \in Context /\ ctx[b].at \in Nat
      /\ \A e \in 1 .. depth : e \in Depth /\ ci[e].id \in Id \cup {0}
  BY TypeFacts DEF IInv, TypeOK
<1>2. /\ \A b \in procs : ctx[b].at # 0 =>
           ctx[b].at \in 1 .. depth /\ ci[ctx[b].at].id = b /\ ci[ctx[b].at].cxt
      /\ \A e \in 1 .. depth : ci[e].cxt <=> ci[e].id \in procs
  BY <1>1 DEF IInv, Known, NoStaleRegisters
<1>3. \A d, e \in 1 .. depth : ci[d].id # 0 /\ ci[d].id = ci[e].id => d = e
  BY DEF IInv, Known
<1>4. truth'[c] = v /\ \A b \in Id \ {c} : truth'[b] = truth[b]
  BY DEF IInv, TypeOK
<1>5. \A b \in procs : Regs(b) = truth[b]
  BY DEF IInv, OneVariable
<1>6. c # 0
  BY DEF Id
<1>7. CASE c \in procs /\ ctx[c].at = 0
  <2>1. slot' = slot /\ ctx' = [ctx EXCEPT ![c].storage = v]
    BY <1>7
  <2>2. /\ ctx'[c].storage = v /\ ctx'[c].at = 0 /\ ctx'[c].up = ctx[c].up
        /\ \A b \in Id \ {c} : ctx'[b] = ctx[b]
    BY <2>1, <1>1, <1>7 DEF IInv, TypeOK, Context
  <2>3. TypeOK'
    BY <2>1 DEF IInv, TypeOK, Context
  <2>4. Known' /\ NoStaleRegisters'
    BY <2>2, <1>1 DEF IInv, Known, NoStaleRegisters
  <2>5. \A b \in procs : Regs(b)' = truth'[b]
    BY <2>1, <2>2, <1>1, <1>4, <1>5 DEF Regs
  <2>6. \A e \in 1 .. depth : ci[e].id # 0 => Own(e)' = truth'[ci[e].id]
    <3> SUFFICES ASSUME NEW e \in 1 .. depth, ci[e].id # 0
        PROVE  Own(e)' = truth'[ci[e].id]
      OBVIOUS
    <3>1. CASE ci[e].id = c
      BY <3>1, <2>2, <1>2, <1>4, <1>7 DEF Own, TornOff
    <3>2. CASE ci[e].id # c
      <4>1. Own(e) = truth[ci[e].id] /\ ci[e].id \in Id
        BY <1>1 DEF IInv, OneVariable
      <4> QED
        BY <4>1, <3>2, <2>1, <2>2, <1>4 DEF Own, TornOff
    <3> QED
      BY <3>1, <3>2
  <2> QED
    BY <2>3, <2>4, <2>5, <2>6 DEF IInv, OneVariable
<1>8. CASE ~ (c \in procs /\ ctx[c].at = 0)
  <2>1. PICK a \in 1 .. depth : /\ ci[a].id = c
                                /\ slot' = [slot EXCEPT ![a] = v]
                                /\ ctx' = ctx
    BY <1>1, <1>2, <1>8
  <2>2. slot'[a] = v /\ \A e \in Depth \ {a} : slot'[e] = slot[e]
    BY <2>1, <1>1 DEF IInv, TypeOK
  <2>3. TypeOK'
    BY <2>1, <1>1 DEF IInv, TypeOK
  <2>4. Known' /\ NoStaleRegisters'
    BY <2>1 DEF IInv, Known, NoStaleRegisters
  <2>5. ASSUME NEW b \in procs PROVE Regs(b)' = truth'[b]
    <3>1. CASE b = c
      <4>1. ctx[c].at # 0 /\ ctx[c].at = a
        BY <3>1, <2>1, <1>2, <1>3, <1>6, <1>8
      <4> QED
        BY <4>1, <3>1, <2>1, <2>2, <1>4 DEF Regs
    <3>2. CASE b # c
      <4>1. ctx[b].at # 0 => ctx[b].at \in Depth \ {a}
        BY <3>2, <2>1, <1>1, <1>2
      <4> QED
        BY <4>1, <3>2, <2>1, <2>2, <1>1, <1>4, <1>5 DEF Regs
    <3> QED
      BY <3>1, <3>2
  <2>6. ASSUME NEW e \in 1 .. depth, ci[e].id # 0
        PROVE  Own(e)' = truth'[ci[e].id]
    <3>1. CASE e = a
      <4>1. ~ TornOff(a)
        BY <2>1, <1>2, <1>8 DEF TornOff
      <4> QED
        BY <4>1, <3>1, <2>1, <2>2, <1>4 DEF Own, TornOff
    <3>2. CASE e # a
      <4>1. ci[e].id \in Id \ {c} /\ slot'[e] = slot[e]
        BY <3>2, <2>1, <2>2, <2>6, <1>1, <1>3
      <4>2. Own(e) = truth[ci[e].id]
        BY <2>6 DEF IInv, OneVariable
      <4> QED
        BY <4>1, <4>2, <2>1, <1>4 DEF Own, TornOff
    <3> QED
      BY <3>1, <3>2
  <2> QED
    BY <2>3, <2>4, <2>5, <2>6 DEF IInv, OneVariable
<1> QED
  BY <1>7, <1>8

\* A closure is made and captures the variable of its maker (OP_LAMBDA).
LEMMA LambdaKeeps == IInv /\ Lambda => IInv'
<1> SUFFICES ASSUME IInv, Lambda PROVE IInv'
  OBVIOUS
<1> DEFINE id == ci[depth].id
<1>1. /\ depth \in Nat /\ procs \subseteq Id /\ depth \in 1 .. depth
      /\ \A b \in Id : ctx[b] \in Context /\ ctx[b].at \in Nat
      /\ \A e \in 1 .. depth : e \in Depth /\ ci[e] \in Frame /\ ci[e].id \in Id \cup {0}
  BY TypeFacts DEF IInv, TypeOK, Lambda
<1>2. id \in Id /\ id # 0 /\ procs' = procs \cup {id}
  BY <1>1 DEF Lambda
<1>3. UNCHANGED <<depth, slot, ids, truth>>
  BY DEF Lambda
<1>4. CASE ci[depth].cxt
  <2>1. UNCHANGED <<ci, ctx>>
    BY <1>4 DEF Lambda
  <2>2. procs' = procs
    BY <1>1, <1>2, <1>4 DEF IInv, Known
  <2> QED
    BY <2>1, <2>2, <1>3
    DEF IInv, TypeOK, Known, NoStaleRegisters, OneVariable, Regs, Own, TornOff
<1>5. CASE ~ ci[depth].cxt
  <2>1. /\ ci' = [ci EXCEPT ![depth].cxt = TRUE]
        /\ ctx' = [ctx EXCEPT ![id].at = depth, ![id].up = ci[depth].up]
    BY <1>5 DEF Lambda
  <2>2. /\ ci'[depth].id = id /\ ci'[depth].up = ci[depth].up /\ ci'[depth].cxt
        /\ \A e \in Depth \ {depth} : ci'[e] = ci[e]
    BY <2>1, <1>1 DEF IInv, TypeOK, Frame
  <2>3. /\ ctx'[id].at = depth /\ ctx'[id].up = ci[depth].up
        /\ \A b \in Id \ {id} : ctx'[b] = ctx[b]
    BY <2>1, <1>1, <1>2 DEF IInv, TypeOK, Context
  <2>4. id \notin procs
    BY <1>1, <1>5 DEF IInv, Known
  <2>5. \A e \in (1 .. depth) \ {depth} : e \in Depth \ {depth} /\ ci[e].id # id
    BY <1>1, <1>2 DEF IInv, Known
  <2>6. TypeOK'
    <3>1. ci' \in [Depth -> Frame]
      BY <2>1, <1>1 DEF IInv, TypeOK, Frame
    <3>2. ctx' \in [Id -> Context]
      <4>1. ci[depth].up \in Id \cup {0}
        BY <1>1 DEF Frame
      <4> QED
        BY <4>1, <2>1, <1>1, <1>2 DEF IInv, TypeOK, Context
    <3> QED
      BY <3>1, <3>2, <1>1, <1>2, <1>3 DEF IInv, TypeOK
  <2>7. Known'
    <3>1. ci[depth].up \in procs \cup {0} /\ id <= ids
      BY <1>1 DEF IInv, Known
    <3>2. \A b \in procs' : b <= ids /\ ctx'[b].up \in procs' \cup {0}
      BY <3>1, <2>3, <2>4, <1>1, <1>2 DEF IInv, Known
    <3>3. \A e \in 1 .. depth :
            /\ ci'[e].id <= ids /\ ci'[e].up \in procs' \cup {0}
            /\ ci'[e].cxt <=> ci'[e].id \in procs'
      BY <3>1, <2>2, <2>5, <1>1, <1>2 DEF IInv, Known
    <3>4. \A d, e \in 1 .. depth : ci'[d].id # 0 /\ ci'[d].id = ci'[e].id => d = e
      BY <2>2, <2>5, <1>1 DEF IInv, Known
    <3> QED
      BY <3>2, <3>3, <3>4, <1>3 DEF Known
  <2>8. NoStaleRegisters'
    <3> SUFFICES ASSUME NEW b \in procs', ctx'[b].at # 0
        PROVE  /\ ctx'[b].at <= depth
               /\ ci'[ctx'[b].at].id = b /\ ci'[ctx'[b].at].cxt
      BY <1>3 DEF NoStaleRegisters
    <3>1. CASE b = id
      BY <3>1, <2>2, <2>3, <1>1
    <3>2. CASE b # id
      <4>1. b \in procs /\ ctx'[b] = ctx[b]
        BY <3>2, <2>3, <1>1, <1>2
      <4>2. /\ ctx[b].at \in 1 .. depth /\ ctx[b].at # depth
            /\ ci[ctx[b].at].id = b /\ ci[ctx[b].at].cxt
        BY <4>1, <3>2, <1>1 DEF IInv, NoStaleRegisters
      <4> QED
        BY <4>1, <4>2, <2>2, <2>5
    <3> QED
      BY <3>1, <3>2
  <2>9. \A b \in procs' : Regs(b)' = truth[b]
    <3>1. slot[depth] = truth[id]
      BY <1>1, <1>2, <1>5 DEF IInv, OneVariable, Own, TornOff
    <3> QED
      BY <3>1, <2>3, <1>1, <1>2, <1>3 DEF IInv, OneVariable, Regs
  <2>10. \A e \in 1 .. depth : ci'[e].id # 0 => Own(e)' = truth[ci'[e].id]
    <3>1. slot[depth] = truth[id]
      BY <1>1, <1>2, <1>5 DEF IInv, OneVariable, Own, TornOff
    <3>2. ~ TornOff(depth)'
      BY <2>2, <2>3, <1>1, <1>3 DEF TornOff
    <3>3. Own(depth)' = truth[id]
      BY <3>1, <3>2, <1>3 DEF Own
    <3>4. ASSUME NEW e \in (1 .. depth) \ {depth}, ci[e].id # 0
          PROVE  Own(e)' = truth[ci[e].id]
      <4>1. ci'[e] = ci[e] /\ ctx'[ci[e].id] = ctx[ci[e].id]
        BY <3>4, <2>2, <2>3, <2>5, <1>1
      <4> QED
        BY <4>1, <3>4, <1>3 DEF IInv, OneVariable, Own, TornOff
    <3>5. ASSUME NEW e \in 1 .. depth, ci'[e].id # 0
          PROVE  Own(e)' = truth[ci'[e].id]
      <4>1. CASE e = depth
        BY <4>1, <3>3, <2>2, <1>3 DEF Own, TornOff
      <4>2. CASE e # depth
        <5>1. e \in (1 .. depth) \ {depth} /\ ci'[e] = ci[e] /\ ci[e].id # 0
          BY <4>2, <3>5, <2>2, <2>5
        <5> QED
          BY <5>1, <3>4
      <4> QED
        BY <4>1, <4>2
    <3> QED
      BY <3>5
  <2> QED
    BY <2>6, <2>7, <2>8, <2>9, <2>10, <1>3 DEF IInv, OneVariable
<1> QED
  BY <1>4, <1>5

\* The invariant holds after every instruction.
LEMMA NextKeeps == IInv /\ [Next]_vars => IInv'
<1> SUFFICES ASSUME IInv, [Next]_vars PROVE IInv'
  OBVIOUS
<1>1. /\ depth \in Nat /\ procs \subseteq Id /\ ctx \in [Id -> Context]
      /\ \A c \in Id : ctx[c].at \in Nat
      /\ \A e \in 1 .. depth : ci[e].id \in Id \cup {0}
  BY TypeFacts DEF IInv, TypeOK
<1>2. \A c \in procs : ctx[c].at <= depth
  BY <1>1 DEF IInv, NoStaleRegisters
<1>3. CASE Call
  <2>1. /\ ctx' = ctx /\ procs' = procs
        /\ \A c \in procs : ctx'[c].at # depth + 1
    BY <1>1, <1>2, <1>3 DEF Call
  <2>2. \A c \in Id : Regs(c) = IF ctx'[c].at = 0 THEN ctx'[c].storage
                                ELSE slot[ctx'[c].at]
    BY <2>1 DEF Regs
  <2>3. CASE Enter(depth + 1)
    BY <2>1, <2>2, <2>3, <1>1, EnterKeeps
  <2>4. CASE EnterFunc(depth + 1)
    BY <2>1, <2>2, <2>4, <1>1, EnterFuncKeeps
  <2> QED
    BY <2>3, <2>4, <1>3 DEF Call
<1>4. CASE TailCall
  <2>1. {depth} \in SUBSET (1 .. depth) /\ TearOff({depth}) /\ procs' = procs
    BY <1>1, <1>4 DEF TailCall
  <2>2. /\ ctx' \in [Id -> Context]
        /\ \A c \in Id : /\ ctx'[c].up = ctx[c].up
                         /\ ctx'[c].at \in {0, ctx[c].at}
                         /\ Regs(c) = IF ctx'[c].at = 0 THEN ctx'[c].storage
                                      ELSE slot[ctx'[c].at]
        /\ \A c \in procs : ctx'[c].at # depth
    BY <2>1, TearOffMoves
  <2>3. CASE Enter(depth)
    BY <2>1, <2>2, <2>3, EnterKeeps
  <2>4. CASE EnterFunc(depth)
    BY <2>1, <2>2, <2>4, EnterFuncKeeps
  <2> QED
    BY <2>3, <2>4, <1>4 DEF TailCall
<1>5. CASE Return
  <2>1. /\ {depth} \in SUBSET (1 .. depth) /\ TearOff({depth})
        /\ depth' \in 0 .. depth /\ (depth' + 1) .. depth \subseteq {depth}
        /\ UNCHANGED <<ci, slot, procs, ids, truth>>
    BY <1>1, <1>5 DEF Return
  <2> QED
    BY <2>1, UnwindKeeps
<1>6. CASE Escape
  <2>1. /\ TearOff(1 .. depth) /\ depth' \in 0 .. depth
        /\ (depth' + 1) .. depth \subseteq 1 .. depth
        /\ UNCHANGED <<ci, slot, procs, ids, truth>>
    BY <1>1, <1>6 DEF Escape
  <2> QED
    BY <2>1, UnwindKeeps
<1>7. CASE Lambda
  BY <1>7, LambdaKeeps
<1>8. CASE LSet
  <2>1. PICK v \in Val :
          /\ truth' = [truth EXCEPT ![ci[depth].id] = v]
          /\ IF TornOff(depth)
             THEN ctx' = [ctx EXCEPT ![ci[depth].id].storage = v] /\ UNCHANGED slot
             ELSE slot' = [slot EXCEPT ![depth] = v] /\ UNCHANGED ctx
    BY <1>8 DEF LSet
  <2>2. /\ depth > 0 /\ ci[depth].id \in Id
        /\ UNCHANGED <<depth, ci, procs, ids>>
    BY <1>1, <1>8 DEF LSet
  <2>3. ci[depth].cxt <=> ci[depth].id \in procs
    BY <2>2, <1>1 DEF IInv, Known
  <2>4. ci[depth].id \in procs /\ ctx[ci[depth].id].at # 0
          => ctx[ci[depth].id].at = depth
    <3> SUFFICES ASSUME ci[depth].id \in procs, ctx[ci[depth].id].at # 0
        PROVE  ctx[ci[depth].id].at = depth
      OBVIOUS
    <3>1. /\ ctx[ci[depth].id].at \in 1 .. depth
          /\ ci[ctx[ci[depth].id].at].id = ci[depth].id
      BY <1>1, <1>2, <2>2 DEF IInv, NoStaleRegisters
    <3>2. ci[depth].id # 0 /\ depth \in 1 .. depth
      BY <2>2, <1>1, <1>8 DEF LSet
    <3> QED
      BY <3>1, <3>2 DEF IInv, Known
  <2>5. CASE TornOff(depth)
    <3>1. /\ ci[depth].id \in procs /\ ctx[ci[depth].id].at = 0
          /\ ctx' = [ctx EXCEPT ![ci[depth].id].storage = v] /\ UNCHANGED slot
      BY <2>1, <2>3, <2>5 DEF TornOff
    <3> QED
      BY <3>1, <2>1, <2>2, SetKeeps
  <2>6. CASE ~ TornOff(depth)
    <3>1. slot' = [slot EXCEPT ![depth] = v] /\ UNCHANGED ctx
      BY <2>1, <2>6
    <3>2. CASE ci[depth].id \in procs
      <4>1. ctx[ci[depth].id].at # 0
        BY <3>2, <2>3, <2>6 DEF TornOff
      <4> QED
        BY <4>1, <3>1, <3>2, <2>1, <2>2, <2>4, SetKeeps
    <3>3. CASE ci[depth].id \notin procs
      BY <3>1, <3>3, <2>1, <2>2, SetKeeps
    <3> QED
      BY <3>2, <3>3
  <2> QED
    BY <2>5, <2>6
<1>9. CASE CSet
  <2>1. PICK c \in Visible, v \in Val :
          /\ truth' = [truth EXCEPT ![c] = v]
          /\ IF ctx[c].at = 0
             THEN ctx' = [ctx EXCEPT ![c].storage = v] /\ UNCHANGED slot
             ELSE slot' = [slot EXCEPT ![ctx[c].at] = v] /\ UNCHANGED ctx
    BY <1>9 DEF CSet
  <2>2. depth > 0 /\ UNCHANGED <<depth, ci, procs, ids>>
    BY <1>9 DEF CSet
  <2>3. c \in procs /\ c \in Id
    BY <2>2, <1>1, VisibleIsHeld
  <2> QED
    BY <2>1, <2>2, <2>3, SetKeeps
<1>10. CASE UNCHANGED vars
  BY <1>10
  DEF vars, IInv, TypeOK, Known, NoStaleRegisters, OneVariable, Regs, Own, TornOff
<1> QED
  BY <1>3, <1>4, <1>5, <1>6, <1>7, <1>8, <1>9, <1>10 DEF Next

\* The inductive invariant holds in every state the VM can reach.
THEOREM Invariance == Spec => []IInv
<1>1. Init => IInv
  BY InitIInv
<1>2. IInv /\ [Next]_vars => IInv'
  BY NextKeeps
<1> QED
  BY <1>1, <1>2, PTL DEF Spec

\* A captured variable is one variable, through calls, tail calls, returns and
\* escapes in any order (lib/proc.c, vm_tear_off, OP_LREF to OP_CSET).
THEOREM CapturedIsOneVariable == Spec => []OneVariable
<1>1. IInv => OneVariable
  BY DEF IInv
<1> QED
  BY <1>1, Invariance, PTL

\* No context points at registers of a call that is over (lib/proc.c, OP_RET,
\* OP_TAILCALL, pic_vm_tear_off).
THEOREM ContextsAreSound == Spec => []NoStaleRegisters
<1>1. IInv => NoStaleRegisters
  BY DEF IInv
<1> QED
  BY <1>1, Invariance, PTL
=============================================================================
