------------------------------- MODULE Frames -------------------------------
(***************************************************************************)
(* Call frames of the virtual machine and the variables closures capture   *)
(* (lib/proc.c).  A captured variable lives in a register on the VM stack. *)
(* The first closure made by a call gets a context whose regs point at the *)
(* registers; before the frame goes away the context is torn off, that is, *)
(* the registers are copied into the context itself.  An escape tears off  *)
(* every frame, those that go on running included, so that from then on    *)
(* the frame must look for its own variables in the context.               *)
(*                                                                         *)
(* One captured variable per call stands for all of them.  Contexts are    *)
(* never freed here: that they live as long as the closures and frames     *)
(* that use them is the business of Collector.                             *)
(***************************************************************************)
EXTENDS Naturals

CONSTANTS
  Val,      \* values of variables
  MaxDepth, \* calls the VM stack has room for; one more is a panic
  MaxIds    \* bound of the runs: calls of Scheme procedures in all

ASSUME FrameAssumption == MaxDepth \in Nat /\ MaxIds \in Nat

VARIABLES
  depth, \* pic->ci - pic->cibase
  ci,    \* the call frames; those above depth are left over from earlier calls
  slot,  \* the register of the captured variable of each frame, on the VM stack
  ctx,   \* the context of each call, once it has one
  procs, \* the contexts that closures hold
  ids,   \* number of calls of Scheme procedures so far
  truth  \* what was last assigned to the variable of each call

vars == <<depth, ci, slot, ctx, procs, ids, truth>>

Id    == 1 .. MaxIds
Depth == 1 .. MaxDepth

\* "id" is the number of the call, 0 for a C function; "up" the context of the
\* procedure called, 0 at the top level; "cxt" whether ci->cxt is not NULL.  A
\* context has its registers in the frame at depth "at", or, when at is 0, in
\* its own storage.
Frame   == [id : Id \cup {0}, up : Id \cup {0}, cxt : BOOLEAN]
Context == [at : Depth \cup {0}, storage : Val, up : Id \cup {0}]

Regs(c) == IF ctx[c].at = 0 THEN ctx[c].storage ELSE slot[ctx[c].at]

\* The contexts CREF and CSET reach from the current frame, going up.
Visible ==
  {c \in Id : \A S \in SUBSET Id :
     /\ ci[depth].up \in S \cup {0}
     /\ \A s \in S : ctx[s].up \in S \cup {0}
     => c \in S}

Init ==
  /\ depth = 0 /\ ids = 0 /\ procs = {}
  /\ ci = [d \in Depth |-> [id |-> 0, up |-> 0, cxt |-> FALSE]]
  /\ \E v \in Val :
       /\ slot = [d \in Depth |-> v]
       /\ ctx = [c \in Id |-> [at |-> 0, storage |-> v, up |-> 0]]
       /\ truth = [c \in Id |-> v]

-----------------------------------------------------------------------------
\* OP_CALL from L_CALL on, of a Scheme procedure: the frame at depth d.  A call
\* that fails raises an error instead, which is an Escape.
Enter(d) ==
  /\ d \in Depth /\ ids < MaxIds
  /\ \E u \in procs \cup {0}, v \in Val :
       /\ ci' = [ci EXCEPT ![d] = [id |-> ids + 1, up |-> u, cxt |-> FALSE]]
       /\ slot' = [slot EXCEPT ![d] = v]
       /\ truth' = [truth EXCEPT ![ids + 1] = v]
  /\ depth' = d /\ ids' = ids + 1

\* The same of a C function, whose arguments take the place on the stack.
EnterFunc(d) ==
  /\ d \in Depth
  /\ ci' = [ci EXCEPT ![d] = [id |-> 0, up |-> 0, cxt |-> FALSE]]
  /\ \E v \in Val : slot' = [slot EXCEPT ![d] = v]
  /\ depth' = d
  /\ UNCHANGED <<ids, truth>>

\* vm_tear_off of the frames D.
TearOff(D) ==
  ctx' = [c \in Id |-> IF \E d \in D : ci[d].cxt /\ ci[d].id = c
                       THEN [at |-> 0, storage |-> Regs(c), up |-> ctx[c].up]
                       ELSE ctx[c]]

Call == (Enter(depth + 1) \/ EnterFunc(depth + 1)) /\ UNCHANGED <<ctx, procs>>

TailCall ==
  /\ depth > 0 /\ ci[depth].id # 0
  /\ TearOff({depth})
  /\ Enter(depth) \/ EnterFunc(depth)
  /\ UNCHANGED procs

\* Mutant: the context is left on the stack.
ReturnOver ==
  /\ depth > 0
  /\ depth' = depth - 1
  /\ UNCHANGED <<ci, slot, ctx, procs, ids, truth>>

\* OP_RET, and the return of a C function, which has no context.
Return ==
  /\ depth > 0
  /\ TearOff({depth})
  /\ depth' = depth - 1
  /\ UNCHANGED <<ci, slot, procs, ids, truth>>

\* An escape or an error: pic_load_point tears off all frames and goes back to
\* the frame of the C function that saved the point (call/cc or a pic_try).
Escape ==
  /\ \E d \in 1 .. depth : ci[d].id = 0 /\ depth' = d
  /\ TearOff(1 .. depth)
  /\ UNCHANGED <<ci, slot, procs, ids, truth>>

\* OP_LAMBDA
Lambda ==
  /\ depth > 0 /\ ci[depth].id # 0
  /\ procs' = procs \cup {ci[depth].id}
  /\ IF ci[depth].cxt
     THEN UNCHANGED <<ci, ctx>>
     ELSE /\ ci' = [ci EXCEPT ![depth].cxt = TRUE]
          /\ ctx' = [ctx EXCEPT ![ci[depth].id].at = depth,
                                ![ci[depth].id].up = ci[depth].up]
  /\ UNCHANGED <<depth, slot, ids, truth>>

\* OP_LREF and OP_LSET: where the frame at depth d keeps its own variable.
TornOff(d) == ci[d].cxt /\ ctx[ci[d].id].at = 0
Own(d) == IF TornOff(d) THEN ctx[ci[d].id].storage ELSE slot[d]

\* Mutant: the frame goes on using the stack.
LSetOnStack ==
  /\ depth > 0 /\ ci[depth].id # 0
  /\ \E v \in Val :
       /\ truth' = [truth EXCEPT ![ci[depth].id] = v]
       /\ slot' = [slot EXCEPT ![depth] = v]
  /\ UNCHANGED <<depth, ci, ctx, procs, ids>>

LSet ==
  /\ depth > 0 /\ ci[depth].id # 0
  /\ \E v \in Val :
       /\ truth' = [truth EXCEPT ![ci[depth].id] = v]
       /\ IF TornOff(depth)
          THEN ctx' = [ctx EXCEPT ![ci[depth].id].storage = v] /\ UNCHANGED slot
          ELSE slot' = [slot EXCEPT ![depth] = v] /\ UNCHANGED ctx
  /\ UNCHANGED <<depth, ci, procs, ids>>

\* OP_CSET
CSet ==
  /\ depth > 0 /\ ci[depth].id # 0
  /\ \E c \in Visible, v \in Val :
       /\ truth' = [truth EXCEPT ![c] = v]
       /\ IF ctx[c].at = 0
          THEN ctx' = [ctx EXCEPT ![c].storage = v] /\ UNCHANGED slot
          ELSE slot' = [slot EXCEPT ![ctx[c].at] = v] /\ UNCHANGED ctx
  /\ UNCHANGED <<depth, ci, procs, ids>>

Next == Call \/ TailCall \/ Return \/ Escape \/ Lambda \/ LSet \/ CSet

Spec == Init /\ [][Next]_vars

-----------------------------------------------------------------------------
TypeOK ==
  /\ depth \in 0 .. MaxDepth /\ ci \in [Depth -> Frame]
  /\ slot \in [Depth -> Val] /\ ctx \in [Id -> Context] /\ procs \subseteq Id
  /\ ids \in 0 .. MaxIds /\ truth \in [Id -> Val]

(* A captured variable is one variable: whoever looks at it, the call it   *)
(* belongs to or any closure, sees what was assigned last, by whomever and *)
(* however many calls, tail calls and escapes ago.                         *)
OneVariable ==
  /\ \A c \in procs : Regs(c) = truth[c]
  /\ \A d \in 1 .. depth : ci[d].id # 0 => Own(d) = truth[ci[d].id]

(* A context that points into the VM stack belongs to the call that is     *)
(* still active there: none points at registers that were given up.        *)
NoStaleRegisters ==
  \A c \in procs : ctx[c].at # 0 =>
    ctx[c].at <= depth /\ ci[ctx[c].at].id = c /\ ci[ctx[c].at].cxt
=============================================================================
