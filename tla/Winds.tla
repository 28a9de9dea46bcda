------------------------------- MODULE Winds -------------------------------
(***************************************************************************)
(* dynamic-wind, the call/cc that runs its thunks, and guard               *)
(* (contrib/20.r7rs/scheme/base.scm), written in Scheme over the runtime's *)
(* escape continuations.  The extents in force are the list "checkpoints"; *)
(* an escape runs the thunks between that list and the one its call/cc     *)
(* saved, and only then jumps.  An error leaves C code, eval, with a jump  *)
(* that runs no thunk at all; whoever catches it with guard comes back by  *)
(* such an escape.                                                         *)
(***************************************************************************)
EXTENDS Integers, Sequences

CONSTANTS
  MaxCalls, \* bound of the runs: calls in progress
  MaxMade   \* bound of the runs: extents and escape procedures made

ASSUME WindsAssumption == MaxCalls \in Nat /\ MaxMade \in Nat

VARIABLES
  stack,       \* calls in progress, innermost last
  checkpoints, \* the extents in force, innermost first
  saved,       \* escape procedures the program has
  made,        \* extents and escape procedures so far
  status,      \* "run", "error" while one is in flight, "over"
  inside,      \* the extents that were entered and not left
  chain,       \* the extents that each extent was entered in, itself first
  astray       \* whether a thunk that do-wind runs was left by a jump

windVars == <<stack, checkpoints, saved, made, status, inside, chain, astray>>

Extent == 1 .. MaxMade
Extents(list) == {list[i] : i \in DOMAIN list}

\* A call: of dynamic-wind in its three stages, of call/cc, guard and eval, of
\* an escape procedure, and of a thunk from do-wind.  "here" is the list that
\* the do-wind of an escape has reached, "raised" has the list at the error
\* that a guard takes.  "inside" is auxiliary: the extents that were in force
\* when do-wind called the thunk.
WindCall(k, n) ==
  [kind |-> k, id |-> n, save |-> checkpoints, here |-> <<>>, raised |-> {},
   inside |-> {}]
EscapeTo(n, save, raised) ==
  [kind |-> "escape", id |-> n, save |-> save, here |-> checkpoints,
   raised |-> raised, inside |-> {}]

Innermost == stack[Len(stack)]
InProgram == status = "run" /\ (stack # <<>> => Innermost.kind # "escape")
Calls(K)  == {i \in DOMAIN stack : stack[i].kind \in K}

\* Where the call/cc or guard of an escape procedure is on the stack, or 0.
Target(n) ==
  LET at == {i \in Calls({"callcc", "guard"}) : stack[i].id = n}
  IN  IF at = {} THEN 0 ELSE CHOOSE i \in at : TRUE

LeavesThunk(i) == \E j \in Calls({"thunk"}) : j > i

Begin(f) == Len(stack) < MaxCalls /\ stack' = Append(stack, f)
Make == made < MaxMade /\ made' = made + 1

-----------------------------------------------------------------------------
(* do-wind, from the list "here" to the list "save": as long as the first  *)
(* is not a part of the second it leaves the innermost extent of "here",   *)
(* then it enters those of "save", the outermost first.                    *)
Outer(list, n) == SubSeq(list, Len(list) - n + 1, Len(list))

Entering(e) == Len(e.here) < Len(e.save) /\ e.here = Outer(e.save, Len(e.here))

\* The extent whose thunk is next, and the list after it.
NextExtent(e) == IF Entering(e) THEN e.save[Len(e.save) - Len(e.here)] ELSE Head(e.here)
Reached(e)    == IF Entering(e) THEN Outer(e.save, Len(e.here) + 1) ELSE Tail(e.here)

-----------------------------------------------------------------------------
WindInit ==
  /\ stack = <<>> /\ checkpoints = <<>> /\ saved = {} /\ made = 0 /\ status = "run"
  /\ inside = {} /\ chain = [e \in Extent |-> <<>>] /\ astray = FALSE

(* Calls                                                                   *)

DynamicWind ==
  /\ InProgram /\ Make /\ Begin(WindCall("in", made'))
  /\ UNCHANGED <<checkpoints, saved, status, inside, chain, astray>>

SchemeCallCC ==
  /\ InProgram /\ Make /\ Begin(WindCall("callcc", made'))
  /\ saved' = saved \cup {[id |-> made', save |-> checkpoints]}
  /\ UNCHANGED <<checkpoints, status, inside, chain, astray>>

\* guard-k stays with the guard.
Guard ==
  /\ InProgram /\ Make /\ Begin(WindCall("guard", made'))
  /\ UNCHANGED <<checkpoints, saved, status, inside, chain, astray>>

\* pic_eval_eval
Eval ==
  /\ InProgram /\ Begin(WindCall("eval", 0))
  /\ UNCHANGED <<checkpoints, saved, made, status, inside, chain, astray>>

CallEscape ==
  /\ InProgram
  /\ \E k \in saved :
       /\ Begin(EscapeTo(k.id, k.save, {}))
       /\ astray' = (astray \/ LeavesThunk(Target(k.id)))
  /\ UNCHANGED <<checkpoints, saved, made, status, inside, chain>>

-----------------------------------------------------------------------------
(* Returns                                                                 *)
CutTo(i) == stack' = SubSeq(stack, 1, i)
Turn(k)  == stack' = [stack EXCEPT ![Len(stack)].kind = k]

\* "in" has returned: the thunk is called.
ReturnFromIn ==
  /\ InProgram /\ stack # <<>> /\ Innermost.kind = "in"
  /\ Turn("wind")
  /\ checkpoints' = <<Innermost.id>> \o checkpoints
  /\ inside' = inside \cup {Innermost.id}
  /\ chain' = [chain EXCEPT ![Innermost.id] = checkpoints']
  /\ UNCHANGED <<saved, made, status, astray>>

\* The thunk has returned: "out" is called.
ReturnFromThunk ==
  /\ InProgram /\ stack # <<>> /\ Innermost.kind = "wind"
  /\ Turn("out")
  /\ checkpoints' = Tail(checkpoints)
  /\ inside' = inside \ {Innermost.id}
  /\ UNCHANGED <<saved, made, status, chain, astray>>

ReturnFromCall ==
  /\ InProgram /\ stack # <<>> /\ Innermost.kind \in {"out", "callcc", "eval"}
  /\ CutTo(Len(stack) - 1)
  /\ UNCHANGED <<checkpoints, saved, made, status, inside, chain, astray>>

\* The body of a guard ends in a call of guard-k, too.
ReturnFromGuard ==
  /\ InProgram /\ stack # <<>> /\ Innermost.kind = "guard"
  /\ Begin(EscapeTo(Innermost.id, Innermost.save, {}))
  /\ UNCHANGED <<checkpoints, saved, made, status, inside, chain, astray>>

-----------------------------------------------------------------------------
(* Escapes                                                                 *)
Winding == status = "run" /\ stack # <<>> /\ Innermost.kind = "escape"

CallThunk ==
  /\ Winding /\ Innermost.here # Innermost.save
  /\ LET e == NextExtent(Innermost)
     IN  /\ inside' = IF Entering(Innermost) THEN inside ELSE inside \ {e}
         /\ Begin([WindCall("thunk", e) EXCEPT !.inside = inside'])
  /\ UNCHANGED <<checkpoints, saved, made, status, chain, astray>>

WoundThunkReturns ==
  /\ InProgram /\ stack # <<>> /\ Innermost.kind = "thunk"
  /\ LET e == stack[Len(stack) - 1]
     IN  /\ stack' = Append(SubSeq(stack, 1, Len(stack) - 2),
                            [e EXCEPT !.here = Reached(e)])
         /\ inside' = IF Entering(e) THEN inside \cup {NextExtent(e)} ELSE inside
  /\ UNCHANGED <<checkpoints, saved, made, status, chain, astray>>

\* The calls from i inwards are left; a guard none of whose clauses takes the
\* error goes back to where it was raised.
Leave(i) ==
  \/ CutTo(i - 1)
  \/ \E s \in Innermost.raised :
       stack' = Append(SubSeq(stack, 1, i - 1),
                       [EscapeTo(0, s, {}) EXCEPT !.here = Innermost.save])

\* Mutant: scheme:call/cc leaves checkpoints to the runtime.
JumpAsIs ==
  /\ Winding /\ Innermost.here = Innermost.save
  /\ LET i == Target(Innermost.id)
     IN  IF i = 0 THEN CutTo(Len(stack) - 1) /\ status' = "error"
         ELSE Leave(i) /\ status' = status
  /\ UNCHANGED <<checkpoints, saved, made, inside, chain, astray>>

\* The runtime jumps to a call/cc that has not returned, and refuses another
\* one.  handler-k, which a guard without a matching clause calls, is such
\* another one by then.
Jump ==
  /\ Winding /\ Innermost.here = Innermost.save
  /\ checkpoints' = Innermost.save
  /\ LET i == Target(Innermost.id)
     IN  IF i = 0 THEN CutTo(Len(stack) - 1) /\ status' = "error"
         ELSE Leave(i) /\ status' = status
  /\ UNCHANGED <<saved, made, inside, chain, astray>>

-----------------------------------------------------------------------------
(* Errors                                                                  *)
RaiseError ==
  /\ InProgram /\ status' = "error"
  /\ UNCHANGED <<stack, checkpoints, saved, made, inside, chain, astray>>

\* Where the handler in force on the first n calls was installed: by a guard
\* or an eval; what handles an error for a guard runs outside of it.
HandlerIn[n \in Nat] ==
  CASE n = 0 -> 0
    [] n > 0 /\ stack[n].kind \in {"guard", "eval"} -> n
    [] n > 0 /\ stack[n].raised # {} -> HandlerIn[Target(stack[n].id) - 1]
    [] OTHER -> HandlerIn[n - 1]

\* No handler, that of an eval, which raises the error again outside, or that
\* of a guard, which calls guard-k.
Handle ==
  /\ status = "error"
  /\ LET i == HandlerIn[Len(stack)]
     IN  /\ astray' = (astray \/ LeavesThunk(i))
         /\ \/ i = 0 /\ stack' = <<>> /\ status' = "over"
            \/ i \in Calls({"eval"}) /\ CutTo(i - 1) /\ status' = "error"
            \/ /\ i \in Calls({"guard"})
               /\ Begin(EscapeTo(stack[i].id, stack[i].save, {checkpoints}))
               /\ status' = "run"
  /\ UNCHANGED <<checkpoints, saved, made, inside, chain>>

WindNext ==
  \/ DynamicWind \/ SchemeCallCC \/ Guard \/ Eval \/ CallEscape
  \/ ReturnFromIn \/ ReturnFromThunk \/ ReturnFromCall \/ ReturnFromGuard
  \/ CallThunk \/ WoundThunkReturns \/ Jump \/ RaiseError \/ Handle

WindSpec == WindInit /\ [][WindNext]_windVars

-----------------------------------------------------------------------------
\* The list has the dynamic-winds on the stack, the innermost first.
WindsOnStack(list) ==
  LET W == Calls({"wind"})
  IN  /\ Extents(list) = {stack[i].id : i \in W}
      /\ \A p, q \in DOMAIN list : \A i, j \in W :
           p < q /\ list[p] = stack[i].id /\ list[q] = stack[j].id => i > j

(* Whatever jumps there were, over eval and through guards: between two    *)
(* escapes the list of checkpoints is the dynamic-winds on the stack, which *)
(* are the extents entered and not left; and an escape leaves the innermost *)
(* extent, never one that was left, and enters one from the extent it lies *)
(* in.  Only after a thunk called by do-wind was itself left by a jump, for *)
(* which checkpoints still has the extents already left, is nothing said.  *)
WindsNest ==
  ~astray /\ Calls({"thunk"}) = {} /\ status # "over" =>
    /\ status = "run" /\ Calls({"escape"}) = {} =>
         WindsOnStack(checkpoints) /\ inside = Extents(checkpoints)
    /\ Winding /\ Innermost.here # Innermost.save =>
         LET e == NextExtent(Innermost)
             c == Extents(chain[e])
         IN  IF Entering(Innermost) THEN e \notin inside /\ inside \cup {e} = c
             ELSE inside = c
=============================================================================
