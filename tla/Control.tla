------------------------------ MODULE Control ------------------------------
(***************************************************************************)
(* Escape continuations, pic_try, the dynamic environment and exceptions   *)
(* (lib/cont.c, lib/error.c, lib/var.c).  They share three stacks that     *)
(* only agree because every way out of a C function cuts them at the same  *)
(* place: the C stack, on which longjmp lands; the chain pic->cc of saved  *)
(* points; and the list pic->dyn_env of bindings.  The saved points are    *)
(* malloc'd blocks owned by data objects that only the arena keeps alive,  *)
(* so that the collector frees them, and malloc reuses their addresses,    *)
(* once the function that made them has returned.                          *)
(***************************************************************************)
EXTENDS Naturals, FiniteSets, Sequences

CONSTANTS
  Addr,     \* addresses malloc gives to a struct cont
  Null,     \* the null pointer
  MaxActive, \* bound of the runs: C functions active at one time
  MaxEntered \* bound of the runs: C functions entered in all

VARIABLES
  frames,   \* the C stack: the active calls of the functions modelled here
  mem,      \* the struct cont at each address, or Null when it is free
  cc,       \* pic->cc, the innermost saved point
  arena,    \* owners of struct conts in pic->arena, oldest first
  dyn,      \* pic->dyn_env, the innermost environment first
  escapes,  \* escape procedures the program has got hold of
  entered,  \* number of C functions entered so far
  pc        \* "run", "error" in a call of pic_error, "panic" after pic_panic

controlVars == <<frames, mem, cc, arena, dyn, escapes, entered, pc>>

(* A frame is one activation of                                            *)
(*   callcc   pic_callcc                                                   *)
(*   try      a C function inside pic_try                                  *)
(*   handler  with-exception-handler                                       *)
(*   param    parameterize: with-dynamic-environment for another variable  *)
(*   raise    pic_raise, and                                               *)
(*   continue pic_raise_continuable, running the handler "runs"            *)
(* "base" is the arena index its caller, the VM, goes back to, "cont" the  *)
(* saved point that longjmps into it, of pic_callcc and pic_try, and "runs"*)
(* the activation whose handler on_raise calls.  Escape procedures and     *)
(* handlers are records of the activation they come from and the saved     *)
(* point they escape to (none for a handler in Scheme).                    *)
Activation == 1 .. MaxEntered
Procedure  == [id : Activation, cont : Addr \cup {Null}]
FrameKind  == {"callcc", "try", "handler", "param", "raise", "continue"}
CFrame     == [kind : FrameKind, id : Activation, base : Nat,
               runs : Activation \cup {0}, cont : Addr \cup {Null}]

Active == Len(frames)
Top    == frames[Active]

\* An environment that does not bind current-exception-handlers.
Unbound == [bound |-> FALSE, handlers |-> <<>>]
Bind(hs) == [bound |-> TRUE, handlers |-> hs]
Environment == [bound : BOOLEAN, handlers : Seq(Procedure)]

\* What pic_save_point records of the state that the properties are about.
SavedPoint == [jmp : Activation, prev : Addr \cup {Null}, dyn : Seq(Environment),
               arena_idx : Nat]

ASSUME ControlAssumption ==
  /\ {MaxActive, MaxEntered} \subseteq Nat
  /\ Null \notin Addr
  /\ Null \notin SavedPoint

\* (current-exception-handlers): var_call goes down the list to the first
\* environment that binds it; pic_defvar bound the empty list at the bottom.
Handlers ==
  LET b == {i \in DOMAIN dyn : dyn[i].bound}
  IN  IF b = {} THEN <<>>
      ELSE dyn[CHOOSE i \in b : \A j \in b : i <= j].handlers

\* Mutant: cont_call looks at the innermost saved point only.
OnTop(a) == a # Null /\ cc = a

\* The loop of cont_call over pic->cc, cc->prev, ...: a is what every set has
\* that has pic->cc and, with a saved point, the one before it.
OnChain(a) ==
  /\ a # Null
  /\ \A S \in SUBSET Addr :
       /\ cc \in S \cup {Null}
       /\ \A b \in S : mem[b] # Null => mem[b].prev \in S \cup {Null}
       => a \in S

-----------------------------------------------------------------------------
ControlInit ==
  /\ frames = <<>> /\ mem = [a \in Addr |-> Null]
  /\ cc = Null /\ arena = <<>> /\ dyn = <<>>
  /\ escapes = {} /\ entered = 0 /\ pc = "run"

Running == pc = "run"

Push(k, a, h) ==
  /\ Active < MaxActive /\ entered < MaxEntered
  /\ frames' = Append(frames, [kind |-> k, id |-> entered + 1, base |-> Len(arena),
                               runs |-> h, cont |-> a])
  /\ entered' = entered + 1

\* pic_alloca_cont and pic_save_point.
SavePoint(a) ==
  /\ mem[a] = Null
  /\ arena' = Append(arena, a)
  /\ mem' = [mem EXCEPT ![a] = [jmp |-> entered + 1, prev |-> cc, dyn |-> dyn,
                                arena_idx |-> Len(arena) + 1]]
  /\ cc' = a

\* pic_callcc calls its argument with a fresh escape procedure.
CallCC ==
  /\ Running
  /\ \E a \in Addr :
       /\ SavePoint(a)
       /\ Push("callcc", a, 0)
       /\ escapes' = escapes \cup {[id |-> entered + 1, cont |-> a]}
  /\ UNCHANGED <<dyn, pc>>

\* pic_start_try
StartTry ==
  /\ Running
  /\ \E a \in Addr :
       /\ SavePoint(a)
       /\ Push("try", a, 0)
       /\ dyn' = <<Bind(<<[id |-> entered + 1, cont |-> a]>> \o Handlers)>> \o dyn
  /\ UNCHANGED <<escapes, pc>>

\* with-exception-handler
WithHandler ==
  /\ Running
  /\ Push("handler", Null, 0)
  /\ dyn' = <<Bind(<<[id |-> entered + 1, cont |-> Null]>> \o Handlers)>> \o dyn
  /\ UNCHANGED <<mem, cc, arena, escapes, pc>>

\* with-dynamic-environment for any other parameter
Parameterize ==
  /\ Running
  /\ Push("param", Null, 0)
  /\ dyn' = <<Unbound>> \o dyn
  /\ UNCHANGED <<mem, cc, arena, escapes, pc>>

\* Mutant: the arena is emptied, as when the outermost call returns.
UnwindAll(i) ==
  /\ frames' = SubSeq(frames, 1, i - 1)
  /\ arena' = <<>>

\* Frames i and above are left; the VM, at the place where frame i was called,
\* puts the arena back.
Unwind(i) ==
  /\ frames' = SubSeq(frames, 1, i - 1)
  /\ arena' = SubSeq(arena, 1, frames[i].base)

-----------------------------------------------------------------------------
(* Ways out.                                                               *)

\* Mutant: pic_end_try leaves out pic_exit_point.
ReturnKeepingPoint ==
  /\ Running
  /\ Active > 0
  /\ Top.kind # "raise"
  /\ cc' = IF Top.kind = "callcc" THEN mem[cc].prev ELSE cc
  /\ dyn' = IF Top.kind = "callcc" THEN dyn ELSE Tail(dyn)
  /\ Unwind(Active)
  /\ UNCHANGED <<mem, escapes, entered, pc>>

\* The thunk of the innermost frame returns: pic_exit_point, pic_end_try or
\* the end of with-dynamic-environment.
ThunkReturns ==
  /\ Running
  /\ Active > 0
  /\ Top.kind # "raise"
  /\ cc' = IF Top.kind \in {"callcc", "try"} THEN mem[cc].prev ELSE cc
  /\ dyn' = IF Top.kind = "callcc" THEN dyn ELSE Tail(dyn)
  /\ Unwind(Active)
  /\ UNCHANGED <<mem, escapes, entered, pc>>

\* The handler of an error that is not continuable returns: on_raise raises
\* "handler returned" where it is.
HandlerReturns ==
  /\ Running
  /\ Active > 0
  /\ Top.kind = "raise"
  /\ pc' = "error"
  /\ UNCHANGED <<frames, mem, cc, arena, dyn, escapes, entered>>

\* Mutant: pic_load_point does not put dyn_env back.
ResumeKeepingDyn(a) ==
  /\ cc' = mem[a].prev
  /\ \E i \in DOMAIN frames : frames[i].id = mem[a].jmp /\ Unwind(i)
  /\ pc' = "run"
  /\ UNCHANGED <<mem, dyn, escapes, entered>>

\* pic_load_point and longjmp: the C stack is cut at the frame that owns the
\* jump buffer, where pic_callcc returns or pic_catch is entered; either way
\* the function then returns to the VM.
Resume(a) ==
  /\ cc' = mem[a].prev
  /\ dyn' = mem[a].dyn
  /\ \E i \in DOMAIN frames : frames[i].id = mem[a].jmp /\ Unwind(i)
  /\ pc' = "run"
  /\ UNCHANGED <<mem, escapes, entered>>

\* cont_call: only the address of the saved point is looked up in the chain.
ContCall ==
  /\ Running
  /\ \E k \in escapes :
       \/ OnChain(k.cont) /\ Resume(k.cont)
       \/ /\ ~OnChain(k.cont)
          /\ pc' = "error"
          /\ UNCHANGED <<frames, mem, cc, arena, dyn, escapes, entered>>

\* Mutant: the handler runs with itself still in force.
SignalInside(k) ==
  \/ /\ Handlers = <<>>
     /\ pc' = "panic"
     /\ UNCHANGED <<frames, mem, cc, arena, dyn, escapes, entered>>
  \/ /\ Handlers # <<>> /\ OnChain(Handlers[1].cont)
     /\ Resume(Handlers[1].cont)
  \/ /\ Handlers # <<>> /\ ~OnChain(Handlers[1].cont)
     /\ Push(k, Null, Handlers[1].id)
     /\ dyn' = <<Bind(Handlers)>> \o dyn
     /\ pc' = IF Handlers[1].cont = Null THEN "run" ELSE "error"
     /\ UNCHANGED <<mem, cc, arena, escapes>>

\* pic_raise and pic_raise_continuable: the innermost handler runs with those
\* outside of it in force.  The handler of pic_try calls its continuation; it
\* is an error, raised there, when that continuation is dead.
Signal(k) ==
  \/ /\ Handlers = <<>>
     /\ pc' = "panic"
     /\ UNCHANGED <<frames, mem, cc, arena, dyn, escapes, entered>>
  \/ /\ Handlers # <<>> /\ OnChain(Handlers[1].cont)
     /\ Resume(Handlers[1].cont)
  \/ /\ Handlers # <<>> /\ ~OnChain(Handlers[1].cont)
     /\ Push(k, Null, Handlers[1].id)
     /\ dyn' = <<Bind(Tail(Handlers))>> \o dyn
     /\ pc' = IF Handlers[1].cont = Null THEN "run" ELSE "error"
     /\ UNCHANGED <<mem, cc, arena, escapes>>

Raise == Running /\ \E k \in {"raise", "continue"} : Signal(k)
Error == pc = "error" /\ Signal("raise")

\* pic_gc frees the saved points whose owner no arena slot protects.
Collect ==
  /\ pc \in {"run", "error"}
  /\ mem' = [a \in Addr |-> IF \E i \in DOMAIN arena : arena[i] = a
                            THEN mem[a] ELSE Null]
  /\ UNCHANGED <<frames, cc, arena, dyn, escapes, entered, pc>>

EnterFunction == CallCC \/ StartTry \/ WithHandler \/ Parameterize
LeaveFunction == ThunkReturns \/ HandlerReturns \/ ContCall \/ Raise \/ Error
ControlNext   == EnterFunction \/ LeaveFunction \/ Collect

ControlSpec == ControlInit /\ [][ControlNext]_controlVars

-----------------------------------------------------------------------------
(* Every variable has its type.                                            *)
ControlTypeOK ==
  /\ frames \in Seq(CFrame)
  /\ mem \in [Addr -> SavedPoint \cup {Null}] /\ cc \in Addr \cup {Null}
  /\ arena \in Seq(Addr) /\ dyn \in Seq(Environment)
  /\ escapes \subseteq Procedure /\ entered \in 0 .. MaxEntered
  /\ pc \in {"run", "error", "panic"}

Positions(K) == {i \in DOMAIN frames : frames[i].kind \in K}
Saved == Positions({"callcc", "try"})

\* a is the saved point of the last frame below i that has one.
LastBelow(i, a) ==
  \/ a = Null /\ \A j \in Saved : j >= i
  \/ \E j \in Saved : /\ j < i /\ a = frames[j].cont
                     /\ \A k \in Saved : k <= j \/ k >= i

(* pic->cc, followed along prev, is the calls of pic_callcc and of pic_try *)
(* on the C stack, innermost first: the next jump lands in a frame that    *)
(* has not returned, and every saved point of the chain is still allocated *)
(* though nothing but the arena keeps it.  And ControlTypeOK.              *)
ChainIsTheStack ==
  /\ ControlTypeOK
  /\ LastBelow(Active + 1, cc)
  /\ \A i \in Saved :
       LET a == frames[i].cont
       IN  /\ a # Null /\ mem[a] # Null
           /\ mem[a].jmp = frames[i].id /\ LastBelow(i, mem[a].prev)

(* pic_load_point would restore the arena to an index that still protects  *)
(* the saved point itself and all those of the frames further out.         *)
ArenaProtectsChain ==
  \A i \in Saved :
    LET a == frames[i].cont
    IN  mem[a].arena_idx \in 1 .. Len(arena) /\ arena[mem[a].arena_idx] = a

(* The dyn_env of a saved point, which the collector does not trace, is a  *)
(* tail of pic->dyn_env, which it does.                                    *)
SavedDynIsTail ==
  \A i \in Saved :
    LET d == mem[frames[i].cont].dyn
    IN  Len(d) <= Len(dyn) /\ d = SubSeq(dyn, Len(dyn) - Len(d) + 1, Len(dyn))

(* Whatever way control took, the dynamic environment has one entry per    *)
(* function on the C stack that extends it: bindings made inside a thunk   *)
(* that was left by an escape or an error are gone.  And SavedDynIsTail.   *)
DynIsTheStack ==
  /\ Len(dyn) = Cardinality(Positions(FrameKind \ {"callcc"}))
  /\ SavedDynIsTail

Installer(h) == {i \in Positions({"try", "handler"}) : frames[i].id = h.id}

(* A handler in force was installed by a function that has not returned,   *)
(* and the one pic_try installed escapes to that very function: the call   *)
(* of the continuation in native_exception_handler does not come back.     *)
(* And a handler runs with only the handlers outside of it in force, so    *)
(* that an error in a handler, or its return, goes outwards.               *)
HandlersLive ==
  /\ \A n \in DOMAIN Handlers :
       LET h == Handlers[n]
       IN  /\ Installer(h) # {}
           /\ h.cont # Null => OnChain(h.cont) /\ mem[h.cont].jmp = h.id
  /\ \A i \in Positions({"raise", "continue"}) :
       \A j \in DOMAIN frames : frames[j].id = frames[i].runs =>
         /\ j < i
         /\ \A n \in DOMAIN Handlers : \A m \in Installer(Handlers[n]) : m < j \/ m > i

(* An escape procedure whose call/cc has not returned is never refused,    *)
(* and resumes that call/cc.                                               *)
LiveEscapes ==
  \A k \in escapes : \A i \in Positions({"callcc"}) :
    frames[i].id = k.id => OnChain(k.cont) /\ mem[k.cont].jmp = k.id

(* "check if continuation is alive": an escape procedure whose call/cc has *)
(* returned is refused.                                                    *)
DeadEscapesRefused ==
  \A k \in escapes :
    (\A i \in DOMAIN frames : frames[i].id # k.id) => ~OnChain(k.cont)
=============================================================================
