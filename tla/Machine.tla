------------------------------ MODULE Machine ------------------------------
(***************************************************************************)
(* The virtual machine running compiled programs (lib/proc.c:347-805), at  *)
(* the level of its memory: the value stack with what is left over above   *)
(* sp, the call frames with those left over above pic->ci, contexts, and   *)
(* the C functions that call back into it: values, apply, call-with-values *)
(* and call/cc (lib/cont.c).  pic_apply nests: "calls" are the C functions *)
(* that wait for an activation of it.                                      *)
(*                                                                         *)
(* A program is a sequence of forms; eval expands, compiles and runs each  *)
(* in turn (pic_eval_eval), those after one that fails included.           *)
(***************************************************************************)
EXTENDS Expander, Compiler

CONSTANTS
  Programs,   \* the programs that run
  StackSize   \* PIC_STACK_SIZE

ASSUME SizeAssumption == StackSize \in Nat \ {0}

VARIABLES
  program, \* the program that runs
  answers, \* the values of its forms evaluated so far, or errors
  exp,     \* the expander's state
  ireps,   \* the irep of each form
  globals, \* pic->globals
  stack, sp, ci, top,  \* the VM stack, and call frames 0 to top = pic->ci
  cxts,    \* contexts
  ip,      \* the next instruction
  label,   \* where in pic_apply the VM is
  chain,   \* pic->cc and the saved points it links, outermost first
  conts,   \* saved points made so far
  calls    \* what each active pic_apply was called for

vars == <<program, answers, exp, ireps, globals, stack, sp, ci, top, cxts, ip,
          label, chain, conts, calls>>

-----------------------------------------------------------------------------
(* Code.  An irep is named by its path: the form, then the child numbers.  *)
(* pic_apply boots with CALL, STOP; pic_applyk returns past a NOP, which is *)
(* never run, to TAILCALL.                                                 *)
Boot  == <<-1>>
Applyk == <<-2>>

Irep(path) ==
  FoldLeft(LAMBDA r, k : r.irep[k + 1], ireps[path[1]], Tail(path))

CodeOf(path) ==
  CASE path = Boot   -> <<Ins("CALL"), Ins("STOP")>>
    [] path = Applyk -> <<Ins("NOP"), Ins1("TAILCALL", -1)>>
    [] OTHER         -> Irep(path).code

At(path, pc) == [path |-> path, pc |-> pc]
Label(l, n, v) == [l |-> l, n |-> n, v |-> v]
Next1 == Label("next", 0, Undef)    \* NEXT: fetch an instruction
Goto(n) == ip' = [ip EXCEPT !.pc = @ + n] /\ label' = Next1

Insn == CodeOf(ip.path)[ip.pc]

\* No instruction runs when pushes have left the stack: PUSH does not test its end,
\* and what the code then writes is undefined.
IsInsn(op) == label.l = "next" /\ sp <= StackSize /\ Insn.op = op

Frame == ci[top]
NoCxt == 0

Store(st, a, s) ==
  [i \in DOMAIN st |-> IF i \in a .. a + Len(s) - 1 THEN s[i - a + 1] ELSE st[i]]
Cells(st, a, n) == [i \in 1 .. n |-> st[a + i - 1]]

\* PUSH and POP n values.
Push(n, v) == stack' = Store(stack, sp - n, <<v>>) /\ sp' = sp - n + 1
Pop == stack[sp - 1]

Func(name) == [t |-> "func", name |-> name, k |-> 0]
IsProc(v) == v.t \in {"func", "irep"}

\* Registers of a context: on the stack, or in its own storage once torn off.
Torn(c) == cxts[c].regs = -1

\* Mutant: nothing is copied.
TearNothing(D) == cxts

\* vm_tear_off of the frames D.
vm_tear_off(D) ==
  [c \in DOMAIN cxts |->
     IF ~Torn(c) /\ \E d \in D : ci[d].cxt = c
     THEN [cxts[c] EXCEPT !.storage = Cells(stack, cxts[c].regs, cxts[c].regc),
                          !.regs = -1]
     ELSE cxts[c]]

\* An error is caught by the pic_try of pic_eval_eval and raised again, to a
\* caller of eval that goes on with the next form, as the REPL does.  What the
\* handlers leave above sp and pic->ci is never read.
Fail(msg) ==
  /\ answers' = Append(answers, [t |-> "error"])
  /\ cxts' = vm_tear_off(1 .. top)
  /\ sp' = chain[1].sp /\ top' = chain[1].ci /\ ip' = chain[1].ip
  /\ calls' = SubSeq(calls, 1, chain[1].calls)
  /\ chain' = <<>>
  /\ label' = Label("eval", 0, Undef)
  /\ UNCHANGED <<program, exp, ireps, globals, stack, ci, conts>>

\* pic_apply up to its first instruction, the call.
Apply(proc, args, why) ==
  /\ stack' = Store(stack, sp, <<proc>> \o args)
  /\ sp' = sp + 1 + Len(args)
  /\ ip' = At(Boot, 1)
  /\ label' = Label("call", Len(args) + 1, Undef)
  /\ calls' = Append(calls, why)

-----------------------------------------------------------------------------
Primitives == Builtins \cup {"list", "values", "apply", "call-with-values", "call/cc"}

Init ==
  /\ program \in Programs
  /\ answers = <<>> /\ exp = InitialExpander /\ ireps = <<>>
  /\ globals = [g \in {Sym(p) : p \in Primitives} |-> Func(g.name)]
  /\ stack = [a \in 0 .. StackSize - 1 |-> Undef] /\ sp = 0 /\ top = 0
  /\ ci = [d \in 0 .. StackSize |->
             [argc |-> 0, retc |-> 0, ip |-> At(Boot, 1), fp |-> 0, irep |-> Boot,
              cxt |-> NoCxt, regc |-> 0, regs |-> 0, up |-> NoCxt]]
  /\ cxts = <<>> /\ ip = At(Boot, 1) /\ label = Label("eval", 0, Undef)
  /\ chain = <<>> /\ conts = 0 /\ calls = <<>>

\* normalize: the globals a form defines become uninitialized.
DefineGlobals(defs) ==
  [g \in DOMAIN globals \cup defs |-> IF g \in defs THEN Invalid ELSE globals[g]]

\* pic_save_point
Point(k) == [k |-> k, sp |-> sp, ci |-> top, ip |-> ip, calls |-> Len(calls)]

\* pic_eval_eval of the next form, after pic_start_try.
Eval ==
  /\ label.l = "eval" /\ Len(answers) < Len(program)
  /\ LET x == pic_expand(program[Len(answers) + 1], Top, exp)
         c == pic_compile(x.v)
     IN  /\ exp' = x.st /\ ireps' = Append(ireps, c.irep)
         /\ globals' = DefineGlobals(c.defines)
         /\ IF c.ok
            THEN /\ chain' = Append(chain, Point(0))
                 /\ Apply([t |-> "irep", path |-> <<Len(ireps) + 1>>, cxt |-> NoCxt],
                          <<>>, "eval")
                 /\ UNCHANGED answers
            ELSE \* tried to override built-in procedure
                 /\ answers' = Append(answers, [t |-> "error"])
                 /\ UNCHANGED <<stack, sp, ip, label, chain, calls>>
  /\ UNCHANGED <<program, ci, top, cxts, conts>>

-----------------------------------------------------------------------------
(* Instructions                                                            *)

PushConst == IsInsn("PUSH") /\ Push(0, Insn.a) /\ Goto(1)
  /\ UNCHANGED <<program, answers, exp, ireps, globals, ci, top, cxts, chain,
                 conts, calls>>

PopValue == IsInsn("POP") /\ sp' = sp - 1 /\ Goto(1)
  /\ UNCHANGED <<program, answers, exp, ireps, globals, stack, ci, top, cxts,
                 chain, conts, calls>>

\* pic_global_ref
GRef ==
  /\ IsInsn("GREF")
  /\ IF Insn.a \in DOMAIN globals /\ globals[Insn.a] # Invalid
     THEN /\ Push(0, globals[Insn.a]) /\ Goto(1)
          /\ UNCHANGED <<program, answers, exp, ireps, globals, ci, top, cxts,
                         chain, conts, calls>>
     ELSE Fail("undefined or uninitialized variable")

\* pic_global_set
GSet ==
  /\ IsInsn("GSET")
  /\ IF Insn.a \in DOMAIN globals
     THEN /\ globals' = [globals EXCEPT ![Insn.a] = Pop]
          /\ Push(1, Undef) /\ Goto(1)
          /\ UNCHANGED <<program, answers, exp, ireps, ci, top, cxts, chain, conts,
                         calls>>
     ELSE Fail("undefined variable")

\* A register of a context.
Reg(c, i) == IF Torn(c) THEN cxts[c].storage[i + 1] ELSE stack[cxts[c].regs + i]

\* Whether the current frame finds its register a in the context.
InStorage(a) ==
  /\ Frame.cxt # NoCxt /\ Torn(Frame.cxt)
  /\ a >= Irep(Frame.irep).argc + Irep(Frame.irep).localc

LRef ==
  /\ IsInsn("LREF") /\ Goto(1)
  /\ Push(0, IF InStorage(Insn.a)
             THEN Reg(Frame.cxt, Insn.a - (Frame.regs - Frame.fp))
             ELSE stack[Frame.fp + Insn.a])
  /\ UNCHANGED <<program, answers, exp, ireps, globals, ci, top, cxts, chain,
                 conts, calls>>

LSet ==
  /\ IsInsn("LSET") /\ Goto(1) /\ sp' = sp
  /\ IF InStorage(Insn.a)
     THEN /\ cxts' = [cxts EXCEPT ![Frame.cxt].storage
                               [Insn.a - (Frame.regs - Frame.fp) + 1] = Pop]
          /\ stack' = Store(stack, sp - 1, <<Undef>>)
     ELSE /\ stack' = [stack EXCEPT ![Frame.fp + Insn.a] = Pop, ![sp - 1] = Undef]
          /\ UNCHANGED cxts
  /\ UNCHANGED <<program, answers, exp, ireps, globals, ci, top, chain, conts, calls>>

\* The context "depth" levels up from the current frame.
Up(depth) ==
  LET u[d \in 1 .. depth] == IF d = 1 THEN Frame.up ELSE cxts[u[d - 1]].up
  IN  u[depth]

CRef ==
  /\ IsInsn("CREF") /\ Goto(1) /\ Push(0, Reg(Up(Insn.a), Insn.b))
  /\ UNCHANGED <<program, answers, exp, ireps, globals, ci, top, cxts, chain,
                 conts, calls>>

CSet ==
  /\ IsInsn("CSET") /\ Goto(1) /\ sp' = sp
  /\ LET c == Up(Insn.a) IN
     IF Torn(c)
     THEN /\ cxts' = [cxts EXCEPT ![c].storage[Insn.b + 1] = Pop]
          /\ stack' = Store(stack, sp - 1, <<Undef>>)
     ELSE /\ stack' = [stack EXCEPT ![cxts[c].regs + Insn.b] = Pop, ![sp - 1] = Undef]
          /\ UNCHANGED cxts
  /\ UNCHANGED <<program, answers, exp, ireps, globals, ci, top, chain, conts, calls>>

Jmp == IsInsn("JMP") /\ Goto(Insn.a)
  /\ UNCHANGED <<program, answers, exp, ireps, globals, stack, sp, ci, top, cxts,
                 chain, conts, calls>>

JmpIf ==
  /\ IsInsn("JMPIF") /\ sp' = sp - 1
  /\ Goto(IF Pop # False THEN Insn.a ELSE 1)
  /\ UNCHANGED <<program, answers, exp, ireps, globals, stack, ci, top, cxts,
                 chain, conts, calls>>

\* The primitives of pic_vm_proc and list, or "error".
Result(name, a) ==
  LET ints == \A i \in DOMAIN a : a[i].t = "int"
      err  == [t |-> "error"]
      number(v) == IF ints THEN v ELSE err
  IN  CASE name = "list" -> ListOf(a)
        [] name = "cons" -> Pair(a[1], a[2])
        [] name = "car" -> IF a[1].t = "pair" THEN a[1].car ELSE err
        [] name = "cdr" -> IF a[1].t = "pair" THEN a[1].cdr ELSE err
        [] name = "null?" -> Bool(a[1] = NilV)
        [] name = "symbol?" -> Bool(a[1].t = "sym")
        [] name = "pair?" -> Bool(a[1].t = "pair")
        [] name = "not" -> Bool(a[1] = False)
        [] name = "+" -> number(Num(a[1].v + a[2].v))
        [] name = "-" -> number(Num(a[1].v - a[2].v))
        [] name = "=" -> number(Bool(a[1].v = a[2].v))
        [] name = "<" -> number(Bool(a[1].v < a[2].v))
        [] OTHER -> err

Arity(name) == IF name = "list" THEN -1 ELSE
  (CHOOSE p \in pic_vm_proc : p[1] = name)[2]

\* OP_CONS to OP_GT
Operate ==
  /\ IsInsn("OP")
  /\ LET n == Arity(Insn.a)
         v == Result(Insn.a, Cells(stack, sp - n, n))
     IN  IF v.t = "error" THEN Fail("wrong type")
         ELSE /\ Push(n, v) /\ Goto(1)
              /\ UNCHANGED <<program, answers, exp, ireps, globals, ci, top, cxts,
                             chain, conts, calls>>

\* vm_push_cxt, when the frame has no context yet.
MakeLambda ==
  /\ IsInsn("LAMBDA") /\ Goto(1)
  /\ LET c == IF Frame.cxt = NoCxt THEN Len(cxts) + 1 ELSE Frame.cxt
     IN  /\ IF Frame.cxt = NoCxt
            THEN /\ ci' = [ci EXCEPT ![top].cxt = c]
                 /\ cxts' = Append(cxts, [regs |-> Frame.regs, regc |-> Frame.regc,
                                          up |-> Frame.up,
                                          storage |-> [i \in 1 .. Frame.regc |-> Undef]])
            ELSE UNCHANGED <<ci, cxts>>
         /\ Push(0, [t |-> "irep", path |-> Append(Frame.irep, Insn.a), cxt |-> c])
  /\ UNCHANGED <<program, answers, exp, ireps, globals, top, chain, conts, calls>>

-----------------------------------------------------------------------------
(* Calls and returns.  A call that finds the stack full panics, which ends  *)
(* the process: no action is possible then.                                *)

\* The operand -1 means the values that the discarded frame returned.
Passed(n) == IF n = -1 THEN ci[top + 1].retc + 1 ELSE n
SpFor(n)  == IF n = -1 THEN sp + ci[top + 1].retc - 1 ELSE sp

CallInsn ==
  /\ IsInsn("CALL") /\ label' = Label("call", Insn.a, Undef)
  /\ UNCHANGED <<program, answers, exp, ireps, globals, stack, sp, ci, top, cxts,
                 ip, chain, conts, calls>>

\* OP_TAILCALL: the arguments move down over the frame, then L_CALL.
TailCall ==
  /\ IsInsn("TAILCALL")
  /\ LET n == Passed(Insn.a)
     IN  /\ stack' = Store(stack, Frame.fp, Cells(stack, SpFor(Insn.a) - n, n))
         /\ sp' = Frame.fp + n
         /\ label' = Label("call", n, Undef)
  /\ cxts' = vm_tear_off({top})
  /\ ip' = Frame.ip /\ top' = top - 1
  /\ UNCHANGED <<program, answers, exp, ireps, globals, ci, chain, conts, calls>>

\* L_CALL: the frame of a call of n values, the procedure first.
NewFrame(n, proc) ==
  [argc |-> n, retc |-> 1, ip |-> ip, fp |-> sp - n, cxt |-> NoCxt,
   irep |-> IF proc.t = "irep" THEN proc.path ELSE Boot,
   up   |-> IF proc.t = "irep" THEN proc.cxt ELSE ci[top + 1].up,
   regc |-> IF proc.t = "irep" THEN Irep(proc.path).capturec ELSE ci[top + 1].regc,
   regs |-> IF proc.t = "irep"
            THEN sp - n + Irep(proc.path).argc + Irep(proc.path).localc
            ELSE ci[top + 1].regs]

\* Of a procedure: a rest argument is gathered, the locals start undefined.
EnterProc ==
  /\ label.l = "call" /\ sp < StackSize
  /\ LET n == label.n
         proc == stack[sp - n]
         r == Irep(proc.path)
         rest == IF r.varg
                 THEN <<ListOf(Cells(stack, sp - n + r.argc, n - r.argc))>> ELSE <<>>
         locals == [i \in 1 .. r.localc - Len(rest) |-> Undef]
     IN  /\ proc.t = "irep"
         /\ IF n = r.argc \/ (r.varg /\ n >= r.argc)
            THEN /\ ci' = [ci EXCEPT ![top + 1] = NewFrame(n, proc)]
                 /\ top' = top + 1
                 /\ stack' = Store(stack, sp - n + r.argc, rest \o locals)
                 /\ sp' = sp - n + r.argc + r.localc
                 /\ ip' = At(proc.path, 1) /\ label' = Next1
                 /\ UNCHANGED <<program, answers, exp, ireps, globals, cxts, chain,
                                conts, calls>>
            ELSE Fail("wrong number of arguments")

EnterFunc ==
  /\ label.l = "call" /\ sp < StackSize
  /\ LET proc == stack[sp - label.n]
     IN  /\ proc.t = "func"
         /\ ci' = [ci EXCEPT ![top + 1] = NewFrame(label.n, proc)]
         /\ top' = top + 1
         /\ label' = Label("func", 0, Undef)
  /\ UNCHANGED <<program, answers, exp, ireps, globals, stack, sp, cxts, ip, chain,
                 conts, calls>>

CallOther ==
  /\ label.l = "call"
  /\ ~IsProc(stack[sp - label.n])
  /\ Fail("invalid application")

\* L_RET: retc values at retv become the result of the frame that returns.
Leave(st, retv, retc) ==
  /\ stack' = Store(st, Frame.fp, Cells(st, retv, IF retc = 0 THEN 1 ELSE retc))
  /\ sp' = Frame.fp + 1
  /\ top' = top - 1
  /\ ip' = [Frame.ip EXCEPT !.pc = @ + 1] /\ label' = Next1

Ret ==
  /\ IsInsn("RET")
  /\ cxts' = vm_tear_off({top})
  /\ Leave(stack, sp - 1, 1)
  /\ UNCHANGED <<program, answers, exp, ireps, globals, ci, chain, conts, calls>>

\* A C function has returned the value v.
FuncReturn ==
  /\ label.l = "ret"
  /\ Leave(Store(stack, sp, <<label.v>>), sp, Frame.retc)
  /\ UNCHANGED <<program, answers, exp, ireps, globals, ci, cxts, chain, conts, calls>>

-----------------------------------------------------------------------------
(* C functions                                                             *)

Running(name) == label.l = "func" /\ stack[Frame.fp].name = name
Args == Cells(stack, Frame.fp + 1, Frame.argc - 1)
Return(v) == label' = Label("ret", 0, v)

\* values: the values go above sp, their number into the frame.
values(args, d) ==
  /\ stack' = Store(stack, sp, args)
  /\ ci' = [ci EXCEPT ![d].retc = Len(args)]
  /\ Return(IF args = <<>> THEN Undef ELSE args[1])

ValuesFunc ==
  /\ Running("values") /\ values(Args, top)
  /\ UNCHANGED <<program, answers, exp, ireps, globals, sp, top, cxts, ip, chain,
                 conts, calls>>

Primitive ==
  /\ label.l = "func" /\ stack[Frame.fp].name \in Builtins \cup {"list"}
  /\ LET name == stack[Frame.fp].name
         v == IF Arity(name) \in {-1, Len(Args)} THEN Result(name, Args)
              ELSE [t |-> "error"]
     IN  IF v.t = "error" THEN Fail("wrong type or number of arguments")
         ELSE /\ Return(v)
              /\ UNCHANGED <<program, answers, exp, ireps, globals, stack, sp, ci,
                             top, cxts, ip, chain, conts, calls>>

\* pic_applyk: a frame that has "returned" the arguments above proc, into code
\* that calls it in the place of the C function.
applyk(proc, args) ==
  /\ stack' = Store(stack, sp, <<proc>> \o args)
  /\ sp' = sp + 1 /\ top' = top + 1
  /\ ci' = [ci EXCEPT ![top + 1].ip = At(Applyk, 1), ![top + 1].fp = sp + 1,
                      ![top + 1].retc = Len(args)]
  /\ Return(IF args = <<>> THEN Undef ELSE args[1])

ApplyFunc ==
  /\ Running("apply")
  /\ IF Len(Args) >= 2 /\ IsProc(Args[1]) /\ IsList(Args[Len(Args)])
     THEN /\ applyk(Args[1], SubSeq(Args, 2, Len(Args) - 1)
                             \o Elements(Args[Len(Args)]))
          /\ UNCHANGED <<program, answers, exp, ireps, globals, cxts, ip, chain,
                         conts, calls>>
     ELSE Fail("apply")

CallWithValues ==
  /\ Running("call-with-values")
  /\ IF Len(Args) = 2 /\ IsProc(Args[1]) /\ IsProc(Args[2])
     THEN /\ Apply(Args[1], <<>>, "call-with-values")
          /\ UNCHANGED <<program, answers, exp, ireps, globals, ci, top, cxts, chain,
                         conts>>
     ELSE Fail("call-with-values")

\* pic_callcc: the saved point, and the call of its argument.
CallCC ==
  /\ Running("call/cc")
  /\ IF Len(Args) = 1 /\ IsProc(Args[1])
     THEN /\ chain' = Append(chain, Point(conts + 1))
          /\ conts' = conts + 1
          /\ Apply(Args[1], <<[t |-> "func", name |-> "cont", k |-> conts + 1]>>,
                   "call/cc")
          /\ UNCHANGED <<program, answers, exp, ireps, globals, ci, top, cxts>>
     ELSE Fail("call/cc")

\* cont_call: pic_load_point, longjmp, and values in the frame of call/cc.
Escape ==
  /\ Running("cont")
  /\ LET k == stack[Frame.fp].k
         at == {i \in DOMAIN chain : chain[i].k = k}
     IN  IF at = {} THEN Fail("calling dead escape continuation")
         ELSE LET i == CHOOSE i \in at : TRUE
                  p == chain[i]
              IN  /\ cxts' = vm_tear_off(1 .. top)
                  /\ sp' = p.sp /\ top' = p.ci /\ ip' = p.ip
                  /\ chain' = SubSeq(chain, 1, i - 1)
                  /\ calls' = SubSeq(calls, 1, p.calls)
                  /\ stack' = Store(stack, p.sp, Args)
                  /\ ci' = [ci EXCEPT ![p.ci].retc = Len(Args)]
                  /\ Return(IF Args = <<>> THEN Undef ELSE Args[1])
                  /\ UNCHANGED <<program, answers, exp, ireps, globals, conts>>

\* Mutant: call/cc returns and leaves its saved point on the chain.
KeepPoint == chain

pic_exit_point == SubSeq(chain, 1, Len(chain) - 1)

\* OP_STOP: pic_apply returns the value on top of the stack to the C function
\* that called it.
Returned(why) ==
  /\ IsInsn("STOP") /\ calls[Len(calls)] = why
  /\ calls' = SubSeq(calls, 1, Len(calls) - 1)

StopEval ==
  /\ Returned("eval")
  /\ sp' = sp - 1 /\ answers' = Append(answers, Pop)
  /\ label' = Label("eval", 0, Undef)
  /\ chain' = pic_exit_point
  /\ UNCHANGED <<program, exp, ireps, globals, stack, ci, top, cxts, ip, conts>>

StopCallCC ==
  /\ Returned("call/cc")
  /\ sp' = sp - 1 /\ Return(Pop)
  /\ chain' = pic_exit_point
  /\ UNCHANGED <<program, answers, exp, ireps, globals, stack, ci, top, cxts, ip, conts>>

\* pic_receive: the values the discarded frame returned.
pic_receive == Cells(stack, ci[top + 1].fp, ci[top + 1].retc)

StopProducer ==
  /\ Returned("call-with-values")
  /\ LET vs == pic_receive
         consumer == Args[2]
     IN  /\ stack' = Store(stack, sp - 1, <<consumer>> \o vs)
         /\ sp' = sp /\ top' = top + 1
         /\ ci' = [ci EXCEPT ![top + 1].ip = At(Applyk, 1), ![top + 1].fp = sp,
                             ![top + 1].retc = Len(vs)]
         /\ Return(IF vs = <<>> THEN Undef ELSE vs[1])
  /\ UNCHANGED <<program, answers, exp, ireps, globals, cxts, ip, chain, conts>>

-----------------------------------------------------------------------------
Halted == label.l = "eval" /\ Len(answers) = Len(program)

\* What pic_apply and the C functions do once a form runs.
Step ==
  \/ PushConst \/ PopValue \/ GRef \/ GSet \/ LRef \/ LSet \/ CRef \/ CSet
  \/ Jmp \/ JmpIf \/ Operate \/ MakeLambda
  \/ CallInsn \/ TailCall \/ EnterProc \/ EnterFunc \/ CallOther
  \/ Ret \/ FuncReturn
  \/ ValuesFunc \/ Primitive \/ ApplyFunc \/ CallWithValues \/ CallCC \/ Escape
  \/ StopEval \/ StopCallCC \/ StopProducer

Next == Eval \/ Step

Spec == Init /\ [][Next]_vars /\ WF_vars(Step)
=============================================================================
