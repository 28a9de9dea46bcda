------------------------------ MODULE Compiler ------------------------------
(***************************************************************************)
(* The compiler (lib/ext/eval.c:373-1206): from an expanded form to an     *)
(* irep, in the four passes of pic_compile.  pic_optimize turns the        *)
(* application of a lambda into definitions; pic_normalize collects the    *)
(* variables a body defines; pic_analyze resolves every variable to a      *)
(* global, a register or a register of an enclosing activation, and finds  *)
(* the captured variables; pic_codegen emits the code.  The analysis keeps *)
(* no state but the captures, and is done here where the code is emitted.  *)
(* Operands stand in the instructions; the pools they are kept in are left *)
(* out.                                                                    *)
(***************************************************************************)
EXTENDS Syntax, SequencesExt

RECURSIVE optimize_beta(_)
\* ((lambda (x ...) body) a ...) => (begin (define x a) ... body)
optimize_beta(f) ==
  IF f.t # "list" \/ f.s = <<>> \/ Is(f, "core#quote") THEN f
  ELSE IF Is(f, "core#lambda") THEN Lambda(f.s[2], optimize_beta(f.s[3]))
  ELSE LET e == [i \in DOMAIN f.s |-> optimize_beta(f.s[i])]
       IN  IF Is(e[1], "core#lambda") /\ e[1].s[2].t = "list"
              /\ Len(e[1].s[2].s) = Len(e) - 1
           THEN FoldRight(LAMBDA d, b : Begin(d, b),
                          [i \in DOMAIN Tail(e) |->
                             Define(e[1].s[2].s[i], e[i + 1])],
                          e[1].s[3])
           ELSE List(e)

\* The variables a body defines, in the order normalize meets them.
RECURSIVE Defined(_)
Defined(f) ==
  IF f.t # "list" \/ f.s = <<>> \/ Is(f, "core#quote") \/ Is(f, "core#lambda")
  THEN <<>>
  ELSE (IF Is(f, "core#define") THEN <<f.s[2]>> ELSE <<>>)
       \o FlattenSeq([i \in DOMAIN f.s |-> Defined(f.s[i])])

\* Each once, the last one found first.
Locals(f) ==
  FoldLeft(LAMBDA l, x : IF \E i \in DOMAIN l : l[i] = x THEN l ELSE <<x>> \o l,
           <<>>, Defined(f))

RECURSIVE normalize(_)
normalize(f) ==
  IF f.t # "list" \/ f.s = <<>> \/ Is(f, "core#quote") THEN f
  ELSE IF Is(f, "core#define") THEN SetTo(f.s[2], normalize(f.s[3]))
  ELSE IF Is(f, "core#lambda")
       THEN Lambda(f.s[2], [t |-> "let", locals |-> Locals(f.s[3]),
                            body |-> normalize(f.s[3])])
  ELSE List([i \in DOMAIN f.s |-> normalize(f.s[i])])

\* The variables of a form that it does not bind itself.
RECURSIVE Free(_)
Free(f) ==
  CASE f.t = "sym" -> {f}
    [] f.t = "list" /\ Is(f, "core#quote") -> {}
    [] f.t = "list" /\ Is(f, "core#lambda") ->
         Free(f.s[3].body) \ (ToSet(Formals(f.s[2])) \cup ToSet(Rest(f.s[2]))
                              \cup ToSet(f.s[3].locals))
    [] f.t = "list" /\ ~Is(f, "core#quote") /\ ~Is(f, "core#lambda") ->
         UNION {Free(f.s[i]) : i \in DOMAIN f.s}
    [] OTHER -> {}

\* The variables that the lambdas of a body take from it.
RECURSIVE FreeInLambdas(_)
FreeInLambdas(f) ==
  IF f.t # "list" \/ Is(f, "core#quote") THEN {}
  ELSE IF Is(f, "core#lambda") THEN Free(f)
  ELSE UNION {FreeInLambdas(f.s[i]) : i \in DOMAIN f.s}

-----------------------------------------------------------------------------
(* An activation record is laid out as the arguments from 1 on, the locals *)
(* (a rest argument first) and copies of the captured variables.           *)

\* codegen_context_init of a normalized lambda; the order of the captures is
\* that of a dictionary.
context(f) ==
  LET args   == Formals(f.s[2])
      locals == Rest(f.s[2]) \o f.s[3].locals
  IN  [args |-> args, locals |-> locals, varg |-> Rest(f.s[2]) # <<>>,
       captures |-> SetToSeq(FreeInLambdas(f.s[3].body)
                             \cap (ToSet(args) \cup ToSet(locals)))]

TopContext == [args |-> <<>>, locals |-> <<>>, varg |-> FALSE, captures |-> <<>>]

\* The index of x in s, from 0 on, or -1.
IndexIn(s, x) ==
  LET at == {i \in DOMAIN s : s[i] = x}
  IN  IF at = {} THEN -1 ELSE (CHOOSE i \in at : \A j \in at : i <= j) - 1

index_capture(cxts, x, depth) == IndexIn(cxts[depth + 1].captures, x)

index_local(c, x) ==
  LET a == IndexIn(c.args, x)
  IN  IF a # -1 THEN a + 1 ELSE IndexIn(c.locals, x) + Len(c.args) + 1

\* find_var: how many contexts up x is bound; the outermost holds no variable.
find_var(cxts, x) ==
  LET at == {i \in DOMAIN cxts : x \in ToSet(cxts[i].args) \cup ToSet(cxts[i].locals)}
  IN  IF at = {} THEN Len(cxts) - 1
      ELSE (CHOOSE i \in at : \A j \in at : i <= j) - 1

Ins(op)         == [op |-> op]
Ins1(op, a)     == [op |-> op, a |-> a]
Ins2(op, a, b)  == [op |-> op, a |-> a, b |-> b]
emit_ret(tail)  == IF tail THEN <<Ins("RET")>> ELSE <<>>

\* Mutant: only arguments before the rest argument are copied.
CopyPositional(c) ==
  [i \in DOMAIN c.captures |->
     LET n == index_local(c, c.captures[i])
     IN  IF n <= Len(c.args) THEN Ins1("LREF", n) ELSE Ins1("PUSH", Undef)]

\* The captured arguments are copied, other captured variables start undefined.
create_activation(c) ==
  [i \in DOMAIN c.captures |->
     LET n == index_local(c, c.captures[i])
     IN  IF n <= Len(c.args) \/ (c.varg /\ n = Len(c.args) + 1)
         THEN Ins1("LREF", n) ELSE Ins1("PUSH", Undef)]

\* analyze_var, codegen_ref and the second half of codegen_set
variable(ref, cxts, x) ==
  LET depth == find_var(cxts, x)
      i     == index_capture(cxts, x, 0)
  IN  IF depth = Len(cxts) - 1 THEN Ins1("G" \o ref, x)
      ELSE IF depth > 0
           THEN Ins2("C" \o ref, depth, index_capture(cxts, x, depth))
      ELSE Ins1("L" \o ref,
                IF i # -1 THEN i + Len(cxts[1].args) + Len(cxts[1].locals) + 1
                ELSE index_local(cxts[1], x))

pic_vm_proc ==
  {<<"cons", 2>>, <<"car", 1>>, <<"cdr", 1>>, <<"null?", 1>>, <<"symbol?", 1>>,
   <<"pair?", 1>>, <<"not", 1>>, <<"=", 2>>, <<"<", 2>>, <<"<=", 2>>, <<">", 2>>,
   <<">=", 2>>, <<"+", 2>>, <<"-", 2>>, <<"*", 2>>, <<"/", 2>>}
Builtins == {p[1] : p \in pic_vm_proc}

IsGlobal(cxts, f) == f.t = "sym" /\ find_var(cxts, f) = Len(cxts) - 1

\* Generated code and the ireps of the lambdas in it; n numbers the first.
Code(code, irep) == [code |-> code, irep |-> irep]
Then(x, y) == Code(x.code \o y.code, x.irep \o y.irep)

RECURSIVE codegen(_, _, _, _), codegen_all(_, _, _)

codegen_all(s, cxts, n) ==
  IF s = <<>> THEN Code(<<>>, <<>>)
  ELSE LET h == codegen(Head(s), cxts, FALSE, n)
       IN  Then(h, codegen_all(Tail(s), cxts, n + Len(h.irep)))

codegen_lambda(f, cxts) ==
  LET c    == context(f)
      body == codegen(f.s[3].body, <<c>> \o cxts, TRUE, 0)
  IN  [argc |-> Len(c.args) + 1, varg |-> c.varg, localc |-> Len(c.locals),
       capturec |-> Len(c.captures),
       code |-> create_activation(c) \o body.code, irep |-> body.irep]

codegen_if(f, cxts, tail, n) ==
  LET test == codegen(f.s[2], cxts, FALSE, n)
      no   == codegen(f.s[4], cxts, tail, n + Len(test.irep))
      yes  == codegen(f.s[3], cxts, tail, n + Len(test.irep) + Len(no.irep))
  IN  Code(test.code \o <<Ins1("JMPIF", Len(no.code) + 2)>> \o no.code
             \o <<Ins1("JMP", Len(yes.code) + 1)>> \o yes.code,
           test.irep \o no.irep \o yes.irep)

codegen_begin(f, cxts, tail, n) ==
  LET a == codegen(f.s[2], cxts, FALSE, n)
      b == codegen(f.s[3], cxts, tail, n + Len(a.irep))
  IN  Code(a.code \o <<Ins("POP")>> \o b.code, a.irep \o b.irep)

\* Mutant: a call in tail position is a call and a return.
CallAndReturn(f, cxts, tail, n) ==
  IF IsGlobal(cxts, f.s[1]) /\ <<f.s[1].name, Len(f.s) - 1>> \in pic_vm_proc
  THEN LET a == codegen_all(Tail(f.s), cxts, n)
       IN  Code(a.code \o <<Ins1("OP", f.s[1].name)>> \o emit_ret(tail), a.irep)
  ELSE LET a == codegen_all(f.s, cxts, n)
       IN  Code(a.code \o <<Ins1("CALL", Len(f.s))>> \o emit_ret(tail), a.irep)

\* Calls of the primitives of the VM by their global names are inlined.
codegen_call(f, cxts, tail, n) ==
  IF IsGlobal(cxts, f.s[1]) /\ <<f.s[1].name, Len(f.s) - 1>> \in pic_vm_proc
  THEN LET a == codegen_all(Tail(f.s), cxts, n)
       IN  Code(a.code \o <<Ins1("OP", f.s[1].name)>> \o emit_ret(tail), a.irep)
  ELSE LET a == codegen_all(f.s, cxts, n)
       IN  Code(a.code \o <<Ins1(IF tail THEN "TAILCALL" ELSE "CALL", Len(f.s))>>,
                a.irep)

codegen(f, cxts, tail, n) ==
  CASE f.t = "sym" ->
         Code(<<variable("REF", cxts, f)>> \o emit_ret(tail), <<>>)
    [] f.t # "sym" /\ f.t # "list" ->
         Code(<<Ins1("PUSH", f)>> \o emit_ret(tail), <<>>)
    [] Is(f, "core#quote") ->
         Code(<<Ins1("PUSH", f.s[2])>> \o emit_ret(tail), <<>>)
    [] Is(f, "core#set!") ->
         LET x == codegen(f.s[3], cxts, FALSE, n)
         IN  Code(x.code \o <<variable("SET", cxts, f.s[2])>> \o emit_ret(tail),
                  x.irep)
    [] Is(f, "core#lambda") ->
         Code(<<Ins1("LAMBDA", n)>> \o emit_ret(tail), <<codegen_lambda(f, cxts)>>)
    [] Is(f, "core#if")    -> codegen_if(f, cxts, tail, n)
    [] Is(f, "core#begin") -> codegen_begin(f, cxts, tail, n)
    [] OTHER               -> codegen_call(f, cxts, tail, n)

\* codegen_set refuses to assign the primitives it inlines.
RECURSIVE Overrides(_)
Overrides(f) ==
  IF f.t = "let" THEN Overrides(f.body)
  ELSE IF f.t # "list" \/ Is(f, "core#quote") THEN FALSE
  ELSE (Is(f, "core#set!") /\ f.s[2].name \in Builtins)
       \/ \E i \in DOMAIN f.s : Overrides(f.s[i])

\* pic_compile: the irep of a form, or none, and the globals it defines, which
\* normalize has made uninitialized by then.
pic_compile(f) ==
  LET o == optimize_beta(f)
      g == normalize(o)
      c == codegen(g, <<TopContext>>, TRUE, 0)
  IN  [defines |-> ToSet(Defined(o)), ok |-> ~Overrides(g),
       irep |-> [argc |-> 1, varg |-> FALSE, localc |-> 0, capturec |-> 0,
                 code |-> c.code, irep |-> c.irep]]
=============================================================================
