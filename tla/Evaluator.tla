----------------------------- MODULE Evaluator -----------------------------
(***************************************************************************)
(* What a program means, for comparison with what the expander, the        *)
(* compiler and the virtual machine make of it: an evaluator in the style  *)
(* of the report, over the forms as they were read.  Variables are found   *)
(* by lexical scope, macros are special forms, several values are several  *)
(* values wherever they are passed on, and an escape is a result of its    *)
(* own kind that every expression but the call/cc it belongs to passes on. *)
(***************************************************************************)
EXTENDS Machine

\* The state: the values of local variables, the globals, the macros by name,
\* and the escapes that may still be called.
InitialState ==
  [store |-> <<>>, globals |-> [g \in {p : p \in Primitives} |-> Func(g)],
   macros |-> [u \in {} |-> ""], live |-> {}, made |-> 0]

\* Results: values, an escape to "to" with values, or an error.
Values(vs, s) == [k |-> "values", vs |-> vs, to |-> 0, s |-> s]
Jump(to, vs, s) == [k |-> "jump", vs |-> vs, to |-> to, s |-> s]
Error(s) == [k |-> "error", vs |-> <<>>, to |-> 0, s |-> s]
IsValues(r) == r.k = "values"

\* A continuation of one value takes the first of several.
One(r) == IF r.vs = <<>> THEN Undef ELSE r.vs[1]

\* The variables a body defines itself.
RECURSIVE BodyDefines(_)
BodyDefines(f) ==
  IF f.t # "list" \/ f.s = <<>> \/ Is(f, "core#quote") \/ Is(f, "core#lambda")
  THEN {}
  ELSE (IF Is(f, "core#define") THEN {f.s[2].name} ELSE {})
       \cup UNION {BodyDefines(f.s[i]) : i \in DOMAIN f.s}

RECURSIVE Evaluate(_, _, _), EvaluateAll(_, _, _), Invoke(_, _, _)

EvaluateAll(fs, env, s) ==
  IF fs = <<>> THEN Values(<<>>, s)
  ELSE LET h == Evaluate(Head(fs), env, s)
           r == EvaluateAll(Tail(fs), env, h.s)
       IN  IF ~IsValues(h) THEN h ELSE IF ~IsValues(r) THEN r
           ELSE Values(<<One(h)>> \o r.vs, r.s)

Lookup(x, env, s) ==
  IF x \in DOMAIN env THEN Values(<<s.store[env[x]]>>, s)
  ELSE IF x \in DOMAIN s.globals /\ s.globals[x] # Invalid
       THEN Values(<<s.globals[x]>>, s)
  ELSE Error(s)

Assign(x, v, env, s) ==
  IF x \in DOMAIN env THEN Values(<<Undef>>, [s EXCEPT !.store[env[x]] = v])
  ELSE IF x \in DOMAIN s.globals
       THEN Values(<<Undef>>, [s EXCEPT !.globals[x] = v])
  ELSE Error(s)

\* A definition outside any procedure makes a global; inside, the variable was
\* made when the procedure was entered.
Bound(x, v, env, s) ==
  IF x \in DOMAIN env THEN Assign(x, v, env, s)
  ELSE Values(<<Undef>>, [s EXCEPT !.globals = (x :> v) @@ @])

\* The globals a form defines are uninitialized until it does so, and macros
\* no more.
Defining(xs, s) ==
  [s EXCEPT !.globals = [x \in xs |-> Invalid] @@ @,
            !.macros = [m \in DOMAIN @ \ xs |-> @[m]]]

EvaluateForm(f, env, s) ==
  LET head == IF f.s[1].t = "sym" /\ f.s[1].name \notin DOMAIN env
              THEN f.s[1].name ELSE ""
      a == Evaluate(f.s[2], env, s)
  IN  CASE head = "core#quote" -> Values(<<f.s[2]>>, s)
        [] head = "core#lambda" ->
             Values(<<[t |-> "closure", formals |-> f.s[2], body |-> f.s[3],
                       env |-> env]>>, s)
        [] head = "core#define-macro" ->
             Values(<<Undef>>, [s EXCEPT !.macros = (f.s[2].name :> f.s[3].mac) @@ @])
        [] head \in {"core#set!", "core#define"} ->
             LET r == Evaluate(f.s[3], env, s)
             IN  IF ~IsValues(r) THEN r
                 ELSE IF head = "core#define"
                      THEN Bound(f.s[2].name, One(r), env, r.s)
                      ELSE Assign(f.s[2].name, One(r), env, r.s)
        [] head = "core#if" ->
             IF ~IsValues(a) THEN a
             ELSE Evaluate(IF One(a) # False THEN f.s[3] ELSE f.s[4], env, a.s)
        [] head = "core#begin" ->
             IF ~IsValues(a) THEN a ELSE Evaluate(f.s[3], env, a.s)
        [] head \in DOMAIN s.macros ->
             IF ~IsValues(a) THEN a
             ELSE IF s.macros[head] = "dup"
                  THEN LET b == Evaluate(f.s[2], env, a.s)
                       IN  IF ~IsValues(b) THEN b
                           ELSE Values(<<Pair(One(a), One(b))>>, b.s)
                  ELSE IF One(a) # False THEN Values(<<One(a)>>, a.s)
                  ELSE Evaluate(f.s[3], env, a.s)
        [] OTHER ->
             LET r == EvaluateAll(f.s, env, s)
             IN  IF ~IsValues(r) THEN r ELSE Invoke(r.vs[1], Tail(r.vs), r.s)

Evaluate(f, env, s) ==
  CASE f.t = "sym" -> Lookup(f.name, env, s)
    [] f.t = "list" -> EvaluateForm(f, env, s)
    [] OTHER -> Values(<<f>>, s)

EnterClosure(p, args, s) ==
  LET fs == Formals(p.formals)
      rest == Rest(p.formals)
      own == [i \in DOMAIN fs |-> fs[i].name] \o [i \in DOMAIN rest |-> rest[i].name]
      defs == SetToSeq(BodyDefines(p.body) \ ToSet(own))
      names == own \o defs
      n == Len(s.store)
      vals == SubSeq(args, 1, Len(fs))
              \o (IF rest = <<>> THEN <<>>
                  ELSE <<ListOf(SubSeq(args, Len(fs) + 1, Len(args)))>>)
              \o [i \in DOMAIN defs |-> Undef]
  IN  IF Len(args) = Len(fs) \/ (rest # <<>> /\ Len(args) > Len(fs))
      THEN Evaluate(p.body,
                    [x \in ToSet(names) |->
                       n + (CHOOSE i \in DOMAIN names : names[i] = x)] @@ p.env,
                    [s EXCEPT !.store = @ \o vals])
      ELSE Error(s)

\* call/cc: its escape may be called until it returns.
WithEscape(p, s) ==
  LET k == s.made + 1
      r == Invoke(p, <<[t |-> "func", name |-> "cont", k |-> k]>>,
                  [s EXCEPT !.live = @ \cup {k}, !.made = k])
      s1 == [r.s EXCEPT !.live = @ \ {k}]
  IN  IF r.k = "jump" /\ r.to = k THEN Values(r.vs, s1) ELSE [r EXCEPT !.s = s1]

Callable(v) == v.t \in {"func", "closure"}

Invoke(p, args, s) ==
  IF p.t = "closure" THEN EnterClosure(p, args, s)
  ELSE IF p.t # "func" THEN Error(s)
  ELSE CASE p.name = "values" -> Values(args, s)
         [] p.name = "cont" ->
              IF p.k \in s.live THEN Jump(p.k, args, s) ELSE Error(s)
         [] p.name = "apply" ->
              IF Len(args) >= 2 /\ Callable(args[1]) /\ IsList(args[Len(args)])
              THEN Invoke(args[1], SubSeq(args, 2, Len(args) - 1)
                                   \o Elements(args[Len(args)]), s)
              ELSE Error(s)
         [] p.name = "call-with-values" ->
              IF Len(args) = 2 /\ Callable(args[1]) /\ Callable(args[2])
              THEN LET r == Invoke(args[1], <<>>, s)
                   IN  IF IsValues(r) THEN Invoke(args[2], r.vs, r.s) ELSE r
              ELSE Error(s)
         [] p.name = "call/cc" ->
              IF Len(args) = 1 /\ Callable(args[1]) THEN WithEscape(args[1], s)
              ELSE Error(s)
         [] OTHER ->
              IF Arity(p.name) \in {-1, Len(args)}
                 /\ Result(p.name, args).t # "error"
              THEN Values(<<Result(p.name, args)>>, s)
              ELSE Error(s)

-----------------------------------------------------------------------------
\* What can be seen of a value: procedures are alike.
RECURSIVE Observe(_)
Observe(v) ==
  CASE v.t = "pair" -> Pair(Observe(v.car), Observe(v.cdr))
    [] v.t \in {"closure", "irep", "func"} -> [t |-> "procedure"]
    [] OTHER -> v

\* The primitives may be bound again by procedures, but no global replaces them.
RECURSIVE Overriding(_, _)
Overriding(f, own) ==
  /\ f.t = "list" /\ ~Is(f, "core#quote")
  /\ IF Is(f, "core#lambda")
     THEN Overriding(f.s[3], own \cup BodyDefines(f.s[3])
                             \cup {v.name : v \in ToSet(Formals(f.s[2]) \o Rest(f.s[2]))})
     ELSE \/ /\ Is(f, "core#set!") \/ Is(f, "core#define")
             /\ f.s[2].name \in Builtins \ own
          \/ \E i \in DOMAIN f.s : Overriding(f.s[i], own)

\* The answers to the forms of a program, and the state they leave.
Meaning(p) ==
  LET run[n \in 0 .. Len(p)] ==
        IF n = 0 THEN [as |-> <<>>, s |-> InitialState]
        ELSE LET s == Defining(BodyDefines(p[n]), run[n - 1].s)
                 r == IF Overriding(p[n], {}) THEN Error(s)
                      ELSE Evaluate(p[n], [x \in {} |-> 0], s)
             IN  [as |-> Append(run[n - 1].as,
                                IF IsValues(r) THEN Observe(One(r))
                                ELSE [t |-> "error"]),
                  s |-> r.s]
  IN  run[Len(p)]

(* The program gets from the expander, the compiler and the VM the answers *)
(* its forms mean, and every global ends with the value the program gave   *)
(* it: no variable is confused with another by renaming, inlining, capture *)
(* or a register's place, and no value is lost in a call, return or escape *)
(* (pic_eval_eval).                                                        *)
ResultsAgree ==
  Halted =>
    LET m == Meaning(program)
    IN  /\ m.as = [i \in DOMAIN answers |-> Observe(answers[i])]
        /\ \A g \in DOMAIN m.s.globals :
             /\ Sym(g) \in DOMAIN globals
             /\ Observe(globals[Sym(g)]) = Observe(m.s.globals[g])

(* Nothing is left on the stacks when a form has been evaluated, whatever  *)
(* calls, tail calls and escapes it made: no value, no frame, no C         *)
(* function waiting for the VM, and no saved point an escape could still   *)
(* reach.                                                                  *)
StacksBalanced ==
  label.l = "eval" => sp = 0 /\ top = 0 /\ calls = <<>> /\ chain = <<>>

(* Frames do not overlap: the registers of a procedure's frame, down to    *)
(* the copies of its captured variables, lie below the frame it calls, the *)
(* registers a context still shares with the stack belong to a frame that  *)
(* is active, and none of it is above the end of the stack.  The last is   *)
(* so of the programs that run here, where frames are small and calls stop *)
(* well below the end: the code tests the limit at calls only, before it   *)
(* lays out the frame, and another program may pass it (proc.c:530).       *)
FramesApart ==
  /\ sp <= StackSize
  /\ \A d \in 1 .. top - 1 : ci[d].fp < ci[d + 1].fp
  /\ \A d \in 1 .. top - 1 :
       ci[d].irep # Boot => ci[d].regs + ci[d].regc <= ci[d + 1].fp
  /\ \A c \in DOMAIN cxts : ~Torn(c) =>
       \E d \in 1 .. top : ci[d].cxt = c /\ ci[d].regs = cxts[c].regs

(* Every form that is evaluated comes to an end: its calls return, escape  *)
(* or fail, and pic_apply goes back to eval.                               *)
FormsEnd == label.l # "eval" ~> label.l = "eval"
=============================================================================
