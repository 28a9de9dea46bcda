------------------------------- MODULE Syntax -------------------------------
(***************************************************************************)
(* Scheme data as the evaluator sees it.  Every datum is a record tagged   *)
(* by "t", its pic_type.  A proper list that is code is a sequence of data *)
(* (the expander and the compiler only ever walk it from its head); a list *)
(* that is a run-time value is built of pairs.                             *)
(***************************************************************************)
EXTENDS Integers, Sequences

Sym(n)     == [t |-> "sym", name |-> n]
List(s)    == [t |-> "list", s |-> s]
Dot(s, r)  == [t |-> "dot", s |-> s, rest |-> r]
Num(n)     == [t |-> "int", v |-> n]
Bool(b)    == [t |-> "bool", v |-> b]
NilV       == [t |-> "nil"]
Undef      == [t |-> "undef"]
Invalid    == [t |-> "invalid"]
Pair(a, d) == [t |-> "pair", car |-> a, cdr |-> d]
True       == Bool(TRUE)
False      == Bool(FALSE)

\* Identifiers of the macro system: a symbol, or an alias of one that is to
\* be looked up in the environment it was made in (pic_make_identifier).
Alias(base, env, n) == [t |-> "id", base |-> base, env |-> env, n |-> n]
IsId(f) == f.t \in {"sym", "id"}

\* The list whose head is the symbol "n": a core form.
Is(f, n) == f.t = "list" /\ f.s # <<>> /\ f.s[1] = Sym(n)

Begin(a, b)  == List(<<Sym("core#begin"), a, b>>)
Define(x, a) == List(<<Sym("core#define"), x, a>>)
SetTo(x, a)  == List(<<Sym("core#set!"), x, a>>)
If(a, b, c)  == List(<<Sym("core#if"), a, b, c>>)
Lambda(f, b) == List(<<Sym("core#lambda"), f, b>>)
Quote(v)     == List(<<Sym("core#quote"), v>>)
Call(f, s)   == List(<<f>> \o s)
DefMacro(x, m) == List(<<Sym("core#define-macro"), x, m>>)

\* The variables of a lambda list, and its rest variable (or none).
Formals(f) == IF f.t = "sym" \/ f.t = "id" THEN <<>> ELSE f.s
Rest(f)    == CASE f.t = "list" -> <<>>
                [] f.t = "dot"  -> <<f.rest>>
                [] OTHER        -> <<f>>

\* The run-time list of a sequence of values, and back.
ListOf(s) ==
  LET l[i \in 0 .. Len(s)] ==
        IF i = 0 THEN NilV ELSE Pair(s[Len(s) - i + 1], l[i - 1])
  IN  l[Len(s)]
RECURSIVE Elements(_)
Elements(v) == IF v.t = "pair" THEN <<v.car>> \o Elements(v.cdr) ELSE <<>>
RECURSIVE IsList(_)
IsList(v) == v.t = "nil" \/ (v.t = "pair" /\ IsList(v.cdr))
=============================================================================
