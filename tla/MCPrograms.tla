----------------------------- MODULE MCPrograms -----------------------------
(* Families of small programs for TLC; every program of a family runs. *)
EXTENDS Evaluator

x == Sym("x")   y == Sym("y")   r == Sym("r")   g == Sym("g")   f == Sym("f")
k == Sym("k")   j == Sym("j")   t == Sym("t")   c == Sym("c")
values_ == Sym("values")  list == Sym("list")  callcc == Sym("call/cc")
one == Num(1)   two == Num(2)   seven == Num(7)

Thunk(b)      == Lambda(List(<<>>), b)
Fun(v, b)     == Lambda(List(<<v>>), b)
PairOf(a, b)    == Call(Sym("cons"), <<a, b>>)
WithK(v, b)   == Call(callcc, <<Fun(v, b)>>)
Receive(p, q) == Call(Sym("call-with-values"), <<p, q>>)
Or2(a, b)     == Call(Sym("or2"), <<a, b>>)
Dup(a)        == Call(Sym("dup"), <<a>>)
Macros        == <<DefMacro(Sym("or2"), [t |-> "mac", mac |-> "or2"]),
                   DefMacro(Sym("dup"), [t |-> "mac", mac |-> "dup"])>>

-----------------------------------------------------------------------------
(* Closures: a procedure of x (and r, the rest) has a lambda in one of      *)
(* several places, over a body that reads or assigns x.                     *)
Inner ==
  {Fun(v, b) : v \in {x, y}, b \in {PairOf(x, y), Begin(SetTo(x, seven), PairOf(x, r))}}
  \cup {Fun(y, Begin(SetTo(x, PairOf(y, x)), x)), Fun(y, Thunk(SetTo(x, y))),
        Lambda(y, PairOf(x, y)), Fun(y, Fun(x, PairOf(x, PairOf(y, r))))}

Bodies(l) ==
  {Call(l, <<two>>),
   Begin(Define(g, l), Begin(Call(g, <<two>>), x)),
   Begin(Define(g, l), Begin(SetTo(x, Num(3)), Call(g, <<x>>))),
   Begin(Define(g, l), Begin(Define(y, two), PairOf(Call(g, <<y>>), x))),
   If(x, l, one),
   WithK(k, Begin(Define(g, l), Call(k, <<Call(g, <<two>>)>>))),
   \* the frame goes on after an escape has torn its context off
   Begin(Define(g, l), Begin(WithK(k, Begin(SetTo(r, g), Call(k, <<one>>))),
                             Begin(SetTo(x, Num(3)), PairOf(Call(g, <<two>>), x))))}

Outer == {Lambda(p, b) : p \in {List(<<x, r>>), Dot(<<x>>, r)},
                         b \in UNION {Bodies(l) : l \in Inner}}

ClosurePrograms ==
  {<<Define(y, Num(9)), e>> :
     e \in {Call(p, <<one, Num(5)>>) : p \in Outer}
           \cup {Call(Call(p, <<one, Num(5)>>), <<two>>) : p \in Outer}
           \cup {Receive(Thunk(Call(values_, <<one, Num(5)>>)), p) : p \in Outer}}

-----------------------------------------------------------------------------
(* Several values: producers, consumers and what becomes of the result.     *)
Producers ==
  {values_, list} \cup
  {Thunk(b) : b \in
     {one, Call(values_, <<>>), Call(values_, <<one, two>>),
      Call(Sym("apply"), <<values_, one, Quote(ListOf(<<two, seven>>))>>),
      WithK(k, Call(k, <<one, two>>)), WithK(k, Begin(Call(k, <<>>), two)),
      WithK(k, Call(list, <<one, Call(k, <<one, two, seven>>)>>)),
      WithK(k, Receive(Thunk(Call(k, <<two, one>>)), list)),
      Begin(Call(values_, <<one, two>>), seven),
      If(False, one, Call(values_, <<two, seven>>)),
      Receive(Thunk(Call(values_, <<one, two>>)), values_),
      Begin(Define(g, Fun(x, Call(values_, <<x, x>>))), Call(g, <<two>>))}}

Consumers ==
  {list, values_, Lambda(r, r), Lambda(Dot(<<x>>, r), PairOf(r, x)),
   Lambda(List(<<x, y>>), PairOf(y, x)), Sym("cons"), Sym("car"), two,
   Lambda(r, WithK(k, Call(Sym("apply"), <<k, r>>)))}

ValuesPrograms ==
  UNION {{<<Receive(p, q)>>,
          <<Call(list, <<one, Receive(p, q), seven>>)>>,
          <<Receive(Thunk(Receive(p, q)), list)>>} :
         p \in Producers, q \in Consumers}

-----------------------------------------------------------------------------
(* Escapes: to one of two points, from inside procedures and pending calls, *)
(* while they are alive and afterwards.                                     *)
Leaps ==
  {Call(v, a) : v \in {k, j}, a \in {<<one>>, <<Call(j, <<two>>)>>}}
  \cup {Begin(SetTo(c, j), seven), Call(list, <<one, Call(k, <<c>>)>>),
        Call(Fun(x, Call(c, <<x>>)), <<two>>),
        Receive(Thunk(Call(k, <<seven, two>>)), list)}

EscapePrograms ==
  {<<Define(c, list), Define(f, Fun(x, e)), Call(list, <<two, Call(f, <<Num(4)>>)>>),
     Call(c, <<Num(8)>>)>> :
     e \in {WithK(k, Call(list, <<seven, WithK(j, a), b>>)) :
              a \in Leaps,
              b \in {x, Call(k, <<x>>), Begin(SetTo(c, k), x),
                     Call(Sym("car"), <<x>>), Call(c, <<one>>)}}}

-----------------------------------------------------------------------------
(* Macros, and variables that have the names their expansions use.          *)
Uses == {Or2(a, b) : a \in {False, t, x, Or2(x, False)}, b \in {t, Or2(t, x), Dup(t)}}
        \cup {Dup(t), Dup(Or2(False, x)), Or2(False, Fun(t, Or2(x, t)))}

MacroPrograms ==
  {Macros \o <<Define(t, Num(4)), e>> :
     e \in UNION {
       {Call(Lambda(List(<<v, x>>), u), <<two, False>>) : v \in {t, Sym("cons"), y}}
       \cup {Call(Call(Lambda(List(<<x, t>>), Thunk(u)), <<False, one>>), <<>>),
             \* the lambda is expanded when t is known to be local
             Call(Fun(x, Begin(Define(g, Thunk(u)), Begin(Define(t, seven),
                                                          Call(g, <<>>)))), <<False>>),
             Call(Fun(x, Begin(Define(Sym("or2"), list), u)), <<False>>),
             Call(Lambda(List(<<Sym("dup"), x>>), u), <<list, one>>)} : u \in Uses}}
  \cup {Macros \o <<Define(Sym("or2"), list), Call(Fun(x, u), <<one>>)>> :
          u \in {Or2(a, Dup(x)) : a \in {False, x}}}

-----------------------------------------------------------------------------
(* Conditionals, primitives called by name and as values, and loops that    *)
(* need more stack than there is unless their last call is a tail call.     *)
nn == Sym("n")   acc == Sym("acc")   loop == Sym("loop")
Less == Call(Sym("<"), <<nn, one>>)
Dec  == Call(Sym("-"), <<nn, one>>)
Inc  == Call(Sym("+"), <<acc, nn>>)

Loops == {Call(loop, <<Dec, Inc>>),
          Call(Sym("apply"), <<loop, Dec, Call(list, <<Inc>>)>>),
          Receive(Thunk(Call(values_, <<Dec, Inc>>)), loop),
          Or2(Call(Sym("pair?"), <<acc>>), Call(loop, <<Dec, Inc>>)),
          Begin(Call(Fun(x, SetTo(c, Thunk(PairOf(x, nn)))), <<acc>>), Call(loop, <<Dec, Inc>>))}

BasicPrograms ==
  {Macros \o <<Define(c, one), Define(loop, Lambda(List(<<nn, acc>>), If(Less, acc, e))),
               Call(loop, <<Num(8), Num(0)>>), Call(list, <<c>>), Call(c, <<>>)>> : e \in Loops}
  \cup {<<If(v, If(w, one, two), If(w, seven, Call(p, <<v, w>>)))>> :
          v \in {False, Quote(NilV), one},
          w \in {False, Call(Sym("not"), <<one>>), Call(Sym("null?"), <<Quote(NilV)>>)},
          p \in {Sym("cons"), Sym("+"), Sym("="), two, Sym("undefined")}}
  \cup {<<SetTo(v, e), v>> : v \in {list, Sym("nowhere")}, e \in {one, Sym("car")}}
  \cup {<<Call(p, <<Fun(x, Call(Sym("cdr"), <<x>>)), e>>)>> :
          p \in {Sym("apply"), Fun(y, y), Sym("cons"), Lambda(r, r)},
          e \in {Quote(ListOf(<<Quote(one).s[2]>>)), Quote(ListOf(<<ListOf(<<one, two>>)>>))}}

-----------------------------------------------------------------------------
(* Forms that fail, with values on the stack, a captured frame, an escape   *)
(* or a definition pending, and the forms after them, which use what the    *)
(* failed one has left: its closures and its escapes.                       *)
Failures == {Call(Sym("car"), <<x>>), Call(two, <<one>>), Call(Fun(y, y), <<>>),
             Call(Sym("apply"), <<two, x>>), Sym("undefined"), Call(c, <<one>>),
             Receive(Thunk(Call(values_, <<one, two>>)), list), Call(callcc, <<x>>)}

Pending(e) ==
  {Begin(SetTo(g, Fun(y, Begin(SetTo(x, PairOf(y, x)), x))), Call(list, <<x, e>>)),
   Begin(WithK(k, Begin(SetTo(c, k), Call(k, <<one>>))), Call(list, <<one, e>>)),
   WithK(k, Begin(SetTo(c, k), Call(list, <<seven, e>>))),
   Receive(Thunk(Begin(SetTo(g, Fun(y, x)), Call(values_, <<one, e>>))), list)}

FailurePrograms ==
  {<<Define(c, list), Define(g, list), Call(Fun(x, p), <<Num(4)>>),
     Call(list, <<one, Call(g, <<seven>>)>>), Call(Fun(x, Call(c, <<x>>)), <<two>>),
     Call(g, <<two>>)>> : p \in UNION {Pending(e) : e \in Failures}}
  \cup {<<Define(g, one), Define(x, list), Define(g, e), Call(list, <<two, g>>),
          SetTo(g, two), g>> : e \in Failures \cup {g}}
  \cup {Macros \o <<Define(Sym("or2"), Call(two, <<>>)), Or2(one, two)>>,
        <<Define(Sym("car"), list), Call(Sym("apply"), <<Sym("car"), one, Quote(NilV)>>)>>,
        <<Begin(Define(f, one), SetTo(Sym("cdr"), f)), f>>,
        <<Call(Fun(Sym("car"), SetTo(Sym("car"), one)), <<two>>), Sym("car")>>}

MCProgramSet == ClosurePrograms \cup ValuesPrograms \cup EscapePrograms
                \cup MacroPrograms \cup BasicPrograms \cup FailurePrograms
=============================================================================
