------------------------------- MODULE Lists -------------------------------
(***************************************************************************)
(* The list procedures of lib/pair.c.  Each runs as a loop whose rounds    *)
(* allocate a pair or call a procedure, and either may collect garbage:    *)
(* what the loop still needs must then be reachable from the arguments,    *)
(* which stay in the VM's stack, or from the arena (gc.c), to which every  *)
(* new pair is added and which the longer loops cut back as they go.       *)
(* A value is a pair (a positive number), the empty list or an atom.       *)
(***************************************************************************)
EXTENDS Integers, Sequences, FiniteSetsExt, SequencesExt

CONSTANTS
  Given,    \* the number of pairs a program has when it calls the procedure
  MaxPair,  \* bound on the pairs of the heap
  Atom,     \* values that are not lists, negative numbers
  Calls,    \* the calls to study: <<procedure, number of arguments>>
  Mutating  \* the procedures whose callbacks may change the lists

Procs == {"reverse", "append", "list-copy", "make-list", "list", "map", "for-each", "memv",
          "assv", "member", "assoc", "length", "list?"}

ASSUME ListAssumption ==
  /\ Given \in Nat \ {0} /\ MaxPair \in Nat /\ Given <= MaxPair
  /\ Atom # {} /\ Atom \subseteq -9 .. -1
  /\ Calls \subseteq Procs \X (Nat \ {0})

VARIABLES
  car, cdr, \* the fields of the pairs that are allocated
  args,     \* the arguments, in the VM's stack; map and for-each advance them
  arena,    \* what the collector spares beside: gc.c's arena
  loop,     \* the procedure that runs, and its C variables
  want      \* the heap at the call, and what the call is defined to do

listVars == <<car, cdr, args, arena, loop, want>>

Nil == 0
False == -91
True == -90
IsPair(v) == v > 0
\* An integer that a procedure returns.
Fixnum(n) == -100 - n

\* v and the values reached from it by 1, 2, ... cdrs.
Cdrs(d, v) ==
  LET at[k \in 0 .. 2 * MaxPair + 2] ==
        IF k = 0 THEN v ELSE LET w == at[k - 1] IN IF IsPair(w) THEN d[w] ELSE w
  IN  at

Reachable(a, d, roots) ==
  LET Pairs(vs) == {p \in vs : IsPair(p)}
      within[n \in 0 .. MaxPair] ==
        IF n = 0 THEN Pairs(roots) ELSE UNION {Pairs({p, a[p], d[p]}) : p \in within[n - 1]}
  IN  within[Cardinality(DOMAIN d)]

-----------------------------------------------------------------------------
(* What the procedures are defined to do with a heap and arguments.        *)

\* The pairs along the cdrs of v, each once.
Spine(d, v) ==
  LET at == Cdrs(d, v)
      Fresh(k) == IsPair(at[k]) /\ \A j \in 0 .. k - 1 : at[j] # at[k]
      n == CHOOSE k \in 0 .. MaxPair : ~Fresh(k) /\ \A j \in 0 .. k - 1 : Fresh(j)
  IN  [i \in 1 .. n |-> at[i - 1]]

\* What follows the last pair: a pair when the list is circular.
Rest(d, v) == Cdrs(d, v)[Len(Spine(d, v))]

Cars(a, d, v) == LET s == Spine(d, v) IN [i \in DOMAIN s |-> a[s[i]]]

\* Outcomes: pairs with these cars that end in rest; a value; an error; none.
ListOf(cars, rest) == [kind |-> "list", cars |-> cars, rest |-> rest]
Plain(v) == [kind |-> "value", value |-> v]
Fails == [kind |-> "error"]
Diverges == [kind |-> "diverges"]

\* The outcome of a walk along v which comes to the end of the list.
ToTheEnd(d, v, outcome) == CASE Rest(d, v) = Nil -> outcome
                             [] IsPair(Rest(d, v)) -> Diverges
                             [] OTHER -> Fails

\* The walks append makes, from the last list but one to the first.
AppendOutcome(a, d, as) ==
  LET walked == {i \in 1 .. Len(as) - 1 : Rest(d, as[i]) # Nil}
  IN  IF walked # {} THEN ToTheEnd(d, as[Max(walked)], Fails)
      ELSE ListOf(FlattenSeq([i \in 1 .. Len(as) - 1 |-> Cars(a, d, as[i])]), Last(as))

\* What memv or assv does at the first pair where it stops, if there is one.
FirstStop(d, v, Stops(_), At(_)) ==
  LET s == Spine(d, v)
      hits == {i \in DOMAIN s : Stops(s[i])}
  IN  IF hits # {} THEN At(s[Min(hits)]) ELSE ToTheEnd(d, v, Plain(False))

Outcome(a, d, proc, as) ==
  CASE proc = "reverse" -> ToTheEnd(d, as[1], ListOf(Reverse(Cars(a, d, as[1])), Nil))
    [] proc = "append" -> AppendOutcome(a, d, as)
    [] proc = "list-copy" -> IF IsPair(Rest(d, as[1])) THEN Diverges
                             ELSE ListOf(Cars(a, d, as[1]), Rest(d, as[1]))
    [] proc = "make-list" -> ListOf([i \in 1 .. Given |-> as[1]], Nil)
    [] proc = "list" -> ListOf(as, Nil)
    [] proc = "list?" -> Plain(IF Rest(d, as[1]) = Nil THEN True ELSE False)
    [] proc = "length" -> ToTheEnd(d, as[1], Plain(Fixnum(Len(Spine(d, as[1])))))
    [] proc = "memv" -> FirstStop(d, as[2], LAMBDA p : a[p] = as[1], LAMBDA p : Plain(p))
    [] proc = "assv" ->
         FirstStop(d, as[2], LAMBDA p : ~IsPair(a[p]) \/ a[a[p]] = as[1],
                   LAMBDA p : IF IsPair(a[p]) THEN Plain(a[p]) ELSE Fails)
    [] proc \in {"map", "for-each"} -> [kind |-> "calls", cars |-> <<>>, rest |-> Nil]
    [] OTHER -> [kind |-> "open"] \* member and assoc with a procedure

-----------------------------------------------------------------------------
(* Starting, allocating and calling.                                       *)

\* The loop a procedure enters first.
FirstLoop(proc) ==
  CASE proc \in {"map", "for-each"} -> "map"
    [] proc \in {"memv", "member"} -> "member"
    [] proc \in {"assv", "assoc"} -> "assoc"
    [] OTHER -> proc

\* Lists of atoms of any shape, or a proper association list.
GivenHeaps(proc) ==
  LET later(p) == p + 1 .. Given
      read == IF proc \in {"reverse", "append", "list-copy", "memv"} THEN Atom ELSE {Max(Atom)}
      any == {<<a, d>> : a \in [1 .. Given -> read],
                         d \in [1 .. Given -> {Nil, Max(Atom)} \cup 1 .. Given]}
      alists == {h \in {<<a, d>> : a \in [1 .. Given -> Atom \cup 1 .. Given],
                                  d \in [1 .. Given -> {Nil} \cup 1 .. Given]} :
                   \A p \in 1 .. Given : /\ h[1][p] \in Atom \cup later(p)
                                         /\ h[2][p] \in {Nil} \cup later(p)}
  IN  IF FirstLoop(proc) = "assoc" THEN alists ELSE any

ListInit ==
  \E c \in Calls : \E as \in [1 .. c[2] -> {Nil, 1, Given}] :
    /\ FirstLoop(c[1]) \in {"member", "assoc"} => as[1] = Nil
    /\ args = IF c[1] \in {"memv", "assv"} THEN [as EXCEPT ![1] = Max(Atom)] ELSE as
    /\ \E h \in GivenHeaps(c[1]) :
         /\ car = h[1] /\ cdr = h[2]
         /\ \A p \in (1 .. Given) \ Reachable(car, cdr, Range(args)) :
              car[p] = Max(Atom) /\ cdr[p] = Nil
    /\ FirstLoop(c[1]) = "map" => \E v \in Range(args) : ~IsPair(Rest(cdr, v))
    /\ arena = <<>>
    /\ loop = [proc |-> c[1], pc |-> FirstLoop(c[1]), it |-> args[c[2]], acc |-> Nil,
               aux |-> Nil, ai |-> 0, n |-> 0]
    /\ want = [car |-> car, cdr |-> cdr, out |-> Outcome(car, cdr, c[1], args)]

\* Every allocation collects first, as in a build with GC_STRESS: one that
\* does not reclaims nothing.  The pairs it spares, and the pair it returns.
Spared == Reachable(car, cdr, Range(args) \cup Range(arena))
Fresh == {Min((1 .. MaxPair) \ live) : live \in {l \in {Spared} : l # 1 .. MaxPair}}

\* The new pair x joins what is left of the arena; d are the others' cdrs.
NewPair(x, head, tail, left, d) ==
  \E live \in {Spared} :
    /\ car' = [p \in live \cup {x} |-> IF p = x THEN head ELSE car[p]]
    /\ cdr' = [p \in live \cup {x} |-> IF p = x THEN tail ELSE d[p]]
    /\ arena' = Append(left, x)

pic_cons(x, head, tail, left) == NewPair(x, head, tail, left, cdr)

\* A callback: the program may cut a list of the arguments, and collects.
Callback ==
  \E d \in {cdr} \cup {[cdr EXCEPT ![p] = Nil] :
                         p \in IF loop.proc \in Mutating
                               THEN Reachable(car, cdr, Range(args)) ELSE {}} :
    \E live \in {Reachable(car, d, Range(args) \cup Range(arena))} :
         /\ car' = [p \in live |-> car[p]]
         /\ cdr' = [p \in live |-> d[p]]
         /\ arena' = arena

Return(v) == loop' = [loop EXCEPT !.pc = "done", !.acc = v]
Raise     == loop' = [loop EXCEPT !.pc = "error"] /\ UNCHANGED <<car, cdr, arena>>
Quiet     == UNCHANGED <<car, cdr, arena>>

-----------------------------------------------------------------------------
(* The loops.                                                              *)

\* pic_reverse, which append and map call too.
ReverseRound ==
  /\ loop.pc = "reverse" /\ loop.it # Nil
  /\ IF IsPair(loop.it)
     THEN \E x \in Fresh : /\ pic_cons(x, car[loop.it], loop.acc, SubSeq(arena, 1, loop.ai))
                           /\ loop' = [loop EXCEPT !.it = cdr[@], !.acc = x]
     ELSE Raise
  /\ UNCHANGED <<args, want>>

ReverseEnd ==
  /\ loop.pc = "reverse" /\ loop.it = Nil /\ Quiet
  /\ IF loop.proc = "append"
     THEN loop' = [loop EXCEPT !.pc = "cons", !.it = loop.acc, !.aux = loop.acc,
                               !.acc = loop.aux]
     ELSE Return(loop.acc)
  /\ UNCHANGED <<args, want>>

\* pic_pair_append: pic_append of each list but the last, from the back.
AppendList ==
  /\ loop.pc = "append" /\ Quiet
  /\ LET list == IF loop.n = 0 THEN Last(args) ELSE loop.acc
         i == Len(args) - 1 - loop.n
     IN  IF i = 0 THEN Return(list)
         ELSE loop' = [loop EXCEPT !.pc = "reverse", !.it = args[i], !.acc = Nil, !.aux = list,
                                   !.ai = Len(arena), !.n = @ + 1]
  /\ UNCHANGED <<args, want>>

\* Mutant: only ys is protected again after pic_leave.
AppendUnprotected ==
  /\ loop.pc = "cons" /\ loop.it # Nil
  /\ \E x \in Fresh :
       /\ pic_cons(x, car[loop.it], loop.acc, SubSeq(arena, 1, loop.ai))
       /\ loop' = [loop EXCEPT !.it = cdr[@], !.acc = x]
  /\ UNCHANGED <<args, want>>

\* pic_append puts the reversed list xs in front of ys.
AppendRound ==
  /\ loop.pc = "cons" /\ loop.it # Nil
  /\ \E x \in Fresh :
       /\ pic_cons(x, car[loop.it], loop.acc, Append(SubSeq(arena, 1, loop.ai), loop.aux))
       /\ loop' = [loop EXCEPT !.it = cdr[@], !.acc = x]
  /\ UNCHANGED <<args, want>>

AppendEnd ==
  /\ loop.pc = "cons" /\ loop.it = Nil /\ Quiet
  /\ loop' = [loop EXCEPT !.pc = "append"]
  /\ UNCHANGED <<args, want>>

\* acc is the last pair of the copy, aux its first.
CopyRound ==
  /\ loop.pc = "list-copy" /\ IsPair(loop.it)
  /\ \E x \in Fresh :
       /\ NewPair(x, car[loop.it], Nil, arena,
                  IF loop.acc = Nil THEN cdr ELSE [cdr EXCEPT ![loop.acc] = x])
       /\ loop' = [loop EXCEPT !.it = cdr[@], !.acc = x, !.aux = IF @ = Nil THEN x ELSE @]
  /\ UNCHANGED <<args, want>>

CopyEnd ==
  /\ loop.pc = "list-copy" /\ ~IsPair(loop.it)
  /\ IF loop.acc = Nil THEN Return(loop.it) /\ cdr' = cdr
     ELSE Return(loop.aux) /\ cdr' = [cdr EXCEPT ![loop.acc] = loop.it]
  /\ UNCHANGED <<car, args, arena, want>>

\* The loops of make-list and list put element n in front of acc.
MakeRound ==
  /\ loop.pc \in {"make-list", "list"}
  /\ LET elements == IF loop.pc = "list" THEN args ELSE [i \in 1 .. Given |-> args[1]]
     IN  IF loop.n = Len(elements) THEN Return(loop.acc) /\ Quiet
         ELSE \E x \in Fresh : /\ pic_cons(x, elements[Len(elements) - loop.n], loop.acc, arena)
                               /\ loop' = [loop EXCEPT !.n = @ + 1, !.acc = x]
  /\ UNCHANGED <<args, want>>

\* Mutant: the values stay in the order of the calls' returns, last first.
MapUnreversed ==
  /\ loop.pc = "map" /\ Quiet
  /\ LET stop == {i \in DOMAIN args : ~IsPair(args[i])}
     IN  /\ args' = [i \in DOMAIN args |->
                       IF \A j \in stop : i < j THEN cdr[args[i]] ELSE args[i]]
         /\ IF stop = {} THEN loop' = [loop EXCEPT !.pc = "call"] ELSE Return(loop.acc)
  /\ UNCHANGED want

\* One round of map: the arguments before the first that is no pair are
\* advanced, and the procedure is called when all are.
MapRound ==
  /\ loop.pc = "map" /\ Quiet
  /\ LET stop == {i \in DOMAIN args : ~IsPair(args[i])}
     IN  /\ args' = [i \in DOMAIN args |->
                       IF \A j \in stop : i < j THEN cdr[args[i]] ELSE args[i]]
         /\ CASE stop = {} -> loop' = [loop EXCEPT !.pc = "call"]
              [] stop # {} /\ loop.proc = "map" ->
                   loop' = [loop EXCEPT !.pc = "reverse", !.it = loop.acc, !.acc = Nil,
                                        !.ai = Len(arena)]
              [] OTHER -> Return(Nil)
  /\ UNCHANGED want

\* The procedure returns some value, which want notes.
MapCall ==
  /\ loop.pc = "call"
  /\ Callback
  /\ \E v \in Atom :
       /\ loop' = [loop EXCEPT !.pc = IF loop.proc = "map" THEN "push" ELSE "map", !.it = v]
       /\ want' = IF loop.proc = "map" THEN [want EXCEPT !.out.cars = Append(@, v)] ELSE want
  /\ UNCHANGED args

\* pic_push
MapPush ==
  /\ loop.pc = "push"
  /\ \E x \in Fresh : /\ pic_cons(x, loop.it, loop.acc, arena)
                        /\ loop' = [loop EXCEPT !.pc = "map", !.acc = x]
  /\ UNCHANGED <<args, want>>

\* The test of a round of memv or assv on the element, or of member or assoc
\* when a procedure is given: it may answer anything.
Test(element, found) ==
  IF loop.proc \in {"memv", "assv"}
  THEN Quiet /\ found = (element = args[1])
  ELSE Callback

MemberRound ==
  /\ loop.pc = "member"
  /\ \/ loop.it = Nil /\ Return(False) /\ Quiet
     \/ loop.it \in Atom /\ Raise
     \/ /\ IsPair(loop.it)
        /\ \E found \in BOOLEAN :
             /\ Test(car[loop.it], found)
             /\ IF found THEN Return(loop.it) ELSE loop' = [loop EXCEPT !.pc = "next"]
  /\ UNCHANGED <<args, want>>

\* cell, here aux, is the car of the round's pair.
AssocRound ==
  /\ loop.pc = "assoc"
  /\ \/ loop.it = Nil /\ Return(False) /\ Quiet
     \/ IsPair(loop.it) /\ ~IsPair(car[loop.it]) /\ Raise
     \/ /\ IsPair(loop.it) /\ IsPair(car[loop.it])
        /\ \E found \in BOOLEAN :
             /\ Test(car[car[loop.it]], found)
             /\ IF found THEN Return(car[loop.it]) ELSE loop' = [loop EXCEPT !.pc = "next"]
  /\ UNCHANGED <<args, want>>

NextPair ==
  /\ loop.pc = "next"
  /\ loop' = [loop EXCEPT !.pc = FirstLoop(loop.proc), !.it = cdr[@]]
  /\ Quiet /\ UNCHANGED <<args, want>>

LengthRound ==
  /\ loop.pc = "length"
  /\ \/ loop.it = Nil /\ Return(Fixnum(loop.n)) /\ Quiet
     \/ loop.it \in Atom /\ Raise
     \/ IsPair(loop.it) /\ loop' = [loop EXCEPT !.it = cdr[@], !.n = (@ + 1) % (MaxPair + 1)] /\ Quiet
  /\ UNCHANGED <<args, want>>

\* Mutant: local stays where it began.
ListPAtStart ==
  /\ loop.pc = "list?" /\ Quiet
  /\ LET rapid == Cdrs(cdr, loop.it)
     IN  IF IsPair(rapid[0]) /\ IsPair(rapid[1])
         THEN IF args[1] = rapid[2] THEN Return(False)
              ELSE loop' = [loop EXCEPT !.it = rapid[2]]
         ELSE Return(IF Nil \in {rapid[0], rapid[1]} THEN True ELSE False)
  /\ UNCHANGED <<args, want>>

\* Floyd's cycle-finding: rapid, it, advances twice and local, aux, once.
ListPRound ==
  /\ loop.pc = "list?" /\ Quiet
  /\ LET rapid == Cdrs(cdr, loop.it)
         local == IF loop.n = 0 THEN loop.it ELSE loop.aux
     IN  IF IsPair(rapid[0]) /\ IsPair(rapid[1])
         THEN IF cdr[local] = rapid[2] THEN Return(False)
              ELSE loop' = [loop EXCEPT !.it = rapid[2], !.aux = cdr[local], !.n = 1]
         ELSE Return(IF Nil \in {rapid[0], rapid[1]} THEN True ELSE False)
  /\ UNCHANGED <<args, want>>

ListNext ==
  \/ ReverseRound \/ ReverseEnd \/ AppendList \/ AppendRound \/ AppendEnd
  \/ CopyRound \/ CopyEnd \/ MakeRound \/ MapRound \/ MapCall \/ MapPush
  \/ MemberRound \/ AssocRound \/ NextPair \/ LengthRound \/ ListPRound

ListSpec == ListInit /\ [][ListNext]_listVars

\* A procedure runs on: fairness for the loops that are to end.
FairListSpec == ListSpec /\ WF_listVars(ListNext)

-----------------------------------------------------------------------------
(* Properties.                                                             *)

\* No collection reclaims a pair that the running loop reads or returns later.
\* The loops hold their pairs in C variables the collector does not see: all
\* of them must be in the arena or reachable from the arguments, after each
\* pic_leave of pic_reverse and pic_append, in the copy under construction,
\* and while a callback of map, member or assoc runs.  That is, as long as a
\* procedure given to member or assoc does not cut the list it is called on:
\* only the calls of Mutating may.  Otherwise the rest of the list, where the
\* loop goes on (pair.c:569-572), may be lost.
HeldIsLive ==
  {v \in CASE loop.pc \in {"done", "error"} -> {loop.acc}
           [] loop.pc \in {"make-list", "list"} -> {loop.acc}
           [] OTHER -> {loop.it, loop.acc, loop.aux} : IsPair(v)} \subseteq DOMAIN car

\* What a procedure returns is what it is defined to return, the pairs given
\* to it keep their fields unless a callback changed them, it signals an error
\* exactly for a list that ends improperly, and it does not return from a
\* walk along a circular list -- save list?, which answers false.
OutcomeAgrees ==
  loop.pc \in {"done", "error"} =>
    /\ want.out.kind # "diverges"
    /\ want.out.kind \notin {"open", "calls"} => (loop.pc = "error") = (want.out.kind = "error")
    /\ want.out.kind = "value" => loop.acc = want.out.value
    /\ want.out.kind = "list" \/ loop.proc = "map" =>
         LET s == Spine(cdr, loop.acc)
             n == Len(want.out.cars)
         IN  /\ n <= Len(s)
             /\ Cdrs(cdr, loop.acc)[n] = want.out.rest
             /\ SubSeq(Cars(car, cdr, loop.acc), 1, n) = want.out.cars
    /\ loop.proc \notin Mutating =>
         \A p \in Reachable(want.car, want.cdr, Range(args)) \cap DOMAIN want.car :
           car[p] = want.car[p] /\ cdr[p] = want.cdr[p]

\* A procedure returns or signals an error unless it walks a circular list;
\* list? always returns (docs/lang.rst: "safe for using against circular list").
ListCallsEnd == want.out.kind \in {"list", "value", "error"} ~> loop.pc \in {"done", "error"}
=============================================================================
