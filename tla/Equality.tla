------------------------------ MODULE Equality -----------------------------
(***************************************************************************)
(* equal? of lib/bool.c, internal_equal_p, on a graph of objects: it calls *)
(* itself on the cars of pairs and the elements of vectors, loops along    *)
(* the cdrs, and is to end on circular lists (Floyd's cycle-finding) and,  *)
(* beyond a depth, on objects seen before.                                 *)
(* A value is an object (a positive number), the empty list or an atom.    *)
(***************************************************************************)
EXTENDS Integers, Sequences, FiniteSets, SequencesExt

CONSTANTS
  Graphs,    \* graphs to compare in: objects, see Objects
  SeenDepth, \* bool.c: 10
  MaxDepth   \* bool.c: 200

EqualityAssumption == SeenDepth \in Nat /\ MaxDepth \in Nat /\ SeenDepth < MaxDepth

VARIABLES
  graph, \* the objects; 1 is compared with 2
  stack, \* the C frames of internal_equal_p, the innermost first
  seen,  \* the keys of the hash table h
  ret,   \* what the last call returned
  want   \* whether the graph's objects 1 and 2 are equal

vars == <<graph, stack, seen, ret, want>>

Nil == 0
Found == -1 \* INT_MIN in cx or cy
IsObject(v) == v > 0

\* An object is a pair of its car and cdr, a vector of its elements or a
\* string of its text.
Objects(n, Atom, Text) ==
  LET Value == Atom \cup 0 .. n
  IN  [type : {"pair"}, parts : Value \X Value]
        \cup [type : {"vector"}, parts : {<<>>} \cup {<<v>> : v \in Value}]
        \cup [type : {"string"}, parts : {<<t>> : t \in Text}]

Type(v) == IF IsObject(v) THEN graph[v].type ELSE IF v = Nil THEN "nil" ELSE "atom"
Car(v) == graph[v].parts[1]
Cdr(v) == graph[v].parts[2]

-----------------------------------------------------------------------------
(* What equal? is defined to answer: no finite path of cars, cdrs and      *)
(* elements tells the two apart.                                           *)

Alike(g, x, y, R) ==
  IF IsObject(x) /\ IsObject(y)
  THEN \/ x = y
       \/ /\ g[x].type = g[y].type /\ Len(g[x].parts) = Len(g[y].parts)
          /\ \A i \in DOMAIN g[x].parts :
               LET v == g[x].parts[i]
                   w == g[y].parts[i]
               IN  v = w \/ <<v, w>> \in R
  ELSE x = y

\* k times over, drop the pairs that one more step tells apart.
Equal(g) ==
  LET O == DOMAIN g
      upTo[k \in 0 .. Cardinality(O) * Cardinality(O)] ==
        IF k = 0 THEN O \X O
        ELSE LET R == upTo[k - 1] IN {r \in R : Alike(g, r[1], r[2], R)}
  IN  <<1, 2>> \in upTo[2 * Cardinality(O)]

-----------------------------------------------------------------------------

Frame(x, y) == [pc |-> "enter", x |-> x, y |-> y, localx |-> Nil, localy |-> Nil,
                cx |-> 0, cy |-> 0, i |-> 0]

Init == /\ graph \in Graphs
        /\ stack = <<Frame(1, 2)>>
        /\ seen = {}
        /\ ret = "none"
        /\ want = Equal(graph)

top == Head(stack)
depth == Len(stack) - 1

Answer(b) == stack' = Tail(stack) /\ ret' = b
Continue(f) == stack' = <<f>> \o Tail(stack) /\ ret' = ret
Call(f, x, y) == stack' = <<Frame(x, y), f>> \o Tail(stack) /\ ret' = ret

\* kh_put answers 0 when the key is in the table already (khash.h); the code
\* takes any other answer to mean that.
WasSeen == top.x \notin seen

Enter ==
  /\ stack # <<>> /\ top.pc = "enter"
  /\ IF depth > MaxDepth THEN stack' = <<>> /\ ret' = "error" /\ UNCHANGED seen
     ELSE IF depth > SeenDepth /\ Type(top.x) \in {"pair", "vector"}
     THEN /\ seen' = seen \cup {top.x}
          /\ IF WasSeen THEN Answer("true") ELSE Continue([top EXCEPT !.pc = "loop"])
     ELSE Continue([top EXCEPT !.pc = "loop"]) /\ UNCHANGED seen
  /\ UNCHANGED <<graph, want>>

\* LOOP: what eqv? and the types decide; then the parts of x and y.
Compare ==
  /\ stack # <<>> /\ top.pc = "loop"
  /\ LET x == top.x
         y == top.y
     IN  CASE x = y -> Answer("true")
           [] x # y /\ Type(x) # Type(y) -> Answer("false")
           [] x # y /\ Type(x) = Type(y) ->
                CASE Type(x) = "string" ->
                       Answer(IF graph[x].parts = graph[y].parts THEN "true" ELSE "false")
                  [] Type(x) = "pair" -> Call([top EXCEPT !.pc = "car"], Car(x), Car(y))
                  [] Type(x) = "vector" ->
                       IF Len(graph[x].parts) # Len(graph[y].parts) THEN Answer("false")
                       ELSE Continue([top EXCEPT !.pc = "element", !.i = 0])
                  [] OTHER -> Answer("false")
  /\ UNCHANGED <<graph, seen, want>>

\* The next element of the vectors; ret is what the last one came to.
Element ==
  /\ stack # <<>> /\ top.pc = "element"
  /\ IF top.i > 0 /\ ret = "false" THEN Answer("false")
     ELSE IF top.i = Len(graph[top.x].parts) THEN Answer("true")
     ELSE Call([top EXCEPT !.i = @ + 1], graph[top.x].parts[top.i + 1],
               graph[top.y].parts[top.i + 1])
  /\ UNCHANGED <<graph, seen, want>>

\* Mutant: one circular list is enough to answer.
OneCircular ==
  LET x == Cdr(top.x)
      fast == top.cx = 1
      local == IF top.localx = Nil THEN top.x ELSE top.localx
  IN  IF fast /\ Cdr(local) = x THEN Answer("true")
      ELSE Continue([top EXCEPT !.pc = "loop", !.x = x, !.y = Cdr(top.y),
                                !.cx = IF fast THEN 0 ELSE 1,
                                !.localx = IF fast THEN Cdr(local) ELSE local])

\* Floyd's cycle-finding on x and on y at once: every second cdr the local
\* pointer follows by one, until it meets its list's; both met, both circular.
Follow ==
  LET x == Cdr(top.x)
      y == Cdr(top.y)
      startx == IF top.localx = Nil THEN top.x ELSE top.localx
      starty == IF top.localy = Nil THEN top.y ELSE top.localy
      localx == IF top.cx = 1 THEN Cdr(startx) ELSE startx
      localy == IF top.cy = 1 THEN Cdr(starty) ELSE starty
      After(c, local, v) == CASE c = Found -> Found
                              [] c = 0 -> 1
                              [] c = 1 -> IF local = v THEN Found ELSE 0
      cx == After(top.cx, localx, x)
      cy == After(top.cy, localy, y)
  IN  IF cx = Found /\ cy = Found THEN Answer("true")
      ELSE Continue([top EXCEPT !.pc = "loop", !.x = x, !.y = y, !.cx = cx, !.cy = cy,
                                !.localx = localx, !.localy = localy])

Advance ==
  /\ stack # <<>> /\ top.pc = "car"
  /\ IF ret = "false" THEN Answer("false") ELSE Follow
  /\ UNCHANGED <<graph, seen, want>>

Next == Enter \/ Compare \/ Element \/ Advance

\* The procedure is one thread of C code, which runs on.
Spec == Init /\ [][Next]_vars /\ WF_vars(Next)

-----------------------------------------------------------------------------
(* Properties.                                                             *)

\* equal? answers what its definition says: no path of cars, cdrs and vector
\* elements leads to different things.  The early answers of the code -- both
\* lists circular, x seen before -- must not come before a difference.
EqualAgrees == stack = <<>> => ret = "error" \/ (ret = "true") = want

\* equal? answers, on circular lists too.
EqualEnds == <>(stack = <<>>)
=============================================================================
