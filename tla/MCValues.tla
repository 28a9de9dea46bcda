------------------------------ MODULE MCValues ------------------------------
(***************************************************************************)
(* For TLC: the data types, each by itself, on a few small values, one     *)
(* part in each behaviour.  The list procedures have their own variables,  *)
(* the others take turns with the same five.                               *)
(***************************************************************************)
EXTENDS Lists

CONSTANTS
  Char, MaxObj, MaxLen, MaxRopes, MaxOps, MaxLost, Garbage,
  SeenDepth, MaxDepth,
  MaxText, MaxCommented,
  MaxArgs, MaxOperands,
  IntBits, WideBits, Radixes, MaxLetters

VARIABLES part, v1, v2, v3, v4, v5

dataVars == <<v1, v2, v3, v4, v5>>
allVars == <<part, dataVars, listVars>>

-----------------------------------------------------------------------------
(* Strings: programs start from the texts "" and "ab". *)

S == INSTANCE Strings WITH
       Literals <- {<<>>, <<"a", "b">>},
       heap <- v1, rope <- v2, text <- v3, lost <- v4, ops <- v5

(* Lists: every call, on lists of all shapes. *)

Atoms == {-1, -2}
AllCalls == {<<"reverse", 1>>, <<"append", 2>>, <<"append", 3>>, <<"list-copy", 1>>,
          <<"make-list", 1>>, <<"list", 2>>, <<"map", 1>>, <<"map", 2>>, <<"for-each", 1>>,
          <<"memv", 2>>, <<"assv", 2>>, <<"member", 2>>, <<"assoc", 2>>, <<"length", 1>>,
          <<"list?", 1>>}

\* No list procedure is called.
NoCall ==
  /\ car = <<>> /\ cdr = <<>> /\ args = <<>> /\ arena = <<>>
  /\ loop = [proc |-> "none", pc |-> "none", it |-> Nil, acc |-> Nil, aux |-> Nil,
             ai |-> 0, n |-> 0]
  /\ want = [car |-> car, cdr |-> cdr, out |-> [kind |-> "none"]]

(* Equality: graphs of 3 objects, and of 4 pairs. *)

N == 3

\* The objects reached from v along cars, cdrs and elements.
Below(g, v) ==
  LET more[k \in 0 .. N] ==
        IF k = 0 THEN {w \in {v} : w > 0}
        ELSE UNION {{p} \cup {w \in ToSet(g[p].parts) : w > 0} : p \in more[k - 1]}
  IN  more[N]

\* A cycle goes along cdrs only.
CdrCycles(g) ==
  \A p \in 1 .. N : \A i \in DOMAIN g[p].parts :
    (g[p].type = "pair" /\ i = 2) \/ p \notin Below(g, g[p].parts[i])

Value == {-1} \cup 0 .. N
Objects == [type : {"pair"}, parts : Value \X Value]
             \cup [type : {"vector"}, parts : {<<>>} \cup {<<v>> : v \in Value}]
             \cup [type : {"string"}, parts : {<<-1>>, <<-2>>}]
FourPairs == [1 .. 4 -> [type : {"pair"}, parts : Atoms \X ({-1} \cup 0 .. 4)]]

Graphs == FourPairs \cup {g \in [1 .. N -> Objects] : CdrCycles(g)}

E == INSTANCE Equality WITH
       graph <- v1, stack <- v2, seen <- v3, ret <- v4, want <- v5

(* Text: objects of 2 nodes, and of 3 pairs, numbered as they are met. *)

Fields(size) == {0, -1} \cup 1 .. size

Pairs(size) == [kind : {"pair"}, fields : Fields(size) \X Fields(size)]
Others(size) ==
  [kind : {"vector"}, fields : {<<>>} \cup {<<x>> : x \in Fields(size)}] \cup
  [kind : {"dict"}, fields : {<<x>> : x \in Fields(size)}]

InOrderMet(m) ==
  LET all == FoldLeft(LAMBDA s, n : s \o n.fields, <<1>>, m)
  IN  \A x \in 2 .. Len(m) :
        \E i \in DOMAIN all : all[i] = x /\ \E j \in 1 .. i - 1 : all[j] = x - 1

Heaps ==
  {m \in [1 .. 2 -> Pairs(2) \cup Others(2)] \cup [1 .. 3 -> Pairs(3)] : InOrderMet(m)}

T == INSTANCE Text WITH mem <- v1, op <- v2, text <- v3, stage <- v4, back <- v5

(* Vectors and bytevectors of 2 and 3 elements, and other formats. *)

V == INSTANCE Vectors WITH
       Objects <- <<[type |-> "vec", data |-> <<11, 12, 13>>],
                    [type |-> "vec", data |-> <<21, 22>>],
                    [type |-> "blob", data |-> <<1, 2, 3>>], [type |-> "blob", data |-> <<4, 5>>]>>,
       Ints <- {-1, 0, 2, 3, 256},
       Formats <- {<<"&", "|", "o">>, <<"F", "|", "i">>, <<"I", "I">>, <<"u", "+", "l">>,
                   <<"z", "*">>, <<"c", "c", "*">>, <<"b", "|", "p", "i", "i">>, <<"l", "*">>,
                   <<"o", "|", "l">>, <<"d", "m", "o">>, <<"r">>, <<>>},
       data <- v1, call <- v2, locals <- v3, pc <- v4, result <- v5

(* Numbers: 1/2, -3.0, infinities and not-a-number beside the fixnums. *)

R == INSTANCE Numbers WITH
       Operands <- {[kind |-> "float", n |-> q[1], d |-> q[2]] :
                      q \in {<<1, 2>>, <<-3, 1>>, <<1, 0>>, <<-1, 0>>, <<0, 0>>}},
       Letters <- {0, 1, 7, 14, -1, -2},
       MaxArgs <- MaxOperands,
       call <- v1, text <- v2, pc <- v3, result <- v4

ASSUME E!EqualityAssumption

-----------------------------------------------------------------------------
Init ==
  \/ /\ NoCall
     /\ \/ part = "strings" /\ S!Init
        \/ part = "equality" /\ E!Init
        \/ part = "text" /\ T!Init
        \/ part = "vectors" /\ V!Init
        \/ part = "numbers" /\ R!Init /\ v5 = 0
  \/ part = "lists" /\ ListInit /\ v1 = 0 /\ v2 = 0 /\ v3 = 0 /\ v4 = 0 /\ v5 = 0

StringStep   == part = "strings" /\ S!Next /\ UNCHANGED <<part, listVars>>
ListStep     == part = "lists" /\ ListNext /\ UNCHANGED <<part, dataVars>>
EqualityStep == part = "equality" /\ E!Next /\ UNCHANGED <<part, listVars>>
TextStep     == part = "text" /\ T!Next /\ UNCHANGED <<part, listVars>>
VectorStep   == part = "vectors" /\ V!Next /\ UNCHANGED <<part, listVars>>
NumberStep   == part = "numbers" /\ R!Next /\ UNCHANGED <<part, v5, listVars>>

Next == StringStep \/ ListStep \/ EqualityStep \/ TextStep \/ VectorStep \/ NumberStep

\* A list procedure, and equal?, is one thread of C code, which runs on.
Spec == Init /\ [][Next]_allVars /\ WF_allVars(ListStep \/ EqualityStep)

-----------------------------------------------------------------------------
(* See Strings. *)
Texts == part = "strings" => S!Texts

(* See Strings. *)
CountsHolders == part = "strings" => S!CountsHolders

(* See Equality. *)
EqualAgrees == part = "equality" => E!EqualAgrees

(* See Lists (ListCallsEnd) and Equality (EqualEnds): what is to end, ends. *)
CallsEnd ==
  part = "equality" \/ want.out.kind \in {"list", "value", "error"}
    ~> (part = "equality" /\ v2 = <<>>) \/ loop.pc \in {"done", "error"}

(* See Text. *)
ReadBack == part = "text" => T!ReadBack

(* See Vectors. *)
CallsAnswer == part = "vectors" => V!CallsAnswer

(* See Numbers. *)
NumbersAgree == part = "numbers" => R!NumbersAgree
=============================================================================
