------------------------------- MODULE Writer -------------------------------
(***************************************************************************)
(* write, write-shared and write-simple (lib/ext/write.c).  An object is   *)
(* an atom, a number not above 0, or the number of a node of mem: a pair,  *)
(* a vector or a dictionary with the objects in its fields.  The text is a *)
(* sequence of tokens; the tokens of atoms stand for all of numbers,       *)
(* strings, symbols and the like, the abbreviation of quote for those of   *)
(* the other seven tags.                                                   *)
(***************************************************************************)
EXTENDS Integers, Sequences, SequencesExt, Functions

CONSTANTS
  MaxText \* tokens after which a text is taken to have no end

VARIABLES
  mem, \* the nodes
  op   \* which of the three procedures

Nil   == 0
QUOTE == -1

Token(kind)        == [kind |-> kind, n |-> 0]
Numbered(kind, n)  == [kind |-> kind, n |-> n]

NodeOf(x, kind) == x > 0 /\ mem[x].kind = kind
Car(x) == mem[x].fields[1]
Cdr(x) == mem[x].fields[2]

\* pic_weak_del
Without(f, x) == Restrict(f, DOMAIN f \ {x})

\* pic_weak_set
With(f, x, v) == [y \in DOMAIN f \cup {x} |-> IF y = x THEN v ELSE f[y]]

\* The objects met twice: for write, met again below themselves.
RECURSIVE traverse(_, _)
traverse(shared, x) ==
  IF op = "write-simple" \/ x <= 0 THEN shared
  ELSE IF x \in DOMAIN shared THEN [shared EXCEPT ![x] = 1]
  ELSE LET below == FoldLeft(traverse, With(shared, x, 0), mem[x].fields)
       IN  IF op = "write" /\ below[x] = 0 THEN Without(below, x) ELSE below

-----------------------------------------------------------------------------
(* The writer s has the text so far, the numbers given so far, the shared  *)
(* objects and the labels of those that have one.                          *)

is_shared_object(s, x) == x > 0 /\ x \in DOMAIN s.shared /\ s.shared[x] > 0

Put(s, token) == [s EXCEPT !.text = Append(@, token)]

Abbreviated(x) ==
  /\ NodeOf(x, "pair") /\ Car(x) = QUOTE
  /\ NodeOf(Cdr(x), "pair") /\ Cdr(Cdr(x)) = Nil

RECURSIVE write_core(_, _), write_pair_help(_, _)

write_pair_help(s, x) ==
  LET car == write_core(s, Car(x))
  IN  CASE Cdr(x) = Nil \/ Len(s.text) > MaxText -> car
        [] NodeOf(Cdr(x), "pair") /\ ~is_shared_object(s, Cdr(x)) -> write_pair_help(car, Cdr(x))
        [] OTHER -> write_core(Put(car, Token(".")), Cdr(x))

write_pair(s, x) ==
  IF Abbreviated(x) THEN write_core(Put(s, Token("'")), Car(Cdr(x)))
  ELSE Put(write_pair_help(Put(s, Token("(")), x), Token(")"))

write_vec(s, x) == Put(FoldLeft(write_core, Put(s, Token("#(")), mem[x].fields), Token(")"))

write_dict(s, x) ==
  Put(FoldLeft(LAMBDA t, y : write_core(Put(t, Token("key")), y),
               Put(s, Token("#.(dictionary")), mem[x].fields), Token(")"))

write_core(s, x) ==
  IF Len(s.text) > MaxText THEN s
  ELSE IF is_shared_object(s, x) /\ x \in DOMAIN s.labels
  THEN Put(s, Numbered("ref", s.labels[x]))
  ELSE LET begun == IF ~is_shared_object(s, x) THEN s
                    ELSE [Put(s, Numbered("label", s.cnt)) EXCEPT
                            !.cnt = @ + 1, !.labels = With(@, x, s.cnt)]
           done  == CASE x <= 0               -> Put(begun, Numbered("atom", x))
                      [] NodeOf(x, "pair")   -> write_pair(begun, x)
                      [] NodeOf(x, "vector") -> write_vec(begun, x)
                      [] NodeOf(x, "dict")   -> write_dict(begun, x)
       IN  IF op = "write" /\ is_shared_object(done, x)
           THEN [done EXCEPT !.labels = Without(@, x)] ELSE done

write_value(x) ==
  write_core([text |-> <<>>, cnt |-> 0, shared |-> traverse(<<>>, x), labels |-> <<>>], x).text
=============================================================================
