------------------------------- MODULE Reader -------------------------------
(***************************************************************************)
(* The reader (lib/ext/read.c), from the tokens of Writer to new nodes.  A *)
(* comment reads as a value of its own, and whoever meets it reads on.     *)
(***************************************************************************)
EXTENDS Integers, Sequences, SequencesExt

VARIABLES
  text \* the tokens

Empty   == 0  \* the atom ()
QuoteId == -1 \* the atom quote
INVALID == -7 \* pic_invalid_value, what a comment reads as
UNDEF   == -8 \* pic_undef_value
UNSET   == -9 \* the value of a label that kh_put has made, before it is stored

\* The reader r has the position of the next token, the nodes made so far, the
\* labels and the value it has read; it is dead once an error was raised.
Start == [pos |-> 1, made |-> <<>>, labels |-> <<>>, val |-> UNDEF, dead |-> FALSE]

Fail(r)       == [r EXCEPT !.dead = TRUE]
Read(r, v)    == [r EXCEPT !.val = v]
AtEnd(r)      == r.pos > Len(text)
Peek(r, kind) == ~AtEnd(r) /\ text[r.pos].kind = kind
Advance(r)    == [r EXCEPT !.pos = @ + 1]

Make(r, kind, fields) ==
  [r EXCEPT !.made = Append(@, [kind |-> kind, fields |-> fields]), !.val = Len(r.made) + 1]

SetLabel(r, n, v) ==
  [r EXCEPT !.labels = [m \in DOMAIN @ \cup {n} |-> IF m = n THEN v ELSE @[m]]]

\* The elements of a list, and what its last pair ends in.
Elements(r, x) ==
  LET from[y \in Int] ==
        IF y > 0 /\ r.made[y].kind = "pair"
        THEN [from[r.made[y].fields[2]] EXCEPT !.elems = <<r.made[y].fields[1]>> \o @]
        ELSE [elems |-> <<>>, last |-> y]
  IN  from[x]

-----------------------------------------------------------------------------
RECURSIVE read_nullable(_), read_value(_), read_pair(_)

read_value(r) ==
  LET v == read_nullable(r)
  IN  IF ~v.dead /\ v.val = INVALID THEN read_value(v) ELSE v

read_datum_comment(r) == Read(read_value(r), INVALID)

read_quote(r) ==
  LET datum == read_value(r)
      inner == Make(datum, "pair", <<datum.val, Empty>>)
  IN  IF datum.dead THEN datum ELSE Make(inner, "pair", <<QuoteId, inner.val>>)

\* After the datum that follows the dot: comments, then the parenthesis.
RECURSIVE Closing(_, _)
Closing(r, cdr) ==
  IF Peek(r, ")") THEN Read(Advance(r), cdr)
  ELSE LET v == read_nullable(r)
       IN  IF ~v.dead /\ v.val = INVALID THEN Closing(v, cdr) ELSE Fail(v)

read_pair(r) ==
  IF Peek(r, ")") THEN Read(Advance(r), Empty)
  ELSE IF Peek(r, ".")
  THEN LET cdr == read_value(Advance(r))
       IN  IF cdr.dead THEN cdr ELSE Closing(cdr, cdr.val)
  ELSE LET car == read_nullable(r)
           cdr == read_pair(car)
       IN  CASE car.dead          -> car
             [] car.val = INVALID -> read_pair(car)
             [] cdr.dead          -> cdr
             [] OTHER             -> Make(cdr, "pair", <<car.val, cdr.val>>)

read_vector(r) ==
  LET list  == read_pair(r)
      items == Elements(list, list.val)
  IN  CASE list.dead            -> list
        [] items.last # Empty   -> Fail(list)
        [] OTHER                -> Make(list, "vector", items.elems)

\* Mutant: the label is given the object once that has been read.
LabelAfterwards(r, n) ==
  LET datum == read_value(IF n \in DOMAIN r.labels THEN r ELSE SetLabel(r, n, UNSET))
  IN  SetLabel(datum, n, datum.val)

\* A pair or a vector is made before it is read, and then gets what was read
\* put in its fields; any other datum has its label once it is there.
read_label_set(r, n) ==
  LET kind  == IF Peek(r, "(") THEN "pair" ELSE "vector"
      early == Make(r, kind, IF kind = "pair" THEN <<UNDEF, UNDEF>> ELSE <<>>)
      tmp   == read_value(SetLabel(early, n, early.val))
      datum == read_value(IF n \in DOMAIN r.labels THEN r ELSE SetLabel(r, n, UNSET))
  IN  IF Peek(r, "(") \/ Peek(r, "#(")
      THEN IF tmp.dead \/ tmp.val <= 0 THEN Fail(tmp)
           ELSE Read([tmp EXCEPT !.made[early.val] = tmp.made[tmp.val]], early.val)
      ELSE SetLabel(datum, n, datum.val)

read_label_ref(r, n) ==
  IF n \in DOMAIN r.labels THEN Read(r, r.labels[n]) ELSE Fail(r)

read_nullable(r) ==
  IF r.dead \/ AtEnd(r) THEN Fail(r)
  ELSE LET token == text[r.pos]
           rest  == Advance(r)
       IN  CASE token.kind = "atom"  -> Read(rest, token.n)
             [] token.kind = "'"     -> read_quote(rest)
             [] token.kind = "("     -> read_pair(rest)
             [] token.kind = "#("    -> read_vector(rest)
             [] token.kind = "label" -> read_label_set(rest, token.n)
             [] token.kind = "ref"   -> read_label_ref(rest, token.n)
             [] token.kind = "#|"    -> Read(rest, INVALID)
             [] token.kind = "#;"    -> read_datum_comment(rest)
             [] OTHER                -> Fail(r)

\* pic_read, on a text that has a datum.
pic_read == read_value(Start)
=============================================================================
