-------------------------------- MODULE Text --------------------------------
(***************************************************************************)
(* An object is written, a comment may be put anywhere in the text, and    *)
(* the text is read.                                                       *)
(***************************************************************************)
EXTENDS Writer, Reader, FiniteSets

CONSTANTS
  Heaps,       \* the nodes to write, the first of them being the object
  MaxCommented \* bound of the runs: nodes of an object whose text gets a comment

VARIABLES
  stage, \* "write", "comment", "read", "done"
  back   \* the reader, when it is done

vars == <<mem, op, text, stage, back>>

RECURSIVE Below(_, _)
Below(S, n) ==
  IF n = 0 THEN S
  ELSE Below(S \cup UNION {ToSet(mem[x].fields) : x \in {y \in S : y > 0}}, n - 1)

Reached(x) == {y \in Below({x}, Len(mem)) : y > 0}
Cyclic(x)  == x \in UNION {Reached(y) : y \in ToSet(mem[x].fields)}
Places(x)  == {p \in (DOMAIN mem) \X (1 .. 2) :
                 p[2] \in DOMAIN mem[p[1]].fields /\ mem[p[1]].fields[p[2]] = x}

\* What the model writes.  write-simple does not end on a cycle.  An abbreviated
\* quote goes wrong on one: the writer does not end when the cycle leads through
\* the list that the abbreviation leaves out, and the reader has no value yet
\* for a label of the whole form.  That the list is shared is not written.
Writable ==
  \A x \in Reached(1) :
    /\ op = "write-simple" => ~Cyclic(x)
    /\ Abbreviated(x) => ~Cyclic(x) /\ (op = "write-shared" => Cardinality(Places(Cdr(x))) = 1)

Init ==
  /\ mem \in Heaps /\ op \in {"write", "write-shared", "write-simple"}
  /\ text = <<>> /\ stage = "write" /\ back = Start

Write ==
  /\ stage = "write" /\ Writable /\ stage' = "comment"
  /\ text' = write_value(1)
  /\ UNCHANGED <<mem, op, back>>

\* A comment, or a commented datum, before the token at i.  What follows a
\* label is the datum itself.
Comment ==
  /\ stage = "comment" /\ stage' = "read" /\ Len(mem) <= MaxCommented
  /\ \E i \in DOMAIN text, c \in {<<Token("#|")>>, <<Token("#;"), Numbered("atom", QUOTE)>>} :
       /\ i > 1 => text[i - 1].kind # "label"
       /\ text' = SubSeq(text, 1, i - 1) \o c \o SubSeq(text, i, Len(text))
  /\ UNCHANGED <<mem, op, back>>

ReadAll ==
  /\ stage \in {"comment", "read"} /\ stage' = "done"
  /\ Len(text) <= MaxText /\ back' = pic_read
  /\ UNCHANGED <<mem, op, text>>

Next == Write \/ Comment \/ ReadAll

Spec == Init /\ [][Next]_vars

-----------------------------------------------------------------------------
\* The pairs of objects found at the same places in what was written and what
\* was read.
RECURSIVE Pairs(_)
Pairs(R) ==
  LET more == UNION {{<<mem[p[1]].fields[i], back.made[p[2]].fields[i]>> :
                        i \in DOMAIN mem[p[1]].fields \cap DOMAIN back.made[p[2]].fields} :
                     p \in {q \in R : q[1] > 0 /\ q[2] > 0}}
  IN  IF more \subseteq R THEN R ELSE Pairs(R \cup more)

Alike(x, y) ==
  IF x <= 0 \/ y <= 0 THEN x = y
  ELSE /\ mem[x].kind = back.made[y].kind
       /\ Len(mem[x].fields) = Len(back.made[y].fields)

HasDictionary == \E x \in Reached(1) : mem[x].kind = "dict"

(* Writing ends; what is written can be read, with comments anywhere, and  *)
(* what is read is equal to what was written, cycles included; after       *)
(* write-shared the same parts are shared as well.  Only dictionaries have *)
(* no syntax the reader knows (write_core, read_label_set).                *)
ReadBack ==
  /\ stage = "comment" => Len(text) <= MaxText
  /\ stage = "done" /\ ~HasDictionary =>
       /\ ~back.dead
       /\ LET R == Pairs({<<1, back.val>>})
          IN  /\ \A p \in R : Alike(p[1], p[2])
              /\ op = "write-shared" =>
                   \A p, q \in R : p[1] > 0 /\ q[1] > 0 => (p[1] = q[1] <=> p[2] = q[2])
=============================================================================
