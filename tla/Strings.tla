------------------------------ MODULE Strings ------------------------------
(***************************************************************************)
(* Strings as ropes (lib/string.c).  A string object points at a rope; a   *)
(* rope is a leaf, whose text lies in its own buffer or in that of its     *)
(* owner, or a node.  Ropes are shared by strings, nodes and slices and    *)
(* counted by hand.  pic_str, which every reader of a string goes through, *)
(* flattens a node into a fresh buffer and turns every node below it into  *)
(* a slice of that buffer, in place, under whoever shares it.              *)
(*                                                                         *)
(* The heap of ropes is a sequence; a freed rope has count 0.  String      *)
(* objects that the program has lost, the temporaries of string-set! among *)
(* them, keep their ropes until the collector finalizes them.              *)
(***************************************************************************)
EXTENDS Integers, Sequences, SequencesExt, FiniteSets, FiniteSetsExt, TLC

CONSTANTS
  Char,     \* characters that string-set! and string-fill! write
  Literals, \* texts that new strings start from
  MaxObj,   \* bound of the runs: strings the program holds
  MaxLen,   \* bound of the runs: length of a string
  MaxRopes, \* bound of the runs: ropes made, the freed ones not counted
  MaxOps,   \* bound of the runs: operations on strings and collections
  MaxLost,  \* bound of the runs: lost strings waiting for the collector
  Garbage   \* what stands in memory that is not a string's

Null == 0

VARIABLES
  heap,  \* the ropes
  rope,  \* the rope of each string object the program holds, or Null
  text,  \* what the program wrote into each string
  lost,  \* ropes of string objects that are garbage, in no order
  ops    \* operations so far

vars == <<heap, rope, text, lost, ops>>

Obj  == 1 .. MaxObj
Held == {o \in Obj : rope[o] # Null}

\* "buf" is the text of a leaf's own buffer; a leaf reads "weight" characters
\* of the buffer of rope "at" from "off" on.
Leaf(buf, w, owner, at, off) ==
  [cnt |-> 1, weight |-> w, isleaf |-> TRUE, owner |-> owner, at |-> at,
   off |-> off, left |-> Null, right |-> Null, buf |-> buf]
Node(w, l, r) ==
  [cnt |-> 1, weight |-> w, isleaf |-> FALSE, owner |-> Null, at |-> Null,
   off |-> 0, left |-> l, right |-> r, buf |-> <<>>]

\* pic_malloc of a rope: the lowest free place.
Fresh(h) == Min({i \in 1 .. Len(h) + 1 : i = Len(h) + 1 \/ h[i].cnt = 0})
Put(h, r) ==
  LET i == Fresh(h)
  IN  [id |-> i, h |-> IF i > Len(h) THEN Append(h, r) ELSE [h EXCEPT ![i] = r]]

incref(h, i) == [h EXCEPT ![i].cnt = @ + 1]

Freed == [Leaf(<<>>, 0, Null, Null, 0) EXCEPT !.cnt = 0]

\* pic_rope_decref
RECURSIVE decref(_, _)
decref(h, i) ==
  LET r == h[i]
      h1 == [h EXCEPT ![i] = Freed]
  IN  IF r.cnt > 1 THEN [h EXCEPT ![i].cnt = @ - 1]
      ELSE IF ~r.isleaf THEN decref(decref(h1, r.left), r.right)
      ELSE IF r.owner # Null THEN decref(h1, r.owner) ELSE h1

\* make_rope_leaf and make_rope_lit
make_rope_leaf(h, s) == Put(h, Leaf(s, Len(s), Null, Fresh(h), 0))

make_rope_slice(h, o, i, j) ==
  LET real == IF h[o].owner = Null THEN o ELSE h[o].owner
      p == Put(h, Leaf(<<>>, j - i, real, h[o].at, h[o].off + i))
  IN  [p EXCEPT !.h = incref(@, real)]

merge(h, l, r) ==
  Put(incref(incref(h, l), r), Node(h[l].weight + h[r].weight, l, r))

RECURSIVE slice(_, _, _, _)
slice(h, r, i, j) ==
  LET lw == h[h[r].left].weight
  IN  IF i = 0 /\ h[r].weight = j THEN [id |-> r, h |-> incref(h, r)]
      ELSE IF h[r].isleaf THEN make_rope_slice(h, r, i, j)
      ELSE IF j <= lw THEN slice(h, h[r].left, i, j)
      ELSE IF lw <= i THEN slice(h, h[r].right, i - lw, j - lw)
      ELSE LET a == slice(h, h[r].left, i, lw)
               b == slice(a.h, h[r].right, 0, j - lw)
               m == merge(b.h, a.id, b.id)
           IN  [id |-> m.id, h |-> decref(decref(m.h, a.id), b.id)]

\* n characters of memory, in the buffer of rope i from "off" on.
Memory(h, i, off, n) ==
  [k \in 1 .. n |-> IF i # Null /\ off + k \in DOMAIN h[i].buf
                    THEN h[i].buf[off + k] ELSE Garbage]

\* The text of a rope as reading its leaves finds it.
RECURSIVE Contents(_, _)
Contents(h, r) ==
  IF ~h[r].isleaf THEN Contents(h, h[r].left) \o Contents(h, h[r].right)
  ELSE Memory(h, h[r].at, h[r].off, h[r].weight)

\* Mutant: the compressed node does not count on the buffer.
CompressUncounted(h, r, o, off) ==
  LET d == decref(decref(h, h[r].left), h[r].right)
  IN  [d EXCEPT ![r].isleaf = TRUE, ![r].owner = o, ![r].at = o, ![r].off = off,
                ![r].left = Null, ![r].right = Null]

\* The path compression at the end of flatten.
Compress(h, r, o, off) ==
  LET d == decref(decref(incref(h, o), h[r].left), h[r].right)
  IN  [d EXCEPT ![r].isleaf = TRUE, ![r].owner = o, ![r].at = o, ![r].off = off,
                ![r].left = Null, ![r].right = Null]

RECURSIVE flatten(_, _, _, _)
flatten(h, r, o, off) ==
  IF h[r].isleaf THEN h
  ELSE LET h1 == flatten(h, h[r].left, o, off)
           h2 == flatten(h1, h[r].right, o, off + h[h[r].left].weight)
       IN  Compress(h2, r, o, off)

\* Mutant: any leaf ends its buffer.
AnyLeaf(h, r) == h[r].isleaf

\* pic_str: the heap afterwards and where the zero-terminated text is.
EndsItsBuffer(h, r) ==
  h[r].isleaf /\ h[r].off + h[r].weight = Len(h[h[r].at].buf)

pic_str(h, r) ==
  IF EndsItsBuffer(h, r)
  THEN [h |-> h, at |-> h[r].at, off |-> h[r].off]
  ELSE LET b == make_rope_leaf(h, Contents(h, r))
       IN  [h |-> flatten(b.h, r, b.id, 0), at |-> b.id, off |-> 0]

\* C strings as strcmp sees them, from a pointer to the end of the buffer.
CString(h, p) == SubSeq(h[p.at].buf, p.off + 1, Len(h[p.at].buf))

-----------------------------------------------------------------------------
\* The program starts with one string.
Init ==
  \E s \in Literals :
    /\ heap = make_rope_leaf(<<>>, s).h /\ lost = <<>> /\ ops = 0
    /\ rope = [o \in Obj |-> IF o = 1 THEN 1 ELSE Null]
    /\ text = [o \in Obj |-> IF o = 1 THEN s ELSE <<>>]

InUse(h) == Cardinality({i \in DOMAIN h : h[i].cnt > 0})
Within(h) == InUse(h) <= MaxRopes
MayLose(n) == Len(lost) + n <= MaxLost
Count == ops < MaxOps /\ ops' = ops + 1

Lose(ropes) == SortSeq(lost \o ropes, <)

\* A new string object for the program.
Hold(o, r, s) ==
  /\ o = Min(Obj \ Held)
  /\ rope' = [rope EXCEPT ![o] = r] /\ text' = [text EXCEPT ![o] = s]

\* pic_str_value: of string, make-string, list->string and literals.
New ==
  /\ Held # Obj
  /\ \E s \in Literals, o \in Obj :
       LET p == make_rope_leaf(heap, s)
       IN  heap' = p.h /\ Hold(o, p.id, s) /\ Within(p.h)
  /\ UNCHANGED lost

\* string-append: starts from the empty literal.
StringAppend ==
  /\ Held # Obj /\ MayLose(2)
  /\ \E a, b \in Held, o \in Obj :
       LET e == make_rope_leaf(heap, <<>>)
           m == merge(e.h, e.id, rope[a])
           n == merge(m.h, m.id, rope[b])
       IN  /\ Len(text[a]) + Len(text[b]) <= MaxLen
           /\ heap' = n.h /\ lost' = Lose(<<e.id, m.id>>)
           /\ Hold(o, n.id, text[a] \o text[b]) /\ Within(n.h)

\* string-copy
StringCopy ==
  /\ Held # Obj
  /\ \E a \in Held, o \in Obj, i, j \in 0 .. MaxLen :
       /\ i <= j /\ j <= Len(text[a])
       /\ LET p == slice(heap, rope[a], i, j)
          IN  /\ heap' = p.h /\ Within(p.h)
              /\ Hold(o, p.id, SubSeq(text[a], i + 1, j))
  /\ UNCHANGED lost

\* str_update, and what becomes garbage: dst gets x y z, where y has replaced
\* what stood between x and z.
Update(h, d, at, y, n) ==
  LET x   == slice(h, rope[d], 0, at)
      z   == slice(x.h, rope[d], at + n, h[rope[d]].weight)
      yz  == merge(z.h, y, z.id)
      xyz == merge(yz.h, x.id, yz.id)
      h1 == decref(incref(xyz.h, xyz.id), rope[d])
  IN  /\ MayLose(5)
      /\ heap' = h1
      /\ rope' = [rope EXCEPT ![d] = xyz.id]
      /\ lost' = Lose(<<x.id, y, z.id, yz.id, xyz.id>>)
      /\ Within(h1)

\* string-set! and string-fill!
StringFill ==
  \E d \in Held, c \in Char, i, j \in 0 .. MaxLen :
    /\ i <= j /\ j <= Len(text[d])
    /\ LET y == make_rope_leaf(heap, [k \in 1 .. j - i |-> c])
       IN  Update(y.h, d, i, y.id, j - i)
    /\ text' = [text EXCEPT ![d] = [k \in DOMAIN @ |-> IF k \in i + 1 .. j THEN c ELSE @[k]]]

\* VALID_ATRANGE
ValidAtRange(tolen, at, fromlen, i, j) ==
  at < tolen /\ i <= j /\ j <= fromlen /\ j - i <= tolen - at

\* string-copy!, also within one string.
StringCopyTo ==
  \E d, a \in Held, at, i, j \in 0 .. MaxLen :
    /\ ValidAtRange(Len(text[d]), at, Len(text[a]), i, j)
    /\ LET y == slice(heap, rope[a], i, j) IN Update(y.h, d, at, y.id, j - i)
    /\ text' = [text EXCEPT ![d] =
                  [k \in DOMAIN @ |-> IF k \in at + 1 .. at + j - i
                                      THEN text[a][k - at + i] ELSE @[k]]]

\* string-ref and whatever else reads a string.
Read ==
  /\ \E a \in Held :
       /\ heap' = pic_str(heap, rope[a]).h
       /\ Within(heap')
  /\ UNCHANGED <<rope, text, lost>>

\* The program drops a string; gc_finalize_object gives up the ropes.
Drop ==
  \E a \in Held :
    /\ MayLose(1)
    /\ lost' = Lose(<<rope[a]>>)
    /\ rope' = [rope EXCEPT ![a] = Null] /\ text' = [text EXCEPT ![a] = <<>>]
    /\ UNCHANGED heap

Collect ==
  /\ lost # <<>>
  /\ heap' = FoldLeft(decref, heap, lost) /\ lost' = <<>>
  /\ UNCHANGED <<rope, text>>

Next ==
  /\ Count
  /\ New \/ StringAppend \/ StringCopy \/ StringFill \/ StringCopyTo
     \/ Read \/ Drop \/ Collect

Spec == Init /\ [][Next]_vars

-----------------------------------------------------------------------------
\* string=? calls pic_str on one string, then on the other, and compares what
\* the pointers show.
ReadTogether ==
  \A a, b \in Held :
    LET p == pic_str(heap, rope[a])
        q == pic_str(p.h, rope[b])
    IN  /\ q.h[p.at].cnt > 0 /\ CString(q.h, p) = text[a]
        /\ q.h[q.at].cnt > 0 /\ CString(q.h, q) = text[b]

(* Every string reads as what was written into it and is as long as it     *)
(* was, whatever was written since into strings it was copied from or      *)
(* shares ropes with, and whoever flattened a rope below it (string-set!,  *)
(* flatten; string-map reads up to a length it took before its callbacks). *)
(* Two strings can be read at once: flattening the second leaves the first *)
(* in place, and both end where their strings end.                         *)
Texts ==
  /\ \A o \in Held : /\ Contents(heap, rope[o]) = text[o]
                     /\ heap[rope[o]].weight = Len(text[o])
  /\ ReadTogether

\* Who refers to rope i: strings, garbage not yet finalized, nodes and slices.
Holders(i) ==
  Cardinality({o \in Held : rope[o] = i})
  + Cardinality({k \in DOMAIN lost : lost[k] = i})
  + Cardinality({n \in DOMAIN heap : heap[n].cnt > 0 /\ heap[n].left = i})
  + Cardinality({n \in DOMAIN heap : heap[n].cnt > 0 /\ heap[n].right = i})
  + Cardinality({n \in DOMAIN heap : heap[n].cnt > 0 /\ heap[n].owner = i})

(* A rope's count is the number of its holders, so that it is freed when   *)
(* the last of them goes and not before; only a buffer that pic_str made   *)
(* is counted once more, by the call itself, which never gives it up.      *)
CountsHolders ==
  \A i \in DOMAIN heap :
    \/ heap[i].cnt = Holders(i)
    \/ /\ heap[i].cnt = Holders(i) + 1
       /\ heap[i].isleaf /\ heap[i].owner = Null
=============================================================================
