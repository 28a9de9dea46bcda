---------------------------- MODULE WindsProofs ----------------------------
(***************************************************************************)
(* Proofs about Winds, for any number of calls: whatever escapes, errors,  *)
(* guards and evals there were, extents are entered and left in order.     *)
(***************************************************************************)
EXTENDS Winds, SequenceTheorems, TLAPS

\* The operators below are about a stack s, the chains c of the extents and
\* the number m of those made so far, so that what holds of the stack of one
\* state can be said of a part of it and of the next one.

Kinds == {"in", "wind", "out", "callcc", "guard", "eval", "escape", "thunk"}
Call == [kind : Kinds, id : 0 .. MaxMade, save : Seq(Extent), here : Seq(Extent),
         raised : SUBSET Seq(Extent), inside : SUBSET Extent]

\* Calls that were numbered when they were made.
Numbered == {"in", "wind", "out", "callcc", "guard"}

(* A list of extents, the innermost and youngest first: each of them has   *)
(* only been in force inside the rest of the list.                         *)
Proper(c, m, l) ==
  /\ l \in Seq(Extent)
  /\ \A p \in 1 .. Len(l) :
       /\ l[p] <= m /\ Len(c[l[p]]) = Len(l) - p + 1
       /\ \A q \in p .. Len(l) : c[l[p]][q - p + 1] = l[q]
  /\ \A p, q \in 1 .. Len(l) : p < q => l[q] < l[p]

\* The list in force inside of the first i - 1 calls.
Below(s, i) ==
  IF i = 1 THEN <<>>
  ELSE IF s[i - 1].kind = "wind" THEN <<s[i - 1].id>> \o s[i - 1].save
  ELSE s[i - 1].save

\* Call b is the innermost thunk of a do-wind that call i is in, if not 0.
IsBase(s, b, i) ==
  /\ b \in 0 .. i - 1
  /\ b > 0 => s[b].kind = "thunk"
  /\ \A j \in b + 1 .. i - 1 : s[j].kind # "thunk"

\* In a thunk of do-wind the list still is as it was when do-wind began.  The
\* extents in force are those that were when the thunk was called, and those
\* that were put on the list since.
BaseList(s, b)   == IF b = 0 THEN {} ELSE Extents(s[b].save)
BaseInside(s, b) == IF b = 0 THEN {} ELSE s[b].inside
InForce(s, b, l) == (Extents(l) \ BaseList(s, b)) \cup BaseInside(s, b)

\* A list of the same thunk.
SameBase(s, b, l) ==
  /\ BaseList(s, b) \subseteq Extents(l)
  /\ (Extents(l) \ BaseList(s, b)) \cap BaseInside(s, b) = {}

-----------------------------------------------------------------------------
(* What holds of call i, which depends on the calls it is in only.         *)

ProperLists(f, c, m) ==
  /\ Proper(c, m, f.save) /\ Proper(c, m, f.here)
  /\ \A l \in f.raised : Proper(c, m, l)

EnteredExtents(f, c) ==
  /\ f.kind = "in" => c[f.id] = <<>>
  /\ \A e \in f.inside : c[e] # <<>>

InOrder(s, i, m) ==
  /\ s[i].kind \in Numbered =>
       /\ s[i].id \in 1 .. m
       /\ \A e \in Extents(s[i].save) : e < s[i].id
       /\ \A j \in 1 .. i - 1 : s[j].kind \in Numbered => s[j].id < s[i].id
  /\ s[i].kind = "escape" =>
       \A j \in 1 .. i - 1 :
         s[j].kind \in {"callcc", "guard"} /\ s[j].id = s[i].id => s[i].save = s[j].save

Nested(s, i) ==
  /\ s[i].kind = "thunk" =>
       i > 1 /\ s[i - 1].kind = "escape" /\ s[i - 1].here # s[i - 1].save
  /\ i > 1 => (s[i - 1].kind = "escape" => s[i].kind = "thunk")
  /\ s[i].kind \notin {"thunk", "escape"} =>
       /\ s[i].save = Below(s, i)
       /\ (\A j \in 1 .. i - 1 : s[j].kind \notin {"thunk", "escape"}) =>
            Extents(s[i].save) =
              {s[j].id : j \in {k \in 1 .. i - 1 : s[k].kind = "wind"}}

OneRegion(s, i, b) ==
  /\ SameBase(s, b, s[i].save)
  /\ s[i].kind = "escape" =>
       SameBase(s, b, s[i].here) /\ \A l \in s[i].raised : SameBase(s, b, l)
  /\ s[i].kind = "thunk" /\ i > 1 =>
       s[i].inside = InForce(s, b, IF Entering(s[i - 1]) THEN s[i - 1].here
                                   ELSE Tail(s[i - 1].here))

InPlace(s, i, c, m) ==
  /\ ProperLists(s[i], c, m) /\ EnteredExtents(s[i], c)
  /\ InOrder(s, i, m) /\ Nested(s, i)

\* An escape is in the thunk of a do-wind that its target is in.
NoThunkLeft(s, i) ==
  s[i].kind = "escape" =>
    \A j \in 1 .. i - 1 :
      s[j].kind \in {"callcc", "guard"} /\ s[j].id = s[i].id =>
        \A k \in j + 1 .. i - 1 : s[k].kind # "thunk"

InRegion(s, i) ==
  /\ NoThunkLeft(s, i)
  /\ \A b \in 0 .. i - 1 : IsBase(s, b, i) => OneRegion(s, i, b)

\* "tidy" is that no thunk of a do-wind was left by a jump.
StackInPlace(s, c, m, tidy) ==
  /\ s \in Seq(Call)
  /\ \A i \in 1 .. Len(s) : InPlace(s, i, c, m) /\ (tidy => InRegion(s, i))

-----------------------------------------------------------------------------
(* The invariant.                                                          *)
WindTypeOK ==
  /\ checkpoints \in Seq(Extent) /\ saved \subseteq [id : Extent, save : Seq(Extent)]
  /\ made \in 0 .. MaxMade /\ status \in {"run", "error", "over"}
  /\ inside \subseteq Extent /\ chain \in [Extent -> Seq(Extent)] /\ astray \in BOOLEAN

(* Only what was made was entered.                                         *)
ExtentsInPlace ==
  /\ Proper(chain, made, checkpoints) /\ \A e \in inside : chain[e] # <<>>
  /\ \A e \in Extent : e > made => chain[e] = <<>>

SavedInPlace ==
  \A k \in saved :
    /\ k.id <= made /\ Proper(chain, made, k.save)
    /\ \A i \in 1 .. Len(stack) :
         stack[i].kind \in {"callcc", "guard"} /\ stack[i].id = k.id =>
           k.save = stack[i].save

EscapeOnTop(s) == s # <<>> /\ s[Len(s)].kind = "escape"

\* The list whose extents are in force.
Current(s, st, l) == IF st = "run" /\ EscapeOnTop(s) THEN s[Len(s)].here ELSE l

TopInPlace ==
  /\ status = "run" /\ ~EscapeOnTop(stack) => checkpoints = Below(stack, Len(stack) + 1)
  /\ status = "error" => ~EscapeOnTop(stack)

NowInRegion ==
  ~astray /\ status # "over" =>
    \A b \in 0 .. Len(stack) : IsBase(stack, b, Len(stack) + 1) =>
      /\ SameBase(stack, b, checkpoints)
      /\ inside = InForce(stack, b, Current(stack, status, checkpoints))

IInv ==
  /\ WindTypeOK /\ StackInPlace(stack, chain, made, ~astray)
  /\ ExtentsInPlace /\ SavedInPlace /\ TopInPlace /\ NowInRegion

-----------------------------------------------------------------------------
(* Lists of extents.                                                       *)

(* A list of the last extents of l, l without its first k - 1.             *)
LEMMA ProperPart ==
  ASSUME NEW c, NEW m, NEW l, Proper(c, m, l),
         NEW k \in 1 .. Len(l) + 1, NEW r \in Seq(Extent),
         Len(r) = Len(l) - k + 1, \A p \in 1 .. Len(r) : r[p] = l[p + k - 1]
  PROVE  Proper(c, m, r)
<1>1. /\ Len(l) \in Nat /\ k \in Nat /\ Len(r) \in Nat
      /\ \A p \in 1 .. Len(r) : p + k - 1 \in 1 .. Len(l) /\ r[p] = l[p + k - 1]
      /\ \A p \in 1 .. Len(r) : Len(l) - (p + k - 1) + 1 = Len(r) - p + 1
  <2>1. Len(l) \in Nat /\ Len(r) \in Nat
    BY DEF Proper
  <2>2. PICK n \in Nat, o \in Nat : n = Len(l) /\ o = Len(r)
    BY <2>1
  <2>3. k \in 1 .. n + 1 /\ o = n - k + 1
    BY <2>2
  <2>4. k \in Nat /\ \A p \in 1 .. o : p + k - 1 \in 1 .. n /\ n - (p + k - 1) + 1 = o - p + 1
    BY <2>3
  <2>. QED
    BY <2>2, <2>4
<1>2. ASSUME NEW p \in 1 .. Len(r), NEW q \in p .. Len(r)
      PROVE  c[r[p]][q - p + 1] = r[q]
  <2>1. /\ p + k - 1 \in 1 .. Len(l) /\ q + k - 1 \in (p + k - 1) .. Len(l)
        /\ (q + k - 1) - (p + k - 1) + 1 = q - p + 1 /\ q \in 1 .. Len(r)
    BY <1>1
  <2>2. c[l[p + k - 1]][(q + k - 1) - (p + k - 1) + 1] = l[q + k - 1]
    BY <2>1 DEF Proper
  <2>. QED
    BY <1>1, <2>1, <2>2
<1>3. ASSUME NEW p \in 1 .. Len(r)
      PROVE  r[p] <= m /\ Len(c[r[p]]) = Len(r) - p + 1
  BY <1>1 DEF Proper
<1>4. ASSUME NEW p \in 1 .. Len(r), NEW q \in 1 .. Len(r), p < q
      PROVE  r[q] < r[p]
  <2>1. p + k - 1 < q + k - 1
    BY <1>1, <1>4
  <2>. QED
    BY <1>1, <2>1 DEF Proper
<1>. QED
  BY <1>2, <1>3, <1>4 DEF Proper

(* The extents of a list, by their places.                                 *)
LEMMA ExtentsOfList ==
  ASSUME NEW l \in Seq(Extent)
  PROVE  /\ Extents(l) = {l[p] : p \in 1 .. Len(l)} /\ Extents(l) \subseteq Extent
         /\ DOMAIN l = 1 .. Len(l) /\ Len(l) \in Nat
  BY DEF Extents

(* The extents of a proper list were entered.                              *)
LEMMA ProperEntered ==
  ASSUME NEW c, NEW m, NEW l, Proper(c, m, l), NEW e \in Extents(l)
  PROVE  c[e] # <<>> /\ e <= m /\ e \in Extent
<1>1. l \in Seq(Extent) /\ Len(l) \in Nat
  BY DEF Proper
<1>2. PICK p \in 1 .. Len(l) : e = l[p]
  BY <1>1, ExtentsOfList
<1>3. Len(c[e]) = Len(l) - p + 1 /\ e <= m
  BY <1>2 DEF Proper
<1>4. Len(c[e]) # 0
  BY <1>1, <1>3
<1>5. c[e] # <<>>
  BY <1>4
<1>. QED
  BY <1>1, <1>2, <1>3, <1>5, ExtentsOfList

(* What was entered stays entered as it was, and more is made.             *)
LEMMA ProperKept ==
  ASSUME NEW c, NEW m \in Nat, NEW d, NEW n \in Nat, m <= n,
         \A e \in Extent : c[e] # <<>> => d[e] = c[e],
         NEW l, Proper(c, m, l)
  PROVE  Proper(d, n, l)
<1>1. l \in Seq(Extent) /\ Len(l) \in Nat
  BY DEF Proper
<1>2. ASSUME NEW p \in 1 .. Len(l)
      PROVE  l[p] \in Extent /\ l[p] <= n /\ d[l[p]] = c[l[p]]
  <2>1. l[p] \in Extents(l)
    BY <1>1, ExtentsOfList
  <2>2. c[l[p]] # <<>> /\ l[p] <= m /\ l[p] \in Extent
    BY <2>1, ProperEntered
  <2>. QED
    BY <2>2, WindsAssumption DEF Extent
<1>3. ASSUME NEW p \in 1 .. Len(l)
      PROVE  /\ l[p] <= n /\ Len(d[l[p]]) = Len(l) - p + 1
             /\ \A q \in p .. Len(l) : d[l[p]][q - p + 1] = l[q]
  <2>1. /\ Len(c[l[p]]) = Len(l) - p + 1
        /\ \A q \in p .. Len(l) : c[l[p]][q - p + 1] = l[q]
    BY DEF Proper
  <2>. QED
    BY <1>2, <2>1
<1>4. \A p, q \in 1 .. Len(l) : p < q => l[q] < l[p]
  BY DEF Proper
<1>. QED
  BY ZenonT(30), <1>1, <1>3, <1>4 DEF Proper

(* A list without its first extent.                                        *)
LEMMA ProperTail ==
  ASSUME NEW c \in [Extent -> Seq(Extent)], NEW m, NEW l, Proper(c, m, l), l # <<>>
  PROVE  /\ Proper(c, m, Tail(l)) /\ Head(l) \in Extents(l)
         /\ Extents(Tail(l)) = Extents(l) \ {Head(l)}
         /\ Extents(c[Head(l)]) = Extents(l)
<1>1. l \in Seq(Extent) /\ Len(l) \in Nat /\ Len(l) > 0
  BY EmptySeq DEF Proper
<1>2. /\ Tail(l) \in Seq(Extent) /\ Len(Tail(l)) = Len(l) - 1
      /\ \A p \in 1 .. Len(Tail(l)) : Tail(l)[p] = l[p + 1]
  BY <1>1, HeadTailProperties
<1>3. PICK r \in Seq(Extent) : r = Tail(l)
  BY <1>2
<1>4. /\ Len(r) = Len(l) - 2 + 1 /\ \A p \in 1 .. Len(r) : r[p] = l[p + 2 - 1]
      /\ 2 \in 1 .. Len(l) + 1
  BY <1>1, <1>2, <1>3
<1>5. Proper(c, m, r)
  BY <1>4, ProperPart
<1>6. 1 \in 1 .. Len(l) /\ Head(l) = l[1] /\ Head(l) \in Extents(l)
  BY <1>1, ExtentsOfList
<1>7. ASSUME NEW e
      PROVE  e \in Extents(r) <=> e \in Extents(l) /\ e # Head(l)
  <2>1. e \in Extents(r) <=> \E p \in 1 .. Len(r) : e = r[p]
    BY ExtentsOfList
  <2>2. e \in Extents(l) <=> \E p \in 1 .. Len(l) : e = l[p]
    BY <1>1, ExtentsOfList
  <2>3. ASSUME NEW p \in 1 .. Len(r)
        PROVE  p + 1 \in 1 .. Len(l) /\ r[p] = l[p + 1] /\ r[p] # l[1]
    <3>1. p + 1 \in 1 .. Len(l) /\ 1 < p + 1 /\ r[p] = l[p + 1]
      BY <1>1, <1>4
    <3>2. l[p + 1] < l[1]
      BY <1>6, <3>1 DEF Proper
    <3>3. l[1] \in Nat
      <4>1. l[1] \in Extent
        BY <1>1, <1>6
      <4>. QED
        BY SMTT(30), <4>1, WindsAssumption DEF Extent
    <3>. QED
      BY <3>1, <3>2, <3>3
  <2>4. ASSUME NEW p \in 1 .. Len(l), p # 1
        PROVE  p - 1 \in 1 .. Len(r) /\ l[p] = r[p - 1]
    <3>1. p - 1 \in 1 .. Len(r) /\ p - 1 + 2 - 1 = p
      BY <1>1, <1>4, <2>4
    <3>. QED
      BY <1>4, <3>1
  <2>. QED
    BY <1>6, <2>1, <2>2, <2>3, <2>4
<1>8. Extents(r) = Extents(l) \ {Head(l)}
  BY <1>7
<1>9. Extents(c[Head(l)]) = Extents(l)
  <2>1. /\ Len(c[Head(l)]) = Len(l)
        /\ \A q \in 1 .. Len(l) : c[Head(l)][q] = l[q]
    <3>1. /\ Len(c[l[1]]) = Len(l) - 1 + 1
          /\ \A q \in 1 .. Len(l) : c[l[1]][q - 1 + 1] = l[q]
      BY <1>6 DEF Proper
    <3>2. \A q \in 1 .. Len(l) : q - 1 + 1 = q
      OBVIOUS
    <3>. QED
      BY <1>1, <1>6, <3>1, <3>2
  <2>2. c[Head(l)] \in Seq(Extent)
    BY <1>1, <1>6, ExtentsOfList
  <2>3. Extents(c[Head(l)]) = {c[Head(l)][q] : q \in 1 .. Len(l)}
    BY <2>1, <2>2, ExtentsOfList
  <2>4. Extents(l) = {l[q] : q \in 1 .. Len(l)}
    BY <1>1, ExtentsOfList
  <2>. QED
    BY <2>1, <2>3, <2>4
<1>. QED
  BY <1>3, <1>5, <1>6, <1>8, <1>9

(* The last n extents of a list.                                           *)
LEMMA OuterProper ==
  ASSUME NEW c, NEW m, NEW l, Proper(c, m, l), NEW n \in 0 .. Len(l)
  PROVE  /\ Outer(l, n) \in Seq(Extent) /\ Len(Outer(l, n)) = n
         /\ \A p \in 1 .. n : Outer(l, n)[p] = l[Len(l) - n + p]
         /\ Proper(c, m, Outer(l, n))
<1>1. PICK k : k = Len(l) - n + 1
  OBVIOUS
<1>2. l \in Seq(Extent) /\ Len(l) \in Nat
  BY DEF Proper
<1>3. /\ k \in 1 .. Len(l) + 1 /\ n = Len(l) - k + 1 /\ n \in Nat
      /\ \A p \in Int : k + p - 1 = Len(l) - n + p /\ p + k - 1 = k + p - 1
  BY <1>1, <1>2
<1>4. \A p \in k .. Len(l) : l[p] \in Extent
  <2>1. \A p \in k .. Len(l) : p \in 1 .. Len(l)
    BY <1>2, <1>3
  <2>. QED
    BY <1>2, <2>1
<1>5. /\ SubSeq(l, k, Len(l)) \in Seq(Extent)
      /\ Len(SubSeq(l, k, Len(l))) = IF k <= Len(l) THEN Len(l) - k + 1 ELSE 0
      /\ \A p \in 1 .. Len(l) - k + 1 : SubSeq(l, k, Len(l))[p] = l[k + p - 1]
  BY <1>2, <1>3, <1>4, SubSeqProperties
<1>6. PICK r \in Seq(Extent) : r = SubSeq(l, k, Len(l))
  BY <1>5
<1>7. Len(r) = n /\ \A p \in 1 .. n : r[p] = l[k + p - 1]
  BY <1>2, <1>3, <1>5, <1>6
<1>8. Proper(c, m, r)
  <2>1. Len(r) = Len(l) - k + 1 /\ \A p \in 1 .. Len(r) : r[p] = l[p + k - 1]
    BY <1>3, <1>7
  <2>. QED
    BY <1>3, <2>1, ProperPart
<1>9. Outer(l, n) = r
  BY <1>1, <1>6 DEF Outer
<1>. QED
  BY <1>3, <1>7, <1>8, <1>9

(* Entering: the next extent of "save" joins the list.                     *)
LEMMA EnterStep ==
  ASSUME NEW c \in [Extent -> Seq(Extent)], NEW m, NEW f, Entering(f),
         Proper(c, m, f.save), Proper(c, m, f.here)
  PROVE  /\ Proper(c, m, Reached(f))
         /\ NextExtent(f) \in Extents(f.save) /\ NextExtent(f) \notin Extents(f.here)
         /\ Extents(Reached(f)) = Extents(f.here) \cup {NextExtent(f)}
         /\ Extents(c[NextExtent(f)]) = Extents(Reached(f))
<1>1. PICK s, h : s = f.save /\ h = f.here
  OBVIOUS
<1>2. /\ s \in Seq(Extent) /\ h \in Seq(Extent) /\ Len(s) \in Nat /\ Len(h) \in Nat
      /\ Len(h) < Len(s) /\ h = Outer(s, Len(h)) /\ Proper(c, m, s)
  BY <1>1 DEF Entering, Proper
<1>3. PICK n \in Nat, o \in Nat : n = Len(h) /\ o = Len(s)
  BY <1>2
<1>4. n \in 0 .. Len(s) /\ n + 1 \in 0 .. Len(s) /\ o - n \in 1 .. o
  BY <1>2, <1>3
<1>5. \A p \in 1 .. n : h[p] = s[o - n + p]
  <2>1. Proper(c, m, s) /\ n \in 0 .. Len(s)
    BY <1>2, <1>4
  <2>2. \A p \in 1 .. n : Outer(s, n)[p] = s[Len(s) - n + p]
    BY <2>1, OuterProper
  <2>. QED
    BY <1>2, <1>3, <2>2
<1>6. PICK r : r = Outer(s, n + 1)
  OBVIOUS
<1>7. /\ r \in Seq(Extent) /\ Len(r) = n + 1 /\ Proper(c, m, r)
      /\ \A p \in 1 .. n + 1 : r[p] = s[o - (n + 1) + p]
  <2>1. /\ Outer(s, n + 1) \in Seq(Extent) /\ Len(Outer(s, n + 1)) = n + 1
        /\ \A p \in 1 .. n + 1 : Outer(s, n + 1)[p] = s[Len(s) - (n + 1) + p]
        /\ Proper(c, m, Outer(s, n + 1))
    BY Zenon, <1>2, <1>4, OuterProper
  <2>. QED
    BY <1>3, <1>6, <2>1
<1>8. r # <<>> /\ Head(r) = r[1] /\ r[1] = s[o - n]
  <2>1. Len(r) # 0
    BY <1>7
  <2>2. o - (n + 1) + 1 = o - n /\ 1 \in 1 .. n + 1
    OBVIOUS
  <2>3. r # <<>>
    BY <2>1
  <2>. QED
    BY <1>7, <2>2, <2>3
<1>9. Tail(r) = h
  <2>1. /\ Tail(r) \in Seq(Extent) /\ Len(Tail(r)) = Len(r) - 1
        /\ \A p \in 1 .. Len(Tail(r)) : Tail(r)[p] = r[p + 1]
    BY <1>7, <1>8, HeadTailProperties
  <2>2. Len(Tail(r)) = n
    BY <1>7, <2>1
  <2>3. ASSUME NEW p \in 1 .. n
        PROVE  Tail(r)[p] = h[p]
    <3>1. p + 1 \in 1 .. n + 1 /\ o - (n + 1) + (p + 1) = o - n + p
      OBVIOUS
    <3>. QED
      BY ZenonT(30), <1>5, <1>7, <2>1, <2>2, <3>1
  <2>4. PICK t \in Seq(Extent) : t = Tail(r)
    BY <2>1
  <2>5. Len(t) = Len(h) /\ \A p \in 1 .. Len(t) : t[p] = h[p]
    BY <1>3, <2>2, <2>3, <2>4
  <2>6. t = h
    BY <1>2, <2>5, SeqEqual
  <2>. QED
    BY <2>4, <2>6
<1>10. /\ s[o - n] \in Extents(r) /\ Extents(h) = Extents(r) \ {s[o - n]}
       /\ Extents(c[s[o - n]]) = Extents(r)
  <2>1. /\ Head(r) \in Extents(r) /\ Extents(Tail(r)) = Extents(r) \ {Head(r)}
        /\ Extents(c[Head(r)]) = Extents(r)
    BY Zenon, <1>7, <1>8, ProperTail
  <2>2. Head(r) = s[o - n]
    BY <1>8
  <2>. QED
    BY Zenon, <1>9, <2>1, <2>2
<1>11. s[o - n] \in Extents(s)
  <2>1. o - n \in 1 .. Len(s)
    BY <1>3, <1>4
  <2>. QED
    BY <1>2, <2>1, ExtentsOfList
<1>12. NextExtent(f) = s[o - n] /\ Reached(f) = r
  BY <1>1, <1>3, <1>6 DEF NextExtent, Reached
<1>. QED
  BY <1>1, <1>7, <1>10, <1>11, <1>12

(* Leaving: the innermost extent, which is not to be kept, leaves the list. *)
LEMMA LeaveStep ==
  ASSUME NEW c \in [Extent -> Seq(Extent)], NEW m, NEW f, ~Entering(f), f.here # f.save,
         Proper(c, m, f.save), Proper(c, m, f.here)
  PROVE  /\ Reached(f) = Tail(f.here) /\ Proper(c, m, Tail(f.here))
         /\ NextExtent(f) \in Extents(f.here) /\ NextExtent(f) \notin Extents(f.save)
         /\ Extents(Tail(f.here)) = Extents(f.here) \ {NextExtent(f)}
         /\ Extents(c[NextExtent(f)]) = Extents(f.here)
<1>1. PICK s, h : s = f.save /\ h = f.here
  OBVIOUS
<1>2. /\ s \in Seq(Extent) /\ h \in Seq(Extent) /\ Len(s) \in Nat /\ Len(h) \in Nat
      /\ Proper(c, m, s) /\ Proper(c, m, h) /\ h # s
  BY <1>1 DEF Proper
<1>3. Reached(f) = Tail(h) /\ NextExtent(f) = Head(h)
  BY <1>1 DEF Reached, NextExtent
<1>4. \A n \in 0 .. Len(s) : n = Len(h) => h # Outer(s, n)
  <2>1. ASSUME NEW n \in 0 .. Len(s), n = Len(h), h = Outer(s, n)
        PROVE  FALSE
    <3>1. CASE n < Len(s)
      BY <1>1, <2>1, <3>1 DEF Entering
    <3>2. CASE n = Len(s)
      <4>1. Len(s) - n + 1 = 1
        BY <1>2, <3>2
      <4>2. Outer(s, n) = s
        BY <1>2, <4>1, SubSeqFull DEF Outer
      <4>. QED
        BY <1>2, <2>1, <4>2
    <3>3. n < Len(s) \/ n = Len(s)
      BY <1>2
    <3>. QED
      BY <3>1, <3>2, <3>3
  <2>. QED
    BY <2>1
<1>5. h # <<>>
  <2>1. ASSUME h = <<>>
        PROVE  FALSE
    <3>1. Len(h) = 0 /\ 0 \in 0 .. Len(s)
      BY <1>2, <2>1
    <3>2. Outer(s, 0) \in Seq(Extent) /\ Len(Outer(s, 0)) = 0
      BY <1>2, <3>1, OuterProper
    <3>3. Outer(s, 0) = h
      BY <2>1, <3>2, EmptySeq
    <3>. QED
      BY <1>4, <3>1, <3>3
  <2>. QED
    BY <2>1
<1>6. /\ Proper(c, m, Tail(h)) /\ Head(h) \in Extents(h)
      /\ Extents(Tail(h)) = Extents(h) \ {Head(h)} /\ Extents(c[Head(h)]) = Extents(h)
  BY <1>2, <1>5, ProperTail
<1>7. Head(h) \notin Extents(s)
  <2>1. ASSUME NEW k \in 1 .. Len(s), s[k] = Head(h)
        PROVE  FALSE
    <3>1. PICK n \in Nat, o \in Nat : n = Len(h) /\ o = Len(s)
      BY <1>2
    <3>2. Head(h) = h[1] /\ 1 \in 1 .. n /\ k \in 1 .. o /\ k \in Nat
      <4>1. n # 0
        BY <1>2, <1>5, <3>1, EmptySeq
      <4>. QED
        BY <1>2, <1>5, <2>1, <3>1, <4>1
    <3>3. /\ Len(c[h[1]]) = n - 1 + 1
          /\ \A q \in 1 .. n : c[h[1]][q - 1 + 1] = h[q]
      BY <1>2, <3>1, <3>2 DEF Proper
    <3>4. /\ Len(c[h[1]]) = o - k + 1
          /\ \A q \in k .. o : c[h[1]][q - k + 1] = s[q]
      <4>1. /\ Len(c[s[k]]) = Len(s) - k + 1
            /\ \A q \in k .. Len(s) : c[s[k]][q - k + 1] = s[q]
        BY Zenon, <1>2 DEF Proper
      <4>2. s[k] = h[1]
        BY <2>1, <3>2
      <4>. QED
        BY Zenon, <3>1, <4>1, <4>2
    <3>5. n = o - k + 1 /\ n \in 0 .. o
      BY <3>2, <3>3, <3>4
    <3>6. ASSUME NEW p \in 1 .. n
          PROVE  h[p] = s[o - n + p]
      <4>1. p - 1 + 1 = p /\ o - n + p \in k .. o /\ (o - n + p) - k + 1 = p
        BY <3>2, <3>5
      <4>. QED
        BY <3>3, <3>4, <4>1
    <3>7. PICK t \in Seq(Extent) : t = Outer(s, n) /\ Len(t) = n
                                   /\ \A p \in 1 .. n : t[p] = s[o - n + p]
      <4>1. /\ Outer(s, n) \in Seq(Extent) /\ Len(Outer(s, n)) = n
            /\ \A p \in 1 .. n : Outer(s, n)[p] = s[Len(s) - n + p]
        <5>1. Proper(c, m, s) /\ n \in 0 .. Len(s)
          BY <1>2, <3>1, <3>5
        <5>. QED
          BY <5>1, OuterProper
      <4>. QED
        BY Zenon, <3>1, <4>1
    <3>8. Len(h) = Len(t) /\ \A p \in 1 .. Len(h) : h[p] = t[p]
      BY <3>1, <3>6, <3>7
    <3>9. h = t
      BY <1>2, <3>8, SeqEqual
    <3>. QED
      BY <1>4, <3>1, <3>5, <3>7, <3>9
  <2>. QED
    BY <1>2, <2>1, ExtentsOfList
<1>. QED
  BY <1>1, <1>3, <1>6, <1>7

-----------------------------------------------------------------------------
(* Stacks of calls.                                                        *)

(* What a stack is up to call n only depends on the calls up to n.         *)
LEMMA SameBases ==
  ASSUME NEW s, NEW t, NEW n \in Nat, \A j \in 1 .. n : t[j] = s[j]
  PROVE  /\ \A i \in 1 .. n + 1 : Below(t, i) = Below(s, i)
         /\ \A i \in 1 .. n + 1 : \A b \in 0 .. i - 1 : IsBase(t, b, i) => IsBase(s, b, i)
         /\ \A b \in 0 .. n : /\ BaseList(t, b) = BaseList(s, b)
                              /\ BaseInside(t, b) = BaseInside(s, b)
         /\ \A b \in 0 .. n : \A l : SameBase(s, b, l) => SameBase(t, b, l)
         /\ \A b \in 0 .. n : \A l : InForce(t, b, l) = InForce(s, b, l)
<1>1. ASSUME NEW i \in 1 .. n + 1
      PROVE  Below(t, i) = Below(s, i)
  <2>1. i # 1 => i - 1 \in 1 .. n
    OBVIOUS
  <2>2. i # 1 => t[i - 1] = s[i - 1]
    BY <2>1
  <2>. QED
    BY <2>2 DEF Below
<1>2. ASSUME NEW i \in 1 .. n + 1, NEW b \in 0 .. i - 1
      PROVE  IsBase(t, b, i) => IsBase(s, b, i)
  <2>1. \A j \in b + 1 .. i - 1 : j \in 1 .. n
    OBVIOUS
  <2>2. b > 0 => b \in 1 .. n
    OBVIOUS
  <2>. QED
    BY <2>1, <2>2 DEF IsBase
<1>3. ASSUME NEW b \in 0 .. n
      PROVE  BaseList(t, b) = BaseList(s, b) /\ BaseInside(t, b) = BaseInside(s, b)
  <2>1. b # 0 => b \in 1 .. n
    OBVIOUS
  <2>2. b # 0 => t[b] = s[b]
    BY <2>1
  <2>. QED
    BY <2>2 DEF BaseList, BaseInside
<1>4. /\ \A b \in 0 .. n : \A l : SameBase(s, b, l) => SameBase(t, b, l)
      /\ \A b \in 0 .. n : \A l : InForce(t, b, l) = InForce(s, b, l)
  BY <1>3 DEF SameBase, InForce
<1>. QED
  BY <1>1, <1>2, <1>3, <1>4

(* The same, said of one thunk.                                            *)
LEMMA BaseKept ==
  ASSUME NEW s, NEW t, NEW n \in Nat, \A j \in 1 .. n : t[j] = s[j],
         NEW i \in 1 .. n + 1, NEW b, IsBase(t, b, i)
  PROVE  IsBase(s, b, i) /\ b \in 0 .. n
<1>1. b \in 0 .. i - 1 /\ b \in 0 .. n
  BY DEF IsBase
<1>2. \A j \in b + 1 .. i - 1 : j \in 1 .. n
  BY <1>1
<1>3. b > 0 => b \in 1 .. n
  BY <1>1
<1>. QED
  BY <1>1, <1>2, <1>3 DEF IsBase

(* And of one list.                                                        *)
LEMMA ListKept ==
  ASSUME NEW s, NEW t, NEW n \in Nat, \A j \in 1 .. n : t[j] = s[j],
         NEW b \in 0 .. n, NEW l
  PROVE  InForce(t, b, l) = InForce(s, b, l) /\ (SameBase(s, b, l) => SameBase(t, b, l))
<1>1. b = 0 \/ t[b] = s[b]
  <2>1. b = 0 \/ b \in 1 .. n
    OBVIOUS
  <2>. QED
    BY <2>1
<1>2. BaseList(t, b) = BaseList(s, b) /\ BaseInside(t, b) = BaseInside(s, b)
  BY <1>1 DEF BaseList, BaseInside
<1>. QED
  BY <1>2 DEF SameBase, InForce

(* What holds of a call does so whatever calls it makes.                   *)
LEMMA SameCalls ==
  ASSUME NEW s, NEW t, NEW c, NEW m, NEW i \in Nat, i > 0, \A j \in 1 .. i : t[j] = s[j]
  PROVE  /\ InPlace(s, i, c, m) => InPlace(t, i, c, m)
         /\ InRegion(s, i) => InRegion(t, i)
<1>1. i \in 1 .. i /\ i \in 1 .. i + 1 /\ t[i] = s[i]
  OBVIOUS
<1>2. \A j \in 1 .. i - 1 : t[j] = s[j]
  OBVIOUS
<1>3. i > 1 => t[i - 1] = s[i - 1]
  <2>1. i > 1 => i - 1 \in 1 .. i - 1
    OBVIOUS
  <2>. QED
    BY <1>2, <2>1
<1>4. Below(t, i) = Below(s, i)
  BY <1>1, SameBases
<1>5. InOrder(s, i, m) => InOrder(t, i, m)
  BY <1>1, <1>2 DEF InOrder
<1>6. Nested(s, i) => Nested(t, i)
  <2>1. (\A j \in 1 .. i - 1 : t[j].kind \notin {"thunk", "escape"}) =>
          (\A j \in 1 .. i - 1 : s[j].kind \notin {"thunk", "escape"})
    BY <1>2
  <2>2. {t[j].id : j \in {k \in 1 .. i - 1 : t[k].kind = "wind"}}
          = {s[j].id : j \in {k \in 1 .. i - 1 : s[k].kind = "wind"}}
    BY <1>2
  <2>. QED
    BY <1>1, <1>3, <1>4, <2>1, <2>2 DEF Nested
<1>7. ASSUME NEW b \in 0 .. i - 1, OneRegion(s, i, b)
      PROVE  OneRegion(t, i, b)
  <2>1. b \in 0 .. i
    OBVIOUS
  <2>2. /\ \A l : SameBase(s, b, l) => SameBase(t, b, l)
        /\ \A l : InForce(t, b, l) = InForce(s, b, l)
    BY <2>1, SameBases
  <2>3. t[i].kind = "thunk" /\ i > 1 =>
          t[i].inside = InForce(t, b, IF Entering(t[i - 1]) THEN t[i - 1].here
                                      ELSE Tail(t[i - 1].here))
    BY <1>1, <1>3, <1>7, <2>2 DEF OneRegion
  <2>. QED
    BY <1>1, <1>2, <1>7, <2>2, <2>3 DEF OneRegion
<1>8. InRegion(s, i) => InRegion(t, i)
  <2>1. \A b \in 0 .. i - 1 : IsBase(t, b, i) => IsBase(s, b, i)
    BY <1>1, SameBases
  <2>2. NoThunkLeft(s, i) => NoThunkLeft(t, i)
    <3>1. \A j \in 1 .. i - 1 : \A k \in j + 1 .. i - 1 : k \in 1 .. i - 1
      OBVIOUS
    <3>. QED
      BY <1>1, <1>2, <3>1 DEF NoThunkLeft
  <2>. QED
    BY <1>7, <2>1, <2>2 DEF InRegion
<1>. QED
  BY <1>1, <1>5, <1>6, <1>8 DEF InPlace

(* The first n calls of a stack.                                           *)
LEMMA CutStack ==
  ASSUME NEW s \in Seq(Call), NEW n \in 0 .. Len(s)
  PROVE  /\ SubSeq(s, 1, n) \in Seq(Call) /\ Len(SubSeq(s, 1, n)) = n
         /\ \A j \in 1 .. n : SubSeq(s, 1, n)[j] = s[j]
<1>1. n \in Nat /\ Len(s) \in Nat /\ \A j \in 1 .. n : j \in 1 .. Len(s)
  OBVIOUS
<1>2. \A j \in 1 .. n : s[j] \in Call
  BY <1>1
<1>3. /\ SubSeq(s, 1, n) \in Seq(Call)
      /\ Len(SubSeq(s, 1, n)) = IF 1 <= n THEN n - 1 + 1 ELSE 0
      /\ \A j \in 1 .. n - 1 + 1 : SubSeq(s, 1, n)[j] = s[1 + j - 1]
  BY <1>1, <1>2, SubSeqProperties
<1>4. n - 1 + 1 = n /\ (~(1 <= n) => n = 0) /\ \A j \in 1 .. n : 1 + j - 1 = j
  BY <1>1
<1>. QED
  BY <1>3, <1>4

(* The first n calls, and one more.                                        *)
LEMMA PutStack ==
  ASSUME NEW s \in Seq(Call), NEW n \in 0 .. Len(s), NEW f \in Call, NEW t,
         t = Append(SubSeq(s, 1, n), f)
  PROVE  /\ t \in Seq(Call) /\ Len(t) = n + 1 /\ t[n + 1] = f
         /\ \A j \in 1 .. n : t[j] = s[j]
<1>1. PICK r \in Seq(Call) : /\ r = SubSeq(s, 1, n) /\ Len(r) = n
                             /\ \A j \in 1 .. n : r[j] = s[j]
  BY CutStack
<1>2. t = Append(r, f) /\ n \in Nat
  BY <1>1
<1>3. t \in Seq(Call) /\ Len(t) = n + 1 /\ t[n + 1] = f /\ \A j \in 1 .. n : t[j] = r[j]
  BY <1>1, <1>2, AppendProperties
<1>. QED
  BY <1>1, <1>3

(* Calls that are in place stay so when those that they make are left.     *)
LEMMA CutInPlace ==
  ASSUME NEW s, NEW c, NEW m, NEW k, StackInPlace(s, c, m, k), NEW n \in 0 .. Len(s),
         NEW t, t = SubSeq(s, 1, n)
  PROVE  /\ StackInPlace(t, c, m, k) /\ t \in Seq(Call) /\ Len(t) = n
         /\ \A j \in 1 .. n : t[j] = s[j]
<1>1. /\ s \in Seq(Call) /\ t \in Seq(Call) /\ Len(t) = n /\ n \in Nat
      /\ \A j \in 1 .. n : t[j] = s[j]
  <2>1. s \in Seq(Call)
    BY DEF StackInPlace
  <2>. QED
    BY <2>1, CutStack
<1>2. ASSUME NEW i \in 1 .. n
      PROVE  InPlace(t, i, c, m) /\ (k => InRegion(t, i))
  <2>1. i \in Nat /\ i > 0 /\ i \in 1 .. Len(s) /\ \A j \in 1 .. i : j \in 1 .. n
    BY <1>1
  <2>2. \A j \in 1 .. i : t[j] = s[j]
    BY <1>1, <2>1
  <2>3. InPlace(s, i, c, m) /\ (k => InRegion(s, i))
    BY <2>1 DEF StackInPlace
  <2>. QED
    BY <2>1, <2>2, <2>3, SameCalls
<1>. QED
  BY <1>1, <1>2 DEF StackInPlace

(* And when another call is made instead that is in place.                 *)
LEMMA PutInPlace ==
  ASSUME NEW s, NEW c, NEW m, NEW k, StackInPlace(s, c, m, k), NEW n \in 0 .. Len(s),
         NEW t \in Seq(Call), Len(t) = n + 1, \A j \in 1 .. n : t[j] = s[j],
         InPlace(t, n + 1, c, m), k => InRegion(t, n + 1)
  PROVE  StackInPlace(t, c, m, k)
<1>1. s \in Seq(Call) /\ n \in Nat
  BY DEF StackInPlace
<1>2. ASSUME NEW i \in 1 .. n
      PROVE  InPlace(t, i, c, m) /\ (k => InRegion(t, i))
  <2>1. i \in Nat /\ i > 0 /\ i \in 1 .. Len(s) /\ \A j \in 1 .. i : j \in 1 .. n
    BY <1>1
  <2>2. \A j \in 1 .. i : t[j] = s[j]
    BY <1>1, <2>1
  <2>3. InPlace(s, i, c, m) /\ (k => InRegion(s, i))
    BY <2>1 DEF StackInPlace
  <2>. QED
    BY <2>1, <2>2, <2>3, SameCalls
<1>3. \A i \in 1 .. n + 1 : i \in 1 .. n \/ i = n + 1
  BY <1>1
<1>. QED
  BY <1>1, <1>2, <1>3 DEF StackInPlace

(* Calls in place stay so when something else is made or entered.          *)
LEMMA GrownInPlace ==
  ASSUME NEW s, NEW c, NEW m \in Nat, NEW k, StackInPlace(s, c, m, k),
         NEW d, NEW n \in Nat, m <= n, NEW h, h => k,
         \A e \in Extent : c[e] # <<>> => d[e] = c[e],
         \A i \in 1 .. Len(s) : s[i].kind = "in" => d[s[i].id] = <<>>
  PROVE  StackInPlace(s, d, n, h)
<1>1. s \in Seq(Call) /\ \A i \in 1 .. Len(s) : s[i] \in Call
  BY DEF StackInPlace
<1>2. ASSUME NEW i \in 1 .. Len(s)
      PROVE  InPlace(s, i, d, n)
  <2>1. InPlace(s, i, c, m)
    BY DEF StackInPlace
  <2>2. ProperLists(s[i], d, n)
    BY <2>1, ProperKept DEF InPlace, ProperLists
  <2>3. EnteredExtents(s[i], d)
    <3>1. s[i].inside \subseteq Extent
      BY <1>1 DEF Call
    <3>2. \A e \in s[i].inside : e \in Extent /\ c[e] # <<>>
      BY <2>1, <3>1 DEF InPlace, EnteredExtents
    <3>. QED
      BY <3>2 DEF EnteredExtents
  <2>4. InOrder(s, i, n)
    <3>1. s[i].kind \in Numbered => s[i].id \in 1 .. n
      BY <2>1 DEF InPlace, InOrder
    <3>. QED
      BY <2>1, <3>1 DEF InPlace, InOrder
  <2>. QED
    BY <2>1, <2>2, <2>3, <2>4 DEF InPlace
<1>. QED
  BY <1>1, <1>2 DEF StackInPlace

(* The extents of a list with one more.                                    *)
LEMMA ExtentsOfCons ==
  ASSUME NEW e, NEW l \in Seq(Extent)
  PROVE  Extents(<<e>> \o l) = Extents(l) \cup {e}
<1>1. PICK r : r = <<e>> \o l
  OBVIOUS
<1>2. /\ Len(l) \in Nat /\ DOMAIN l = 1 .. Len(l) /\ DOMAIN r = 1 .. Len(l) + 1
      /\ r[1] = e /\ \A p \in 1 .. Len(l) : r[p + 1] = l[p]
  BY <1>1
<1>3. ASSUME NEW p \in 1 .. Len(l) + 1
      PROVE  r[p] \in Extents(l) \cup {e}
  <2>1. p = 1 \/ (p - 1 \in 1 .. Len(l) /\ p = p - 1 + 1)
    BY <1>2
  <2>2. p # 1 => r[p] = l[p - 1]
    BY <1>2, <2>1
  <2>. QED
    BY <1>2, <2>1, <2>2 DEF Extents
<1>4. ASSUME NEW p \in 1 .. Len(l)
      PROVE  l[p] \in Extents(r)
  <2>1. p + 1 \in 1 .. Len(l) + 1 /\ r[p + 1] = l[p]
    BY <1>2
  <2>. QED
    BY <1>2, <2>1 DEF Extents
<1>5. e \in Extents(r)
  <2>1. 1 \in 1 .. Len(l) + 1
    BY <1>2
  <2>. QED
    BY <1>2, <2>1 DEF Extents
<1>6. Extents(r) \subseteq Extents(l) \cup {e}
  BY <1>2, <1>3 DEF Extents
<1>7. Extents(l) \subseteq Extents(r)
  BY <1>2, <1>4 DEF Extents
<1>. QED
  BY <1>1, <1>5, <1>6, <1>7

(* A call that is no thunk is made where the thunk is that it is in.       *)
LEMMA BaseBelow ==
  ASSUME NEW s, NEW t, NEW n \in Nat, \A j \in 1 .. n : t[j] = s[j],
         t[n + 1].kind # "thunk", NEW b \in 0 .. n + 1, IsBase(t, b, n + 2)
  PROVE  b \in 0 .. n /\ IsBase(s, b, n + 1)
<1>1. b \in 0 .. n
  <2>1. b # n + 1
    BY DEF IsBase
  <2>. QED
    BY <2>1
<1>2. /\ b > 0 => t[b].kind = "thunk"
      /\ \A j \in b + 1 .. n : t[j].kind # "thunk"
  <2>1. \A j \in b + 1 .. n : j \in b + 1 .. n + 2 - 1
    OBVIOUS
  <2>. QED
    BY <2>1 DEF IsBase
<1>3. /\ b > 0 => b \in 1 .. n
      /\ \A j \in b + 1 .. n : j \in 1 .. n
      /\ n + 1 - 1 = n
  BY <1>1
<1>. QED
  BY <1>1, <1>2, <1>3 DEF IsBase

(* And what a thunk calls is in that thunk.                                *)
LEMMA BaseOfThunk ==
  ASSUME NEW t, NEW n \in Nat, t[n + 1].kind = "thunk",
         NEW b \in 0 .. n + 1, IsBase(t, b, n + 2)
  PROVE  b = n + 1
<1>1. b < n + 1 => n + 1 \in b + 1 .. n + 2 - 1
  OBVIOUS
<1>2. ~(b < n + 1)
  BY <1>1 DEF IsBase
<1>. QED
  BY <1>2

(* The calls since a thunk was called are in that thunk.                   *)
LEMMA BaseOfCalls ==
  ASSUME NEW s, NEW i \in Nat, NEW b \in Nat, IsBase(s, b, i), NEW j \in b + 1 .. i
  PROVE  b \in 0 .. j - 1 /\ IsBase(s, b, j)
<1>1. \A k \in b + 1 .. j - 1 : k \in b + 1 .. i - 1
  OBVIOUS
<1>2. b \in 0 .. j - 1
  OBVIOUS
<1>. QED
  BY <1>1, <1>2 DEF IsBase

(* What the invariant says of the calls on the stack.                      *)
LEMMA StackFacts ==
  ASSUME IInv
  PROVE  /\ stack \in Seq(Call) /\ Len(stack) \in Nat /\ DOMAIN stack = 1 .. Len(stack)
         /\ \A i \in 1 .. Len(stack) :
              /\ stack[i] \in Call /\ InPlace(stack, i, chain, made)
              /\ ~astray => InRegion(stack, i)
         /\ made \in Nat /\ made <= MaxMade
         /\ stack # <<>> => Len(stack) \in 1 .. Len(stack)
         /\ stack = <<>> => Len(stack) = 0
         /\ SubSeq(stack, 1, Len(stack)) = stack
<1>1. /\ stack \in Seq(Call) /\ made \in 0 .. MaxMade
      /\ \A i \in 1 .. Len(stack) :
           InPlace(stack, i, chain, made) /\ (~astray => InRegion(stack, i))
  BY DEF IInv, StackInPlace, WindTypeOK
<1>2. /\ Len(stack) \in Nat /\ DOMAIN stack = 1 .. Len(stack)
      /\ \A i \in 1 .. Len(stack) : stack[i] \in Call
  BY <1>1
<1>3. stack # <<>> => Len(stack) # 0
  BY <1>1, EmptySeq
<1>4. stack = <<>> => Len(stack) = 0
  OBVIOUS
<1>5. SubSeq(stack, 1, Len(stack)) = stack
  BY <1>1, SubSeqFull
<1>6. made \in Nat /\ made <= MaxMade
  BY <1>1, WindsAssumption
<1>7. stack # <<>> => Len(stack) \in 1 .. Len(stack)
  BY <1>2, <1>3
<1>. QED
  BY <1>1, <1>2, <1>4, <1>5, <1>6, <1>7

(* The same for what else there is.                                        *)
LEMMA StateFacts ==
  ASSUME IInv
  PROVE  /\ checkpoints \in Seq(Extent) /\ Proper(chain, made, checkpoints)
         /\ chain \in [Extent -> Seq(Extent)] /\ inside \subseteq Extent
         /\ \A k \in saved :
              /\ k.id \in Extent /\ k.save \in Seq(Extent)
              /\ k.id <= made /\ Proper(chain, made, k.save)
  BY DEF IInv, WindTypeOK, ExtentsInPlace, SavedInPlace

(* Outside of do-wind the list has the extents of the dynamic-winds.       *)
LEMMA WindsListed ==
  ASSUME IInv, status = "run",
         \A j \in 1 .. Len(stack) : stack[j].kind \notin {"thunk", "escape"}
  PROVE  Extents(checkpoints)
           = {stack[j].id : j \in {k \in 1 .. Len(stack) : stack[k].kind = "wind"}}
<1>1. PICK s, n : s = stack /\ n = Len(stack)
  OBVIOUS
<1>3. checkpoints = Below(s, n + 1) /\ n \in Nat
  <2>1. n \in Nat
    BY <1>1, StackFacts
  <2>2. stack # <<>> => Len(stack) \in 1 .. Len(stack)
    BY StackFacts
  <2>3. ~EscapeOnTop(stack)
    BY <2>2 DEF EscapeOnTop
  <2>. QED
    BY <1>1, <2>1, <2>3 DEF IInv, TopInPlace
<1>4. CASE n = 0
  <2>1. checkpoints = <<>>
    BY <1>3, <1>4 DEF Below
  <2>2. Extents(checkpoints) = {}
    BY <2>1 DEF Extents
  <2>3. 1 .. n = {}
    BY <1>4
  <2>. QED
    BY <1>1, <2>2, <2>3
<1>5. CASE n > 0
  <2>1. n \in 1 .. n /\ n + 1 - 1 = n /\ n + 1 # 1 /\ 1 .. n = (1 .. n - 1) \cup {n}
    BY <1>3, <1>5
  <2>2. \A j \in 1 .. n - 1 : s[j].kind \notin {"thunk", "escape"}
    BY <1>1, <2>1
  <2>3. Nested(s, n) /\ s[n] \in Call
    BY <1>1, <2>1, StackFacts DEF InPlace
  <2>4. Extents(s[n].save) = {s[j].id : j \in {k \in 1 .. n - 1 : s[k].kind = "wind"}}
    BY <1>1, <2>1, <2>2, <2>3 DEF Nested
  <2>5. CASE s[n].kind = "wind"
    <3>1. checkpoints = <<s[n].id>> \o s[n].save /\ s[n].save \in Seq(Extent)
      <4>1. s[n].save \in Seq(Extent)
        BY <2>3 DEF Call
      <4>. QED
        BY <1>3, <2>1, <2>5, <4>1 DEF Below
    <3>2. Extents(checkpoints) = Extents(s[n].save) \cup {s[n].id}
      BY <3>1, ExtentsOfCons
    <3>3. {k \in 1 .. n : s[k].kind = "wind"} = {k \in 1 .. n - 1 : s[k].kind = "wind"} \cup {n}
      BY <2>1, <2>5
    <3>. QED
      BY <1>1, <2>4, <3>2, <3>3
  <2>6. CASE s[n].kind # "wind"
    <3>1. checkpoints = s[n].save
      BY <1>3, <2>1, <2>6 DEF Below
    <3>2. {k \in 1 .. n : s[k].kind = "wind"} = {k \in 1 .. n - 1 : s[k].kind = "wind"}
      BY <2>1, <2>6
    <3>. QED
      BY <1>1, <2>4, <3>1, <3>2
  <2>. QED
    BY <2>5, <2>6
<1>6. n = 0 \/ n > 0
  BY <1>3
<1>. QED
  BY Zenon, <1>4, <1>5, <1>6

(* dynamic-wind, call/cc, guard and eval are called.                       *)
LEMMA CallKeeps ==
  ASSUME IInv, InProgram, NEW f \in Call,
         f.kind \in {"in", "callcc", "guard", "eval"},
         f.save = checkpoints, f.here = <<>>, f.raised = {}, f.inside = {},
         stack' = Append(stack, f), made' \in made .. MaxMade,
         f.kind # "eval" => f.id = made + 1 /\ made' = made + 1,
         \/ saved' = saved
         \/ /\ f.kind = "callcc"
            /\ saved' = saved \cup {[id |-> f.id, save |-> checkpoints]},
         UNCHANGED <<checkpoints, status, inside, chain, astray>>
  PROVE  IInv'
<1>1. PICK s, n : s = stack /\ n = Len(stack)
  OBVIOUS
<1>2. PICK t : t = stack'
  OBVIOUS
<1>3. /\ s \in Seq(Call) /\ n \in Nat /\ n \in 0 .. Len(s)
      /\ t = Append(SubSeq(s, 1, n), f)
      /\ t \in Seq(Call) /\ Len(t) = n + 1 /\ t[n + 1] = f
      /\ \A j \in 1 .. n : t[j] = s[j]
  <2>1. s \in Seq(Call) /\ n \in Nat /\ n \in 0 .. Len(s) /\ t = Append(SubSeq(s, 1, n), f)
    BY <1>1, <1>2, StackFacts
  <2>. QED
    BY <2>1, PutStack
<1>4. n \in Nat /\ \A j \in 1 .. n : t[j] = s[j]
  BY <1>3
<1>5. \A i \in 1 .. n + 1 : Below(t, i) = Below(s, i)
  BY <1>4, SameBases
<1>6. /\ status = "run" /\ ~EscapeOnTop(s) /\ checkpoints = Below(s, n + 1)
      /\ n > 0 => s[n].kind # "escape"
  <2>1. status = "run" /\ ~EscapeOnTop(s)
    BY <1>1 DEF InProgram, Innermost, EscapeOnTop
  <2>2. n > 0 => s # <<>>
    BY <1>1, <1>3, StackFacts
  <2>. QED
    BY <1>1, <2>1, <2>2 DEF IInv, TopInPlace, EscapeOnTop
<1>7. made' \in Nat /\ made <= made' /\ made \in Nat
  BY StackFacts, WindsAssumption
<1>8. StackInPlace(s, chain, made', ~astray)
  <2>1. \A i \in 1 .. Len(s) : s[i].kind = "in" => chain[s[i].id] = <<>>
    BY <1>1, StackFacts DEF InPlace, EnteredExtents
  <2>2. StackInPlace(s, chain, made, ~astray)
    BY <1>1 DEF IInv
  <2>. QED
    BY <1>7, <2>1, <2>2, GrownInPlace
<1>9. Proper(chain, made', checkpoints)
  BY <1>7, StateFacts, ProperKept
<1>10. InPlace(t, n + 1, chain, made')
  <2>1. ProperLists(f, chain, made')
    <3>1. Proper(chain, made', <<>>)
      BY DEF Proper
    <3>. QED
      BY <1>9, <3>1 DEF ProperLists
  <2>2. EnteredExtents(f, chain)
    <3>1. f.kind = "in" => f.id \in Extent /\ f.id > made
      BY <1>7 DEF Extent
    <3>. QED
      BY <3>1 DEF EnteredExtents, IInv, ExtentsInPlace
  <2>3. InOrder(t, n + 1, made')
    <3>1. \A e \in Extents(checkpoints) : e <= made /\ e \in Nat
      BY StateFacts, ProperEntered DEF Extent
    <3>2. \A j \in 1 .. n : s[j].kind \in Numbered => s[j].id \in 1 .. made
      BY <1>1, StackFacts DEF InPlace, InOrder
    <3>3. f.kind \in Numbered => f.id = made + 1 /\ made' = made + 1
      BY DEF Numbered
    <3>4. f.kind \in Numbered => f.id \in 1 .. made'
      BY <1>7, <3>3
    <3>5. f.kind \in Numbered => \A e \in Extents(f.save) : e < f.id
      BY <1>7, <3>1, <3>3
    <3>6. f.kind \in Numbered => \A j \in 1 .. n : s[j].kind \in Numbered => s[j].id < f.id
      BY <1>7, <3>2, <3>3
    <3>7. n + 1 - 1 = n /\ f.kind # "escape"
      BY <1>3
    <3>. QED
      BY <1>3, <3>4, <3>5, <3>6, <3>7 DEF InOrder
  <2>4. Nested(t, n + 1)
    <3>1. Below(t, n + 1) = Below(s, n + 1)
      <4>1. n + 1 \in 1 .. n + 1
        BY <1>3
      <4>. QED
        BY <1>5, <4>1
    <3>2. n + 1 > 1 => n > 0 /\ n + 1 - 1 = n /\ t[n].kind # "escape"
      BY <1>3, <1>6
    <3>3. ASSUME \A j \in 1 .. n + 1 - 1 : t[j].kind \notin {"thunk", "escape"}
          PROVE  Extents(checkpoints)
                   = {t[j].id : j \in {k \in 1 .. n + 1 - 1 : t[k].kind = "wind"}}
      <4>1. n + 1 - 1 = n
        BY <1>3
      <4>2. \A j \in 1 .. n : s[j].kind \notin {"thunk", "escape"}
        BY <1>3, <3>3, <4>1
      <4>3. Extents(checkpoints) = {s[j].id : j \in {k \in 1 .. n : s[k].kind = "wind"}}
        BY <1>1, <1>6, <4>2, WindsListed
      <4>4. {t[j].id : j \in {k \in 1 .. n : t[k].kind = "wind"}}
              = {s[j].id : j \in {k \in 1 .. n : s[k].kind = "wind"}}
        BY <1>4
      <4>. QED
        BY Zenon, <4>1, <4>3, <4>4
    <3>. QED
      BY <1>3, <1>6, <3>1, <3>2, <3>3 DEF Nested
  <2>. QED
    BY <1>3, <2>1, <2>2, <2>3, <2>4 DEF InPlace
<1>11. ASSUME ~astray, NEW b \in 0 .. n + 1, IsBase(t, b, n + 1) \/ IsBase(t, b, n + 2)
      PROVE  /\ b \in 0 .. n /\ SameBase(t, b, checkpoints)
             /\ inside = InForce(t, b, checkpoints)
  <2>1. b \in 0 .. n /\ IsBase(s, b, n + 1)
    <3>1. CASE IsBase(t, b, n + 2)
      <4>1. t[n + 1].kind # "thunk"
        BY <1>3
      <4>. QED
        BY Zenon, <1>4, <3>1, <4>1, BaseBelow
    <3>2. CASE IsBase(t, b, n + 1)
      <4>1. n + 1 \in 1 .. n + 1
        BY <1>4
      <4>. QED
        BY Zenon, <1>4, <3>2, <4>1, BaseKept
    <3>. QED
      BY <1>11, <3>1, <3>2
  <2>2. SameBase(s, b, checkpoints) /\ inside = InForce(s, b, checkpoints)
    <3>1. Current(s, status, checkpoints) = checkpoints
      BY <1>6 DEF Current
    <3>. QED
      BY <1>1, <1>6, <1>11, <2>1, <3>1 DEF IInv, NowInRegion
  <2>3. PICK l : l = checkpoints
    OBVIOUS
  <2>4. InForce(t, b, l) = InForce(s, b, l) /\ (SameBase(s, b, l) => SameBase(t, b, l))
    BY Zenon, <1>4, <2>1, ListKept
  <2>. QED
    BY Zenon, <2>1, <2>2, <2>3, <2>4
<1>12. ~astray => InRegion(t, n + 1)
  <2>1. NoThunkLeft(t, n + 1)
    BY <1>3 DEF NoThunkLeft
  <2>2. ASSUME ~astray, NEW b \in 0 .. n + 1 - 1, IsBase(t, b, n + 1)
        PROVE  OneRegion(t, n + 1, b)
    <3>1. b \in 0 .. n + 1
      BY <1>4
    <3>2. SameBase(t, b, checkpoints)
      BY <1>11, <2>2, <3>1
    <3>. QED
      BY <1>3, <3>2 DEF OneRegion
  <2>. QED
    BY <1>4, <2>1, <2>2 DEF InRegion
<1>13. StackInPlace(t, chain, made', ~astray)
  <2>1. n \in 0 .. Len(s) /\ t \in Seq(Call) /\ Len(t) = n + 1
    BY <1>3
  <2>. QED
    BY ZenonT(30), <1>4, <1>8, <1>10, <1>12, <2>1, PutInPlace
<1>14. SavedInPlace'
  <2>1. ASSUME NEW k \in saved
        PROVE  /\ k.id <= made' /\ Proper(chain, made', k.save)
               /\ \A i \in 1 .. n + 1 :
                    t[i].kind \in {"callcc", "guard"} /\ t[i].id = k.id => k.save = t[i].save
    <3>1. k.id \in Nat /\ k.id <= made /\ Proper(chain, made, k.save)
      BY StateFacts DEF Extent
    <3>2. \A i \in 1 .. n :
            s[i].kind \in {"callcc", "guard"} /\ s[i].id = k.id => k.save = s[i].save
      BY <1>1 DEF IInv, SavedInPlace
    <3>3. f.kind \in {"callcc", "guard"} => f.id # k.id
      BY <1>7, <3>1
    <3>4. Proper(chain, made', k.save)
      BY <1>7, <3>1, ProperKept
    <3>5. \A i \in 1 .. n + 1 : i \in 1 .. n \/ i = n + 1
      BY <1>3
    <3>. QED
      BY <1>3, <1>7, <3>1, <3>2, <3>3, <3>4, <3>5
  <2>2. ASSUME f.kind = "callcc", NEW k, k = [id |-> f.id, save |-> checkpoints]
        PROVE  /\ k.id <= made' /\ Proper(chain, made', k.save)
               /\ \A i \in 1 .. n + 1 :
                    t[i].kind \in {"callcc", "guard"} /\ t[i].id = k.id => k.save = t[i].save
    <3>1. k.id = made + 1 /\ k.save = checkpoints /\ made' = made + 1
      BY <2>2
    <3>2. \A j \in 1 .. n : s[j].kind \in Numbered => s[j].id \in 1 .. made
      BY <1>1, StackFacts DEF InPlace, InOrder
    <3>3. \A j \in 1 .. n : t[j].kind \in {"callcc", "guard"} => t[j].id # k.id
      BY <1>3, <1>7, <3>1, <3>2 DEF Numbered
    <3>4. \A i \in 1 .. n + 1 : i \in 1 .. n \/ i = n + 1
      BY <1>3
    <3>. QED
      BY <1>3, <1>7, <1>9, <3>1, <3>3, <3>4
  <2>3. Len(t) = n + 1
    BY <1>3
  <2>4. \A k \in saved' :
          /\ k.id <= made' /\ Proper(chain, made', k.save)
          /\ \A i \in 1 .. n + 1 :
               t[i].kind \in {"callcc", "guard"} /\ t[i].id = k.id => k.save = t[i].save
    BY <2>1, <2>2
  <2>. QED
    BY <1>2, <2>3, <2>4 DEF SavedInPlace
<1>15. WindTypeOK'
  <2>1. saved' \subseteq [id : Extent, save : Seq(Extent)]
    <3>1. f.kind = "callcc" => f.id \in Extent
      BY <1>7 DEF Extent
    <3>. QED
      BY <3>1 DEF IInv, WindTypeOK
  <2>2. made' \in 0 .. MaxMade
    BY <1>7
  <2>. QED
    BY <2>1, <2>2 DEF IInv, WindTypeOK
<1>16. ExtentsInPlace'
  BY <1>7, <1>9, WindsAssumption DEF IInv, ExtentsInPlace, Extent
<1>17. TopInPlace'
  <2>1. n + 2 # 1 /\ n + 2 - 1 = n + 1 /\ Len(t) + 1 = n + 2
    BY <1>3
  <2>2. Below(t, Len(t) + 1) = checkpoints
    BY <1>3, <2>1 DEF Below
  <2>. QED
    BY <1>2, <1>6, <2>2 DEF TopInPlace
<1>18. NowInRegion'
  <2>1. ~EscapeOnTop(t)
    BY <1>3 DEF EscapeOnTop
  <2>2. Current(t, status, checkpoints) = checkpoints
    BY <2>1 DEF Current
  <2>3. Len(t) = n + 1 /\ Len(t) + 1 = n + 2
    BY <1>3
  <2>. QED
    BY <1>2, <1>11, <2>2, <2>3 DEF NowInRegion
<1>. QED
  BY <1>2, <1>13, <1>14, <1>15, <1>16, <1>17, <1>18 DEF IInv

(* What the thunk of a do-wind calls, if it is not another thunk, is in it. *)
LEMMA BaseOn ==
  ASSUME NEW s, NEW n \in Nat, NEW i \in 1 .. n + 1, NEW b, IsBase(s, b, i),
         \A j \in i .. n : s[j].kind # "thunk"
  PROVE  IsBase(s, b, n + 1) /\ b \in 0 .. n
<1>1. b \in 0 .. i - 1 /\ b \in 0 .. n + 1 - 1 /\ b \in 0 .. n
  BY DEF IsBase
<1>2. \A j \in b + 1 .. n + 1 - 1 : j \in b + 1 .. i - 1 \/ j \in i .. n
  BY <1>1
<1>. QED
  BY <1>1, <1>2 DEF IsBase

(* And the thunk that all calls are in that were made since call i.        *)
LEMMA BaseBefore ==
  ASSUME NEW s, NEW n \in Nat, NEW i \in 1 .. n + 1, NEW b, IsBase(s, b, n + 1),
         \A j \in i .. n : s[j].kind # "thunk"
  PROVE  IsBase(s, b, i) /\ b \in 0 .. i - 1
<1>1. b \in 0 .. n /\ (b > 0 => s[b].kind = "thunk")
  BY DEF IsBase
<1>2. b \in 0 .. i - 1
  <2>1. b \in i .. n => b > 0
    OBVIOUS
  <2>2. b \notin i .. n
    BY <1>1, <2>1
  <2>. QED
    BY <1>1, <2>2
<1>3. \A j \in b + 1 .. i - 1 : j \in b + 1 .. n + 1 - 1
  BY <1>2
<1>. QED
  BY <1>2, <1>3 DEF IsBase

(* Calls are in place whether or not thunks are.                           *)
LEMMA TidyInPlace ==
  ASSUME NEW s, NEW c, NEW m, NEW k, StackInPlace(s, c, m, k), NEW h, h => k
  PROVE  StackInPlace(s, c, m, h)
BY DEF StackInPlace

(* The stack is cut to k calls: calls return, or an error or an escape leaves *)
(* them.                                                                   *)
LEMMA CutKeeps ==
  ASSUME IInv, NEW k \in 0 .. Len(stack), stack' = SubSeq(stack, 1, k),
         k > 0 => stack[k].kind # "escape",
         Proper(chain, made, checkpoints'), astray' \in BOOLEAN,
         status' \in {"run", "error", "over"},
         status' = "run" => checkpoints' = Below(stack, k + 1),
         ~astray' => ~astray,
         ~astray' /\ status' # "over" =>
           \A b \in 0 .. k : IsBase(stack, b, k + 1) =>
             SameBase(stack, b, checkpoints') /\ inside = InForce(stack, b, checkpoints'),
         UNCHANGED <<saved, made, inside, chain>>
  PROVE  IInv'
<1>1. PICK s, t, l : s = stack /\ t = stack' /\ l = checkpoints'
  OBVIOUS
<1>2. StackInPlace(s, chain, made, ~astray) /\ k \in 0 .. Len(s) /\ k \in Nat
  BY <1>1, StackFacts DEF IInv
<1>3. /\ StackInPlace(t, chain, made, ~astray) /\ t \in Seq(Call) /\ Len(t) = k
      /\ \A j \in 1 .. k : t[j] = s[j]
  <2>1. t = SubSeq(s, 1, k)
    BY <1>1
  <2>2. StackInPlace(s, chain, made, ~astray) /\ k \in 0 .. Len(s)
    BY <1>2
  <2>3. StackInPlace(t, chain, made, ~astray)
    BY <2>1, <2>2, CutInPlace
  <2>4. s \in Seq(Call)
    BY <2>2 DEF StackInPlace
  <2>. QED
    BY <2>1, <2>2, <2>3, <2>4, CutStack
<1>4. StackInPlace(t, chain, made, ~astray')
  BY <1>3, TidyInPlace
<1>5. ~EscapeOnTop(t)
  <2>1. t # <<>> => k \in 1 .. k
    BY <1>2, <1>3, EmptySeq
  <2>. QED
    BY <1>1, <1>3, <2>1 DEF EscapeOnTop
<1>6. WindTypeOK'
  BY DEF IInv, WindTypeOK, Proper
<1>7. ExtentsInPlace'
  BY DEF IInv, ExtentsInPlace
<1>8. SavedInPlace'
  <2>1. \A i \in 1 .. k : i \in 1 .. Len(s) /\ t[i] = s[i]
    BY <1>2, <1>3
  <2>. QED
    BY <1>1, <1>3, <2>1 DEF IInv, SavedInPlace
<1>9. TopInPlace'
  <2>1. Below(t, k + 1) = Below(s, k + 1)
    <3>1. k + 1 \in 1 .. k + 1
      BY <1>2
    <3>. QED
      BY <1>2, <1>3, <3>1, SameBases
  <2>. QED
    BY <1>1, <1>3, <1>5, <2>1 DEF TopInPlace
<1>10. NowInRegion'
  <2>1. SUFFICES ASSUME ~astray', status' # "over", NEW b \in 0 .. k, IsBase(t, b, k + 1)
                 PROVE  SameBase(t, b, l) /\ inside = InForce(t, b, l)
    <3>1. Current(t, status', l) = l
      BY <1>5 DEF Current
    <3>. QED
      BY <1>1, <1>3, <2>1, <3>1 DEF NowInRegion
  <2>2. IsBase(s, b, k + 1)
    <3>1. k + 1 \in 1 .. k + 1
      BY <1>2
    <3>. QED
      BY Zenon, <1>2, <1>3, <2>1, <3>1, BaseKept
  <2>3. SameBase(s, b, l) /\ inside = InForce(s, b, l)
    BY <1>1, <2>1, <2>2
  <2>4. InForce(t, b, l) = InForce(s, b, l) /\ (SameBase(s, b, l) => SameBase(t, b, l))
    BY Zenon, <1>2, <1>3, ListKept
  <2>. QED
    BY Zenon, <2>3, <2>4
<1>. QED
  BY <1>1, <1>4, <1>6, <1>7, <1>8, <1>9, <1>10 DEF IInv

(* The stack is cut to k calls, and then an escape begins or goes on.      *)
LEMMA EscapeKeeps ==
  ASSUME IInv, NEW k \in 0 .. Len(stack), NEW f \in Call, f.kind = "escape",
         stack' = Append(SubSeq(stack, 1, k), f),
         k > 0 => stack[k].kind # "escape",
         ProperLists(f, chain, made), EnteredExtents(f, chain),
         \A j \in 1 .. k :
           stack[j].kind \in {"callcc", "guard"} /\ stack[j].id = f.id =>
             f.save = stack[j].save,
         Proper(chain, made, checkpoints'), status' = "run", astray' \in BOOLEAN,
         inside' \subseteq Extent, \A e \in inside' : chain[e] # <<>>,
         ~astray' =>
           /\ ~astray
           /\ \A j \in 1 .. k :
                stack[j].kind \in {"callcc", "guard"} /\ stack[j].id = f.id =>
                  \A i \in j + 1 .. k : stack[i].kind # "thunk"
           /\ \A b \in 0 .. k : IsBase(stack, b, k + 1) =>
                /\ SameBase(stack, b, f.save) /\ SameBase(stack, b, f.here)
                /\ \A l \in f.raised : SameBase(stack, b, l)
                /\ SameBase(stack, b, checkpoints')
                /\ inside' = InForce(stack, b, f.here),
         UNCHANGED <<saved, made, chain>>
  PROVE  IInv'
<1>1. PICK s, t, l : s = stack /\ t = stack' /\ l = checkpoints'
  OBVIOUS
<1>2. /\ StackInPlace(s, chain, made, ~astray) /\ k \in 0 .. Len(s) /\ k \in Nat
      /\ s \in Seq(Call)
  BY <1>1, StackFacts DEF IInv
<1>3. /\ t \in Seq(Call) /\ Len(t) = k + 1 /\ t[k + 1] = f
      /\ \A j \in 1 .. k : t[j] = s[j]
  BY <1>1, <1>2, PutStack
<1>4. k + 1 \in 1 .. k + 1 /\ k + 1 - 1 = k /\ k \in Nat /\ \A j \in 1 .. k : t[j] = s[j]
  BY <1>2, <1>3
<1>5. InPlace(t, k + 1, chain, made)
  <2>2. InOrder(t, k + 1, made)
    BY <1>1, <1>3, <1>4 DEF InOrder, Numbered
  <2>3. Nested(t, k + 1)
    <3>1. k + 1 > 1 => k \in 1 .. k /\ k > 0
      BY <1>4
    <3>2. k + 1 > 1 => t[k].kind # "escape"
      BY <1>1, <1>4, <3>1
    <3>. QED
      BY <1>3, <1>4, <3>2 DEF Nested
  <2>. QED
    BY <1>3, <2>2, <2>3 DEF InPlace
<1>6. ASSUME ~astray', NEW b, IsBase(t, b, k + 1)
      PROVE  /\ b \in 0 .. k /\ SameBase(t, b, f.save) /\ SameBase(t, b, f.here)
             /\ \A r \in f.raised : SameBase(t, b, r)
             /\ SameBase(t, b, l) /\ inside' = InForce(t, b, f.here)
  <2>1. IsBase(s, b, k + 1) /\ b \in 0 .. k
    BY Zenon, <1>4, <1>6, BaseKept
  <2>2. /\ SameBase(s, b, f.save) /\ SameBase(s, b, f.here)
        /\ \A r \in f.raised : SameBase(s, b, r)
        /\ SameBase(s, b, l) /\ inside' = InForce(s, b, f.here)
    BY <1>1, <1>6, <2>1
  <2>3. ASSUME NEW r
        PROVE  InForce(t, b, r) = InForce(s, b, r) /\ (SameBase(s, b, r) => SameBase(t, b, r))
    BY Zenon, <1>4, <2>1, ListKept
  <2>. QED
    BY Zenon, <2>1, <2>2, <2>3
<1>7. ~astray' => InRegion(t, k + 1)
  <2>1. ASSUME ~astray'
        PROVE  NoThunkLeft(t, k + 1)
    <3>1. \A j \in 1 .. k : \A i \in j + 1 .. k : i \in 1 .. k
      BY <1>4
    <3>. QED
      BY <1>1, <1>3, <1>4, <2>1, <3>1 DEF NoThunkLeft
  <2>2. ASSUME ~astray', NEW b \in 0 .. k + 1 - 1, IsBase(t, b, k + 1)
        PROVE  OneRegion(t, k + 1, b)
    BY <1>3, <1>6, <2>2 DEF OneRegion
  <2>. QED
    BY <2>1, <2>2 DEF InRegion
<1>8. StackInPlace(t, chain, made, ~astray')
  <2>1. StackInPlace(s, chain, made, ~astray')
    BY <1>2, TidyInPlace
  <2>. QED
    BY <1>2, <1>3, <1>5, <1>7, <2>1, PutInPlace
<1>9. WindTypeOK'
  BY DEF IInv, WindTypeOK, Proper
<1>10. ExtentsInPlace'
  BY DEF IInv, ExtentsInPlace
<1>11. SavedInPlace'
  <2>1. \A i \in 1 .. k + 1 : (i \in 1 .. Len(s) /\ t[i] = s[i]) \/ t[i].kind = "escape"
    <3>1. \A i \in 1 .. k + 1 : i = k + 1 \/ i \in 1 .. k
      BY <1>2
    <3>2. \A i \in 1 .. k : i \in 1 .. Len(s)
      BY <1>2
    <3>. QED
      BY <1>3, <3>1, <3>2
  <2>. QED
    BY <1>1, <1>3, <2>1 DEF IInv, SavedInPlace
<1>12. EscapeOnTop(t)
  <2>1. t # <<>>
    BY <1>2, <1>3
  <2>. QED
    BY <1>3, <2>1 DEF EscapeOnTop
<1>13. TopInPlace'
  BY <1>1, <1>12 DEF TopInPlace
<1>14. NowInRegion'
  <2>1. SUFFICES ASSUME ~astray', NEW b \in 0 .. k + 1, IsBase(t, b, k + 2)
                 PROVE  SameBase(t, b, l) /\ inside' = InForce(t, b, f.here)
    <3>1. Current(t, status', l) = f.here /\ Len(t) + 1 = k + 2
      BY <1>2, <1>3, <1>12 DEF Current
    <3>. QED
      BY <1>1, <1>3, <2>1, <3>1 DEF NowInRegion
  <2>2. t[k + 1].kind # "thunk" /\ \A j \in 1 .. k : t[j] = t[j]
    BY <1>3
  <2>3. b \in 0 .. k /\ IsBase(t, b, k + 1)
    BY Zenon, <1>4, <2>1, <2>2, BaseBelow
  <2>. QED
    BY <1>6, <2>1, <2>3
<1>. QED
  BY <1>1, <1>8, <1>9, <1>10, <1>11, <1>13, <1>14 DEF IInv

(* What the invariant says of call i on the stack and of the one around it. *)
LEMMA CallFacts ==
  ASSUME IInv, NEW i \in 1 .. Len(stack)
  PROVE  /\ i \in Nat /\ i > 0 /\ i - 1 \in 0 .. Len(stack) /\ stack[i] \in Call
         /\ ProperLists(stack[i], chain, made) /\ EnteredExtents(stack[i], chain)
         /\ InOrder(stack, i, made) /\ Nested(stack, i)
         /\ stack[i].kind # "thunk" /\ i - 1 > 0 => stack[i - 1].kind # "escape"
         /\ ~astray => InRegion(stack, i)
<1>1. Len(stack) \in Nat /\ stack[i] \in Call /\ InPlace(stack, i, chain, made)
      /\ (~astray => InRegion(stack, i))
  BY StackFacts
<1>2. i \in Nat /\ i > 0 /\ i - 1 \in 0 .. Len(stack) /\ (i - 1 > 0 => i > 1)
  BY <1>1
<1>3. Nested(stack, i)
  BY <1>1 DEF InPlace
<1>4. stack[i].kind # "thunk" /\ i - 1 > 0 => stack[i - 1].kind # "escape"
  BY <1>2, <1>3 DEF Nested
<1>. QED
  BY <1>1, <1>2, <1>4 DEF InPlace

(* The program runs inside of the innermost call, whose list is the one below. *)
LEMMA TopFacts ==
  ASSUME IInv, stack # <<>>, NEW n, n = Len(stack)
  PROVE  /\ n \in 1 .. Len(stack) /\ Innermost = stack[n]
         /\ InProgram /\ Innermost.kind # "wind" => checkpoints = Innermost.save
         /\ InProgram /\ Innermost.kind = "wind" =>
              checkpoints = <<Innermost.id>> \o Innermost.save
<1>1. n \in 1 .. Len(stack) /\ n \in Nat /\ Innermost = stack[n]
  BY StackFacts DEF Innermost
<1>2. InProgram => checkpoints = Below(stack, n + 1)
  BY DEF InProgram, Innermost, EscapeOnTop, IInv, TopInPlace
<1>3. n + 1 # 1 /\ n + 1 - 1 = n
  BY <1>1
<1>. QED
  BY <1>1, <1>2, <1>3 DEF Below

(* A call returns.                                                         *)
LEMMA ReturnKeeps ==
  ASSUME IInv, ReturnFromCall
  PROVE  IInv'
<1>1. PICK n, k : n = Len(stack) /\ k = n - 1
  OBVIOUS
<1>2. /\ stack # <<>> /\ Innermost.kind \in {"out", "callcc", "eval"} /\ InProgram
      /\ stack' = SubSeq(stack, 1, k)
      /\ UNCHANGED <<checkpoints, saved, made, status, inside, chain, astray>>
  BY <1>1 DEF ReturnFromCall, CutTo
<1>3. n \in 1 .. Len(stack) /\ Innermost = stack[n] /\ checkpoints = Innermost.save
  BY <1>1, <1>2, TopFacts
<1>4. /\ n \in Nat /\ k \in 0 .. Len(stack) /\ Nested(stack, n) /\ k + 1 = n
      /\ k > 0 => stack[k].kind # "escape"
  BY <1>1, <1>2, <1>3, CallFacts
<1>5. checkpoints' = Below(stack, k + 1)
  BY <1>2, <1>3, <1>4 DEF Nested
<1>6. Proper(chain, made, checkpoints') /\ astray' \in BOOLEAN
      /\ status' \in {"run", "error", "over"} /\ status' = "run"
  BY <1>2 DEF IInv, WindTypeOK, ExtentsInPlace, InProgram
<1>7. ASSUME ~astray', NEW b \in 0 .. k, IsBase(stack, b, k + 1)
      PROVE  SameBase(stack, b, checkpoints') /\ inside = InForce(stack, b, checkpoints')
  <2>1. \A j \in n .. n : stack[j].kind # "thunk"
    BY <1>2, <1>3, <1>4
  <2>2. IsBase(stack, b, n + 1) /\ b \in 0 .. n
    <3>1. n \in 1 .. n + 1 /\ IsBase(stack, b, n)
      BY <1>3, <1>4, <1>7
    <3>. QED
      BY Zenon, <1>4, <2>1, <3>1, BaseOn
  <2>3. Current(stack, status, checkpoints) = checkpoints
    BY <1>2 DEF Current, EscapeOnTop, Innermost
  <2>. QED
    BY <1>1, <1>2, <1>6, <1>7, <2>2, <2>3 DEF IInv, NowInRegion
<1>. QED
  BY <1>2, <1>4, <1>5, <1>6, <1>7, CutKeeps

(* An error is raised.                                                     *)
LEMMA RaiseKeeps ==
  ASSUME IInv, RaiseError
  PROVE  IInv'
<1>1. PICK k : k = Len(stack)
  OBVIOUS
<1>2. /\ InProgram /\ status' = "error"
      /\ UNCHANGED <<stack, checkpoints, saved, made, inside, chain, astray>>
  BY DEF RaiseError
<1>3. k \in 0 .. Len(stack) /\ stack' = SubSeq(stack, 1, k)
  BY <1>1, <1>2, StackFacts
<1>4. k > 0 => stack[k].kind # "escape"
  <2>1. k > 0 => stack # <<>>
    BY <1>1, StackFacts
  <2>. QED
    BY <1>1, <1>2, <2>1 DEF InProgram, Innermost
<1>5. Proper(chain, made, checkpoints') /\ astray' \in BOOLEAN
  BY <1>2 DEF IInv, WindTypeOK, ExtentsInPlace
<1>6. ASSUME ~astray', NEW b \in 0 .. k, IsBase(stack, b, k + 1)
      PROVE  SameBase(stack, b, checkpoints') /\ inside = InForce(stack, b, checkpoints')
  <2>1. Current(stack, status, checkpoints) = checkpoints /\ status = "run"
    BY <1>2 DEF Current, EscapeOnTop, Innermost, InProgram
  <2>. QED
    BY <1>1, <1>2, <1>6, <2>1 DEF IInv, NowInRegion
<1>. QED
  BY <1>2, <1>3, <1>4, <1>5, <1>6, CutKeeps

(* Calls are numbered as they are made, so an escape has one target at most. *)
LEMMA TargetFacts ==
  ASSUME IInv, NEW n, NEW i, i = Target(n)
  PROVE  /\ i # 0 => /\ i \in 1 .. Len(stack) /\ stack[i].kind \in {"callcc", "guard"}
                     /\ stack[i].id = n
         /\ \A j \in 1 .. Len(stack) :
              stack[j].kind \in {"callcc", "guard"} /\ stack[j].id = n => j = i
<1>1. PICK at : at = {j \in Calls({"callcc", "guard"}) : stack[j].id = n}
  OBVIOUS
<1>2. \A j : j \in at <=> /\ j \in 1 .. Len(stack) /\ stack[j].kind \in {"callcc", "guard"}
                          /\ stack[j].id = n
  BY <1>1, StackFacts DEF Calls
<1>3. i = IF at = {} THEN 0 ELSE CHOOSE j \in at : TRUE
  BY <1>1 DEF Target
<1>4. at # {} => i \in at
  BY <1>3
<1>5. \A j \in at : 0 < j /\ j \in Nat
  BY <1>2
<1>6. ASSUME NEW j \in at, NEW k \in at, j < k
      PROVE  FALSE
  <2>1. /\ k \in 1 .. Len(stack) /\ j \in 1 .. k - 1 /\ stack[k].id \in Nat
        /\ stack[j].kind \in Numbered /\ stack[k].kind \in Numbered
        /\ stack[j].id = stack[k].id
    <3>1. k \in 1 .. Len(stack) /\ j \in 1 .. Len(stack) /\ Len(stack) \in Nat
      BY <1>2, StackFacts
    <3>2. stack[k].id \in 0 .. MaxMade
      BY <3>1, CallFacts DEF Call
    <3>. QED
      BY <1>2, <1>6, <3>1, <3>2 DEF Numbered
  <2>2. stack[j].id < stack[k].id
    BY <2>1, CallFacts DEF InOrder
  <2>. QED
    BY <2>1, <2>2
<1>7. \A j \in at : j = i
  BY <1>4, <1>5, <1>6
<1>8. i # 0 => i \in at
  BY <1>3, <1>4
<1>. QED
  BY <1>2, <1>7, <1>8

(* An escape begins that leaves no thunk of a do-wind.                     *)
LEMMA BeginKeeps ==
  ASSUME IInv, status # "over", ~EscapeOnTop(stack),
         NEW e \in 0 .. MaxMade, NEW l, NEW r \in SUBSET {checkpoints},
         stack' = Append(stack, EscapeTo(e, l, r)), status' = "run",
         Proper(chain, made, l),
         \A j \in 1 .. Len(stack) :
           stack[j].kind \in {"callcc", "guard"} /\ stack[j].id = e => l = stack[j].save,
         astray' \in BOOLEAN,
         ~astray' => /\ ~astray
                     /\ \A j \in Target(e) + 1 .. Len(stack) : stack[j].kind # "thunk",
         UNCHANGED <<checkpoints, saved, made, inside, chain>>
  PROVE  IInv'
<1>1. PICK f, k, g : f = EscapeTo(e, l, r) /\ k = Len(stack) /\ g = Target(e)
  OBVIOUS
<1>2. /\ f.kind = "escape" /\ f.id = e /\ f.save = l /\ f.here = checkpoints
      /\ f.raised = r /\ f.inside = {}
  BY <1>1 DEF EscapeTo
<1>3. f \in Call
  BY <1>1, StateFacts DEF EscapeTo, Call, Kinds, Proper
<1>4. k \in Nat /\ k \in 0 .. Len(stack) /\ stack' = Append(SubSeq(stack, 1, k), f)
  BY <1>1, StackFacts
<1>5. k > 0 => stack[k].kind # "escape"
  <2>1. k > 0 => stack # <<>>
    BY <1>1, StackFacts
  <2>. QED
    BY <1>1, <2>1 DEF EscapeOnTop
<1>6. ProperLists(f, chain, made) /\ EnteredExtents(f, chain)
  BY <1>2, StateFacts DEF ProperLists, EnteredExtents
<1>7. /\ Proper(chain, made, checkpoints')
      /\ inside' \subseteq Extent /\ \A x \in inside' : chain[x] # <<>>
  BY DEF IInv, WindTypeOK, ExtentsInPlace
<1>8. g # 0 => /\ g \in 1 .. k /\ stack[g].kind \in {"callcc", "guard"} /\ stack[g].id = e
  BY <1>1, TargetFacts
<1>9. ASSUME ~astray', NEW j \in 1 .. k, stack[j].kind \in {"callcc", "guard"},
             stack[j].id = f.id
      PROVE  \A i \in j + 1 .. k : stack[i].kind # "thunk"
  <2>1. j = g
    BY <1>1, <1>2, <1>9, TargetFacts
  <2>. QED
    BY <1>1, <1>9, <2>1
<1>10. ASSUME ~astray', NEW b \in 0 .. k, IsBase(stack, b, k + 1)
       PROVE  /\ SameBase(stack, b, f.save) /\ SameBase(stack, b, f.here)
              /\ \A x \in f.raised : SameBase(stack, b, x)
              /\ SameBase(stack, b, checkpoints')
              /\ inside' = InForce(stack, b, f.here)
  <2>1. SameBase(stack, b, checkpoints) /\ inside = InForce(stack, b, checkpoints)
    <3>1. Current(stack, status, checkpoints) = checkpoints
      BY DEF Current
    <3>. QED
      BY <1>1, <1>10, <3>1 DEF IInv, NowInRegion
  <2>2. SameBase(stack, b, l)
    <3>1. CASE g = 0
      <4>1. b = 0
        <5>1. b > 0 => b \in g + 1 .. k /\ stack[b].kind = "thunk"
          BY <1>4, <1>10, <3>1 DEF IsBase
        <5>. QED
          BY <1>1, <1>10, <5>1
      <4>. QED
        BY <4>1 DEF SameBase, BaseList, BaseInside
    <3>2. CASE g # 0
      <4>1. \A j \in g .. k : stack[j].kind # "thunk"
        <5>1. g \in Nat /\ \A j \in g .. k : j = g \/ j \in g + 1 .. k
          BY <1>4, <1>8, <3>2
        <5>2. \A j \in g + 1 .. k : stack[j].kind # "thunk"
          BY <1>1, <1>10
        <5>. QED
          BY <1>8, <3>2, <5>1, <5>2
      <4>2. IsBase(stack, b, g) /\ b \in 0 .. g - 1
        <5>1. g \in 1 .. k + 1
          BY <1>4, <1>8, <3>2
        <5>. QED
          BY Zenon, <1>4, <1>10, <4>1, <5>1, BaseBefore
      <4>3. l = stack[g].save
        BY <1>1, <1>8, <3>2
      <4>4. InRegion(stack, g)
        BY <1>1, <1>8, <1>10, <3>2, CallFacts
      <4>. QED
        BY <4>2, <4>3, <4>4 DEF InRegion, OneRegion
    <3>. QED
      BY Zenon, <3>1, <3>2
  <2>. QED
    BY <1>2, <2>1, <2>2
<1>11. \A j \in 1 .. k :
         stack[j].kind \in {"callcc", "guard"} /\ stack[j].id = f.id => f.save = stack[j].save
  BY <1>1, <1>2
<1>. QED
  BY <1>2, <1>3, <1>4, <1>5, <1>6, <1>7, <1>9, <1>10, <1>11, EscapeKeeps

(* The program calls an escape procedure.                                  *)
LEMMA CallEscapeKeeps ==
  ASSUME IInv, CallEscape
  PROVE  IInv'
<1>1. PICK k \in saved :
        /\ stack' = Append(stack, EscapeTo(k.id, k.save, {}))
        /\ astray' = (astray \/ LeavesThunk(Target(k.id)))
  BY DEF CallEscape, Begin
<1>2. /\ InProgram /\ UNCHANGED <<checkpoints, saved, made, status, inside, chain>>
  BY DEF CallEscape
<1>3. PICK e, l : e = k.id /\ l = k.save
  OBVIOUS
<1>4. /\ e \in 0 .. MaxMade /\ Proper(chain, made, l) /\ {} \in SUBSET {checkpoints}
      /\ stack' = Append(stack, EscapeTo(e, l, {}))
  BY <1>1, <1>3, StateFacts DEF Extent
<1>5. /\ status # "over" /\ status' = "run" /\ ~EscapeOnTop(stack)
  BY <1>2 DEF InProgram, Innermost, EscapeOnTop
<1>6. \A j \in 1 .. Len(stack) :
        stack[j].kind \in {"callcc", "guard"} /\ stack[j].id = e => l = stack[j].save
  BY <1>3 DEF IInv, SavedInPlace
<1>7. astray' \in BOOLEAN
  BY <1>1 DEF IInv, WindTypeOK
<1>8. ASSUME ~astray'
      PROVE  ~astray /\ \A j \in Target(e) + 1 .. Len(stack) : stack[j].kind # "thunk"
  <2>1. ~astray /\ ~LeavesThunk(Target(e))
    BY <1>1, <1>3, <1>8
  <2>2. Target(e) \in Nat /\ Len(stack) \in Nat
    BY TargetFacts, StackFacts
  <2>3. \A j \in Target(e) + 1 .. Len(stack) : j > Target(e) /\ j \in 1 .. Len(stack)
    BY <2>2
  <2>. QED
    BY <2>1, <2>3, StackFacts DEF LeavesThunk, Calls
<1>. QED
  BY <1>2, <1>4, <1>5, <1>6, <1>7, <1>8, BeginKeeps

(* The body of a guard ends.                                               *)
LEMMA GuardKeeps ==
  ASSUME IInv, ReturnFromGuard
  PROVE  IInv'
<1>1. PICK n : n = Len(stack)
  OBVIOUS
<1>2. /\ InProgram /\ stack # <<>> /\ Innermost.kind = "guard"
      /\ stack' = Append(stack, EscapeTo(Innermost.id, Innermost.save, {}))
      /\ UNCHANGED <<checkpoints, saved, made, status, inside, chain, astray>>
  BY DEF ReturnFromGuard, Begin
<1>3. n \in 1 .. Len(stack) /\ Innermost = stack[n]
  BY <1>1, <1>2, TopFacts
<1>4. PICK e, l : e = stack[n].id /\ l = stack[n].save
  OBVIOUS
<1>5. /\ e \in 0 .. MaxMade /\ Proper(chain, made, l) /\ {} \in SUBSET {checkpoints}
      /\ stack' = Append(stack, EscapeTo(e, l, {}))
  BY <1>2, <1>3, <1>4, CallFacts DEF Call, ProperLists
<1>6. /\ status # "over" /\ status' = "run" /\ ~EscapeOnTop(stack)
  BY <1>2 DEF InProgram, Innermost, EscapeOnTop
<1>7. n = Target(e)
  BY <1>2, <1>3, <1>4, TargetFacts
<1>8. \A j \in 1 .. Len(stack) :
        stack[j].kind \in {"callcc", "guard"} /\ stack[j].id = e => l = stack[j].save
  BY <1>4, <1>7, TargetFacts
<1>9. ASSUME ~astray'
      PROVE  ~astray /\ \A j \in Target(e) + 1 .. Len(stack) : stack[j].kind # "thunk"
  <2>1. n \in Nat /\ n + 1 .. n = {}
    BY <1>1, StackFacts
  <2>. QED
    BY <1>1, <1>2, <1>7, <1>9, <2>1
<1>10. astray' \in BOOLEAN
  BY <1>2 DEF IInv, WindTypeOK
<1>. QED
  BY <1>2, <1>5, <1>6, <1>8, <1>9, <1>10, BeginKeeps

(* An error is handled.                                                    *)
LEMMA HandleKeeps ==
  ASSUME IInv, Handle
  PROVE  IInv'
<1>1. PICK i : i = HandlerIn[Len(stack)]
  OBVIOUS
<1>2. /\ status = "error" /\ astray' = (astray \/ LeavesThunk(i))
      /\ UNCHANGED <<checkpoints, saved, made, inside, chain>>
  BY <1>1 DEF Handle
<1>3. \/ i = 0 /\ stack' = <<>> /\ status' = "over"
      \/ i \in Calls({"eval"}) /\ CutTo(i - 1) /\ status' = "error"
      \/ /\ i \in Calls({"guard"})
         /\ stack' = Append(stack, EscapeTo(stack[i].id, stack[i].save, {checkpoints}))
         /\ status' = "run"
  BY <1>1 DEF Handle, Begin
<1>4. /\ astray' \in BOOLEAN /\ (~astray' => ~astray /\ ~LeavesThunk(i))
      /\ Proper(chain, made, checkpoints') /\ ~EscapeOnTop(stack)
  BY <1>2 DEF IInv, WindTypeOK, ExtentsInPlace, TopInPlace
<1>5. CASE i = 0 /\ stack' = <<>> /\ status' = "over"
  <2>1. 0 \in 0 .. Len(stack) /\ stack' = SubSeq(stack, 1, 0)
    <3>1. stack \in Seq(Call) /\ Len(stack) \in Nat
      BY StackFacts
    <3>. QED
      BY <1>5, <3>1
  <2>2. status' \in {"run", "error", "over"} /\ status' # "run"
    BY <1>5
  <2>. QED
    BY <1>2, <1>4, <1>5, <2>1, <2>2, CutKeeps
<1>6. ASSUME i \in Calls({"eval", "guard"}), ~astray'
      PROVE  \A j \in i + 1 .. Len(stack) : stack[j].kind # "thunk"
  <2>1. i \in 1 .. Len(stack) /\ Len(stack) \in Nat
    BY <1>6, StackFacts DEF Calls
  <2>2. \A j \in i + 1 .. Len(stack) : j > i /\ j \in 1 .. Len(stack)
    BY <2>1
  <2>. QED
    BY <1>4, <1>6, <2>2, StackFacts DEF LeavesThunk, Calls
<1>7. CASE i \in Calls({"eval"}) /\ CutTo(i - 1) /\ status' = "error"
  <2>1. PICK k, n : k = i - 1 /\ n = Len(stack)
    OBVIOUS
  <2>2. i \in 1 .. Len(stack) /\ stack[i].kind = "eval" /\ n \in Nat
    BY <1>7, <2>1, StackFacts DEF Calls
  <2>3. /\ k \in 0 .. Len(stack) /\ stack' = SubSeq(stack, 1, k) /\ k + 1 = i
        /\ k > 0 => stack[k].kind # "escape"
    BY <1>7, <2>1, <2>2, CallFacts DEF CutTo
  <2>4. ASSUME ~astray', NEW b \in 0 .. k, IsBase(stack, b, k + 1)
        PROVE  SameBase(stack, b, checkpoints') /\ inside = InForce(stack, b, checkpoints')
    <3>1. \A j \in i .. n : stack[j].kind # "thunk"
      <4>1. \A j \in i .. n : j = i \/ j \in i + 1 .. n
        BY <2>1, <2>2
      <4>2. \A j \in i + 1 .. n : stack[j].kind # "thunk"
        BY <1>6, <2>1, <2>2, <2>4, StackFacts DEF Calls
      <4>. QED
        BY <2>2, <4>1, <4>2
    <3>2. IsBase(stack, b, n + 1) /\ b \in 0 .. n
      <4>1. i \in 1 .. n + 1 /\ IsBase(stack, b, i)
        BY <2>1, <2>2, <2>3, <2>4
      <4>. QED
        BY Zenon, <2>2, <3>1, <4>1, BaseOn
    <3>3. Current(stack, status, checkpoints) = checkpoints
      BY <1>2 DEF Current
    <3>. QED
      BY <1>2, <1>4, <2>1, <2>4, <3>2, <3>3 DEF IInv, NowInRegion
  <2>5. status' \in {"run", "error", "over"} /\ status' # "run"
    BY <1>7
  <2>. QED
    BY <1>2, <1>4, <2>3, <2>4, <2>5, CutKeeps
<1>8. CASE /\ i \in Calls({"guard"})
           /\ stack' = Append(stack, EscapeTo(stack[i].id, stack[i].save, {checkpoints}))
           /\ status' = "run"
  <2>1. i \in 1 .. Len(stack) /\ stack[i].kind = "guard"
    BY <1>8, StackFacts DEF Calls
  <2>2. PICK e, l : e = stack[i].id /\ l = stack[i].save
    OBVIOUS
  <2>3. /\ e \in 0 .. MaxMade /\ Proper(chain, made, l)
        /\ {checkpoints} \in SUBSET {checkpoints}
        /\ stack' = Append(stack, EscapeTo(e, l, {checkpoints}))
    BY <1>8, <2>1, <2>2, CallFacts DEF Call, ProperLists
  <2>4. i = Target(e)
    BY <2>1, <2>2, TargetFacts
  <2>5. \A j \in 1 .. Len(stack) :
          stack[j].kind \in {"callcc", "guard"} /\ stack[j].id = e => l = stack[j].save
    BY <2>2, <2>4, TargetFacts
  <2>6. ASSUME ~astray'
        PROVE  ~astray /\ \A j \in Target(e) + 1 .. Len(stack) : stack[j].kind # "thunk"
    BY <1>4, <1>6, <2>1, <2>4, <2>6, StackFacts DEF Calls
  <2>. QED
    BY <1>2, <1>4, <1>8, <2>3, <2>5, <2>6, BeginKeeps
<1>. QED
  BY Zenon, <1>3, <1>5, <1>7, <1>8

(* An escape is done with do-wind: it jumps, or its target is gone.        *)
LEMMA JumpKeeps ==
  ASSUME IInv, Jump
  PROVE  IInv'
<1>1. PICK n, f, i : n = Len(stack) /\ f = Innermost /\ i = Target(f.id)
  OBVIOUS
<1>2. /\ status = "run" /\ stack # <<>> /\ f.kind = "escape" /\ f.here = f.save
      /\ checkpoints' = f.save /\ UNCHANGED <<saved, made, inside, chain, astray>>
  BY <1>1 DEF Jump, Winding
<1>3. IF i = 0 THEN CutTo(n - 1) /\ status' = "error" ELSE Leave(i) /\ status' = status
  BY <1>1 DEF Jump
<1>4. n \in 1 .. Len(stack) /\ f = stack[n] /\ n \in Nat /\ n - 1 + 1 = n
  BY <1>1, <1>2, TopFacts
<1>5. /\ f \in Call /\ ProperLists(f, chain, made) /\ InOrder(stack, n, made)
      /\ n - 1 \in 0 .. Len(stack) /\ n - 1 > 0 => stack[n - 1].kind # "escape"
      /\ ~astray => InRegion(stack, n)
  BY <1>2, <1>4, CallFacts
<1>6. /\ Proper(chain, made, checkpoints') /\ astray' \in BOOLEAN
      /\ inside' \subseteq Extent /\ \A x \in inside' : chain[x] # <<>>
  BY <1>2, <1>5 DEF IInv, WindTypeOK, ExtentsInPlace, ProperLists
<1>7. ASSUME ~astray', NEW b, IsBase(stack, b, n)
      PROVE  /\ SameBase(stack, b, f.save) /\ SameBase(stack, b, f.here)
             /\ \A l \in f.raised : SameBase(stack, b, l)
             /\ inside = InForce(stack, b, f.here)
  <2>1. OneRegion(stack, n, b)
    BY <1>2, <1>5, <1>7 DEF InRegion, IsBase
  <2>2. IsBase(stack, b, n + 1) /\ b \in 0 .. n
    <3>1. n \in 1 .. n + 1 /\ \A j \in n .. n : stack[j].kind # "thunk"
      BY <1>2, <1>4
    <3>. QED
      BY Zenon, <1>4, <1>7, <3>1, BaseOn
  <2>3. Current(stack, status, checkpoints) = f.here
    BY <1>1, <1>2, <1>4 DEF Current, EscapeOnTop
  <2>4. inside = InForce(stack, b, f.here)
    BY <1>1, <1>2, <1>7, <2>2, <2>3 DEF IInv, NowInRegion
  <2>. QED
    BY <1>2, <1>4, <2>1, <2>4 DEF OneRegion
<1>8. CASE i = 0
  <2>1. PICK k : k = n - 1
    OBVIOUS
  <2>2. /\ k \in 0 .. Len(stack) /\ stack' = SubSeq(stack, 1, k) /\ k + 1 = n
        /\ k > 0 => stack[k].kind # "escape"
        /\ status' \in {"run", "error", "over"} /\ status' # "run"
    BY <1>3, <1>4, <1>5, <1>8, <2>1 DEF CutTo
  <2>3. ASSUME ~astray', NEW b \in 0 .. k, IsBase(stack, b, k + 1)
        PROVE  SameBase(stack, b, checkpoints') /\ inside = InForce(stack, b, checkpoints')
    BY <1>2, <1>7, <2>2, <2>3
  <2>4. ~astray' => ~astray
    BY <1>2
  <2>. QED
    BY <1>2, <1>6, <2>2, <2>3, <2>4, CutKeeps
<1>9. CASE i # 0
  <2>1. PICK k : k = i - 1
    OBVIOUS
  <2>2. /\ i \in 1 .. Len(stack) /\ stack[i].kind \in {"callcc", "guard"}
        /\ stack[i].id = f.id
    BY <1>1, <1>9, TargetFacts
  <2>3. i \in 1 .. n - 1 /\ i \in Nat /\ i \in 1 .. n - 1 + 1
    <3>1. i # n
      BY <1>2, <1>4, <2>2
    <3>. QED
      BY <1>1, <1>4, <2>2, <3>1
  <2>4. /\ k \in 0 .. Len(stack) /\ k + 1 = i /\ Nested(stack, i)
        /\ k > 0 => stack[k].kind # "escape"
    BY <2>1, <2>2, CallFacts
  <2>5. f.save = Below(stack, i)
    <3>1. stack[i].save = Below(stack, i)
      BY <2>2, <2>4 DEF Nested
    <3>2. f.save = stack[i].save
      BY <1>2, <1>4, <1>5, <2>2, <2>3 DEF InOrder
    <3>. QED
      BY <3>1, <3>2
  <2>6. ASSUME ~astray', NEW b, IsBase(stack, b, k + 1)
        PROVE  IsBase(stack, b, n)
    <3>1. \A j \in i .. n - 1 : stack[j].kind # "thunk"
      <4>1. NoThunkLeft(stack, n)
        BY <1>2, <1>5, <2>6 DEF InRegion
      <4>2. \A j \in i + 1 .. n - 1 : stack[j].kind # "thunk"
        BY <1>2, <1>4, <2>2, <2>3, <4>1 DEF NoThunkLeft
      <4>3. \A j \in i .. n - 1 : j = i \/ j \in i + 1 .. n - 1
        BY <2>3
      <4>. QED
        BY <2>2, <4>2, <4>3
    <3>2. IsBase(stack, b, i) /\ n - 1 \in Nat
      BY <1>4, <2>4, <2>6
    <3>3. IsBase(stack, b, n - 1 + 1)
      BY Zenon, <2>3, <3>1, <3>2, BaseOn
    <3>. QED
      BY <1>4, <3>3
  <2>7. status' = "run" /\ (~astray' => ~astray)
    BY <1>2, <1>3, <1>9
  <2>8. CASE CutTo(i - 1)
    <3>1. stack' = SubSeq(stack, 1, k)
      BY <2>1, <2>8 DEF CutTo
    <3>2. checkpoints' = Below(stack, k + 1)
      BY <1>2, <2>4, <2>5
    <3>3. ASSUME ~astray', NEW b \in 0 .. k, IsBase(stack, b, k + 1)
          PROVE  SameBase(stack, b, checkpoints') /\ inside = InForce(stack, b, checkpoints')
      <4>1. IsBase(stack, b, n)
        BY <2>6, <3>3
      <4>. QED
        BY <1>2, <1>7, <3>3, <4>1
    <3>. QED
      BY <1>2, <1>6, <2>4, <2>7, <3>1, <3>2, <3>3, CutKeeps
  <2>9. ASSUME NEW r \in f.raised,
               stack' = Append(SubSeq(stack, 1, i - 1),
                               [EscapeTo(0, r, {}) EXCEPT !.here = Innermost.save])
        PROVE  IInv'
    <3>1. PICK g : g = [EscapeTo(0, r, {}) EXCEPT !.here = Innermost.save]
      OBVIOUS
    <3>2. /\ g.kind = "escape" /\ g.id = 0 /\ g.save = r /\ g.here = f.save
          /\ g.raised = {} /\ g.inside = {}
      BY <1>1, <3>1 DEF EscapeTo
    <3>3. /\ Proper(chain, made, r) /\ Proper(chain, made, f.save)
          /\ r \in Seq(Extent) /\ f.save \in Seq(Extent)
      BY <1>5, <2>9 DEF ProperLists, Proper
    <3>4. g \in Call /\ ProperLists(g, chain, made) /\ EnteredExtents(g, chain)
      BY <1>1, <3>1, <3>2, <3>3, WindsAssumption
         DEF EscapeTo, Call, Kinds, ProperLists, EnteredExtents
    <3>5. stack' = Append(SubSeq(stack, 1, k), g)
      BY <2>1, <2>9, <3>1
    <3>6. \A j \in 1 .. k : stack[j].kind \in {"callcc", "guard"} => stack[j].id # g.id
      <4>1. \A j \in 1 .. k : j \in 1 .. Len(stack)
        BY <2>4
      <4>2. \A j \in 1 .. k : stack[j].kind \in {"callcc", "guard"} => stack[j].id \in 1 .. made
        BY <4>1, CallFacts DEF InOrder, Numbered
      <4>. QED
        BY <3>2, <4>2
    <3>7. ASSUME ~astray', NEW b \in 0 .. k, IsBase(stack, b, k + 1)
          PROVE  /\ SameBase(stack, b, g.save) /\ SameBase(stack, b, g.here)
                 /\ \A l \in g.raised : SameBase(stack, b, l)
                 /\ SameBase(stack, b, checkpoints')
                 /\ inside' = InForce(stack, b, g.here)
      <4>1. IsBase(stack, b, n)
        BY <2>6, <3>7
      <4>2. /\ SameBase(stack, b, f.save) /\ SameBase(stack, b, r)
            /\ inside = InForce(stack, b, f.save)
        BY <1>2, <1>7, <2>9, <3>7, <4>1
      <4>. QED
        BY <1>2, <3>2, <4>2
    <3>. QED
      BY <1>2, <1>6, <2>4, <2>7, <3>2, <3>4, <3>5, <3>6, <3>7, EscapeKeeps
  <2>10. Leave(i)
    BY <1>3, <1>9
  <2>. QED
    BY <1>1, <2>8, <2>9, <2>10 DEF Leave
<1>. QED
  BY Zenon, <1>8, <1>9

(* do-wind leaves the innermost extent of its list, which is entered in    *)
(* the thunk that do-wind is in.                                           *)
LEMMA LeaveInForce ==
  ASSUME NEW c \in [Extent -> Seq(Extent)], NEW m, NEW f, ~Entering(f), f.here # f.save,
         Proper(c, m, f.save), Proper(c, m, f.here), NEW s, NEW b,
         SameBase(s, b, f.save), SameBase(s, b, f.here)
  PROVE  /\ InForce(s, b, Tail(f.here)) = InForce(s, b, f.here) \ {NextExtent(f)}
         /\ SameBase(s, b, Tail(f.here))
<1>1. /\ NextExtent(f) \in Extents(f.here) /\ NextExtent(f) \notin Extents(f.save)
      /\ Extents(Tail(f.here)) = Extents(f.here) \ {NextExtent(f)}
  BY LeaveStep
<1>. QED
  BY <1>1 DEF SameBase, InForce

(* do-wind enters the next extent of the list that it goes to.             *)
LEMMA EnterInForce ==
  ASSUME NEW c \in [Extent -> Seq(Extent)], NEW m, NEW f, Entering(f),
         Proper(c, m, f.save), Proper(c, m, f.here), NEW s, NEW b,
         SameBase(s, b, f.save), SameBase(s, b, f.here)
  PROVE  /\ InForce(s, b, Reached(f)) = InForce(s, b, f.here) \cup {NextExtent(f)}
         /\ SameBase(s, b, Reached(f))
<1>1. /\ NextExtent(f) \in Extents(f.save) /\ NextExtent(f) \notin Extents(f.here)
      /\ Extents(Reached(f)) = Extents(f.here) \cup {NextExtent(f)}
  BY EnterStep
<1>. QED
  BY <1>1 DEF SameBase, InForce

(* do-wind calls a thunk.                                                  *)
LEMMA ThunkKeeps ==
  ASSUME IInv, CallThunk
  PROVE  IInv'
<1>1. PICK n, e, x : n = Len(stack) /\ e = Innermost /\ x = NextExtent(e)
  OBVIOUS
<1>2. /\ status = "run" /\ stack # <<>> /\ e.kind = "escape" /\ e.here # e.save
      /\ inside' = IF Entering(e) THEN inside ELSE inside \ {x}
      /\ stack' = Append(stack, [WindCall("thunk", x) EXCEPT !.inside = inside'])
      /\ UNCHANGED <<checkpoints, saved, made, status, chain, astray>>
  BY <1>1 DEF CallThunk, Winding, Begin
<1>3. n \in 1 .. Len(stack) /\ e = stack[n] /\ n \in Nat /\ n + 1 - 1 = n
  BY <1>1, <1>2, TopFacts
<1>4. PICK s, t, f, in, l : /\ s = stack /\ t = stack' /\ in = inside' /\ l = checkpoints
                            /\ f = [WindCall("thunk", x) EXCEPT !.inside = inside']
  OBVIOUS
<1>5. /\ f.kind = "thunk" /\ f.id = x /\ f.save = l /\ f.here = <<>> /\ f.raised = {}
      /\ f.inside = in
  BY <1>4 DEF WindCall
<1>6. /\ e \in Call /\ ProperLists(e, chain, made)
      /\ chain \in [Extent -> Seq(Extent)] /\ Proper(chain, made, l) /\ l \in Seq(Extent)
      /\ inside \subseteq Extent /\ \A y \in inside : chain[y] # <<>>
      /\ ~astray => InRegion(stack, n)
  BY <1>3, <1>4, CallFacts, StateFacts DEF IInv, ExtentsInPlace
<1>7. Proper(chain, made, e.save) /\ Proper(chain, made, e.here)
  BY <1>6 DEF ProperLists
<1>8. in \subseteq inside /\ in \subseteq Extent /\ \A y \in in : chain[y] # <<>>
  BY <1>2, <1>4, <1>6
<1>9. x \in Extent
  <2>1. x \in Extents(e.save) \/ x \in Extents(e.here)
    <3>1. CASE Entering(e)
      BY <1>1, <1>6, <1>7, <3>1, EnterStep
    <3>2. CASE ~Entering(e)
      BY <1>1, <1>2, <1>6, <1>7, <3>2, LeaveStep
    <3>. QED
      BY <3>1, <3>2
  <2>. QED
    BY <1>7, <2>1, ProperEntered
<1>10. f \in Call
  <2>1. x \in 0 .. MaxMade
    BY <1>9 DEF Extent
  <2>2. f = [kind |-> "thunk", id |-> x, save |-> l, here |-> <<>>, raised |-> {},
             inside |-> in]
    BY <1>4 DEF WindCall
  <2>. QED
    BY <1>6, <1>8, <2>1, <2>2 DEF Call, Kinds
<1>11. /\ s \in Seq(Call) /\ n \in 0 .. Len(s) /\ t = Append(SubSeq(s, 1, n), f)
       /\ StackInPlace(s, chain, made, ~astray)
  BY <1>1, <1>2, <1>4, StackFacts DEF IInv
<1>12. t \in Seq(Call) /\ Len(t) = n + 1 /\ t[n + 1] = f /\ \A j \in 1 .. n : t[j] = s[j]
  BY <1>10, <1>11, PutStack
<1>13. n + 1 \in 1 .. n + 1 /\ n \in Nat /\ \A j \in 1 .. n : t[j] = s[j]
  BY <1>3, <1>12
<1>14. InPlace(t, n + 1, chain, made)
  <2>1. ProperLists(f, chain, made)
    <3>1. Proper(chain, made, <<>>)
      BY DEF Proper
    <3>. QED
      BY <1>5, <1>6, <3>1 DEF ProperLists
  <2>2. EnteredExtents(f, chain)
    BY <1>5, <1>8 DEF EnteredExtents
  <2>3. InOrder(t, n + 1, made)
    BY <1>5, <1>12 DEF InOrder, Numbered
  <2>4. Nested(t, n + 1)
    <3>1. n + 1 > 1 /\ n \in 1 .. n /\ t[n] = e
      BY <1>3, <1>4, <1>12
    <3>. QED
      BY <1>2, <1>3, <1>5, <1>12, <3>1 DEF Nested
  <2>. QED
    BY <1>12, <2>1, <2>2, <2>3, <2>4 DEF InPlace
<1>15. ASSUME ~astray, NEW b \in 0 .. n, IsBase(t, b, n + 1)
       PROVE  /\ SameBase(s, b, l)
              /\ in = InForce(s, b, IF Entering(e) THEN e.here ELSE Tail(e.here))
  <2>1. IsBase(s, b, n + 1)
    BY Zenon, <1>13, <1>15, BaseKept
  <2>2. SameBase(s, b, l) /\ inside = InForce(s, b, e.here)
    <3>1. Current(stack, status, checkpoints) = e.here
      BY <1>1, <1>2, <1>3 DEF Current, EscapeOnTop
    <3>. QED
      BY <1>1, <1>2, <1>4, <1>15, <2>1, <3>1 DEF IInv, NowInRegion
  <2>3. SameBase(s, b, e.save) /\ SameBase(s, b, e.here)
    <3>1. n \in 1 .. n + 1 /\ \A j \in n .. n : s[j].kind # "thunk"
      BY <1>2, <1>3, <1>4
    <3>2. IsBase(s, b, n) /\ b \in 0 .. n - 1
      BY Zenon, <1>3, <2>1, <3>1, BaseBefore
    <3>3. OneRegion(s, n, b)
      BY <1>4, <1>6, <1>15, <3>2 DEF InRegion
    <3>. QED
      BY <1>2, <1>3, <1>4, <3>3 DEF OneRegion
  <2>4. CASE Entering(e)
    BY <1>2, <1>4, <2>2, <2>4
  <2>5. CASE ~Entering(e)
    <3>1. InForce(s, b, Tail(e.here)) = InForce(s, b, e.here) \ {x}
      BY <1>1, <1>2, <1>6, <1>7, <2>3, <2>5, LeaveInForce
    <3>. QED
      BY <1>2, <1>4, <2>2, <2>5, <3>1
  <2>. QED
    BY Zenon, <2>4, <2>5
<1>16. ~astray => InRegion(t, n + 1)
  <2>1. ASSUME ~astray, NEW b \in 0 .. n + 1 - 1, IsBase(t, b, n + 1)
        PROVE  OneRegion(t, n + 1, b)
    <3>1. b \in 0 .. n
      BY <1>3
    <3>2. PICK h : h = IF Entering(e) THEN e.here ELSE Tail(e.here)
      OBVIOUS
    <3>3. SameBase(s, b, l) /\ in = InForce(s, b, h)
      BY <1>15, <2>1, <3>1, <3>2
    <3>4. InForce(t, b, l) = InForce(s, b, l) /\ (SameBase(s, b, l) => SameBase(t, b, l))
      BY Zenon, <1>13, <3>1, ListKept
    <3>5. InForce(t, b, h) = InForce(s, b, h) /\ (SameBase(s, b, h) => SameBase(t, b, h))
      BY Zenon, <1>13, <3>1, ListKept
    <3>6. t[n] = e
      <4>1. n \in 1 .. n
        BY <1>3
      <4>. QED
        BY <1>3, <1>4, <1>13, <4>1
    <3>. QED
      BY <1>3, <1>5, <1>12, <3>2, <3>3, <3>4, <3>5, <3>6 DEF OneRegion
  <2>2. NoThunkLeft(t, n + 1)
    BY <1>5, <1>12 DEF NoThunkLeft
  <2>. QED
    BY <1>3, <2>1, <2>2 DEF InRegion
<1>17. StackInPlace(t, chain, made, ~astray)
  BY <1>11, <1>12, <1>14, <1>16, PutInPlace
<1>18. WindTypeOK' /\ ExtentsInPlace'
  BY <1>2, <1>4, <1>8 DEF IInv, WindTypeOK, ExtentsInPlace
<1>19. SavedInPlace'
  <2>1. \A i \in 1 .. n + 1 : (i \in 1 .. Len(s) /\ t[i] = s[i]) \/ t[i].kind = "thunk"
    <3>1. \A i \in 1 .. n + 1 : i = n + 1 \/ i \in 1 .. n
      BY <1>3
    <3>. QED
      BY <1>1, <1>4, <1>5, <1>12, <3>1
  <2>. QED
    BY <1>2, <1>4, <1>12, <2>1 DEF IInv, SavedInPlace
<1>20. ~EscapeOnTop(t)
  BY <1>5, <1>12 DEF EscapeOnTop
<1>21. TopInPlace'
  <2>1. n + 2 # 1 /\ n + 2 - 1 = n + 1 /\ Len(t) + 1 = n + 2
    BY <1>3, <1>12
  <2>2. Below(t, Len(t) + 1) = l
    BY <1>5, <1>12, <2>1 DEF Below
  <2>. QED
    BY <1>2, <1>4, <1>20, <2>2 DEF TopInPlace
<1>22. NowInRegion'
  <2>1. SUFFICES ASSUME NEW b \in 0 .. n + 1, IsBase(t, b, n + 2)
                 PROVE  SameBase(t, b, l) /\ in = InForce(t, b, l)
    <3>1. Current(t, status, l) = l /\ Len(t) + 1 = n + 2
      BY <1>3, <1>12, <1>20 DEF Current
    <3>. QED
      BY <1>2, <1>4, <1>12, <2>1, <3>1 DEF NowInRegion
  <2>2. b = n + 1
    BY <1>5, <1>12, <1>13, <2>1, BaseOfThunk
  <2>3. b # 0 /\ BaseList(t, b) = Extents(l) /\ BaseInside(t, b) = in
    BY <1>3, <1>5, <1>12, <2>2 DEF BaseList, BaseInside
  <2>. QED
    BY <2>3 DEF SameBase, InForce
<1>. QED
  BY <1>2, <1>4, <1>17, <1>18, <1>19, <1>21, <1>22 DEF IInv

(* The thunk of a do-wind returns.                                         *)
LEMMA WoundKeeps ==
  ASSUME IInv, WoundThunkReturns
  PROVE  IInv'
<1>1. PICK n, o, e, f : /\ n = Len(stack) /\ o = n - 1 /\ e = stack[n - 1]
                        /\ f = [e EXCEPT !.here = Reached(e)]
  OBVIOUS
<1>2. /\ InProgram /\ stack # <<>> /\ Innermost.kind = "thunk"
      /\ stack' = Append(SubSeq(stack, 1, n - 2), f)
      /\ inside' = IF Entering(e) THEN inside \cup {NextExtent(e)} ELSE inside
      /\ UNCHANGED <<checkpoints, saved, made, status, chain, astray>>
  BY <1>1 DEF WoundThunkReturns
<1>3. /\ n \in 1 .. Len(stack) /\ Innermost = stack[n] /\ n \in Nat
      /\ checkpoints = stack[n].save
  BY <1>1, <1>2, TopFacts
<1>4. Nested(stack, n) /\ (~astray => InRegion(stack, n))
  BY <1>3, CallFacts
<1>5. n > 1 /\ e.kind = "escape" /\ e.here # e.save
  BY <1>1, <1>2, <1>3, <1>4 DEF Nested
<1>6. PICK k : k = n - 2
  OBVIOUS
<1>7. /\ o \in 1 .. Len(stack) /\ o \in Nat /\ k = o - 1 /\ k + 1 = o /\ o + 1 = n
      /\ e = stack[o] /\ k \in Nat /\ k + 1 - 1 = k
  BY <1>1, <1>3, <1>5, <1>6
<1>8. /\ e \in Call /\ ProperLists(e, chain, made) /\ EnteredExtents(e, chain)
      /\ InOrder(stack, o, made) /\ k \in 0 .. Len(stack)
      /\ k > 0 => stack[k].kind # "escape"
      /\ ~astray => InRegion(stack, o)
  BY <1>5, <1>7, CallFacts
<1>9. /\ Proper(chain, made, e.save) /\ Proper(chain, made, e.here)
      /\ chain \in [Extent -> Seq(Extent)]
  BY <1>8, StateFacts DEF ProperLists
<1>10. PICK r, x : r = Reached(e) /\ x = NextExtent(e)
  OBVIOUS
<1>11. Proper(chain, made, r) /\ r \in Seq(Extent) /\ x \in Extent /\ chain[x] # <<>>
  <2>1. Proper(chain, made, r) /\ x \in Extents(e.save) \cup Extents(e.here)
    <3>1. CASE Entering(e)
      BY <1>9, <1>10, <3>1, EnterStep
    <3>2. CASE ~Entering(e)
      <4>1. /\ Reached(e) = Tail(e.here) /\ Proper(chain, made, Tail(e.here))
            /\ NextExtent(e) \in Extents(e.here)
        BY <1>5, <1>9, <3>2, LeaveStep
      <4>. QED
        BY <1>10, <4>1
    <3>. QED
      BY Zenon, <3>1, <3>2
  <2>2. x \in Extent /\ chain[x] # <<>>
    BY <1>9, <2>1, ProperEntered
  <2>. QED
    BY <2>1, <2>2 DEF Proper
<1>12. f = [kind |-> e.kind, id |-> e.id, save |-> e.save, here |-> r, raised |-> e.raised,
            inside |-> e.inside]
  BY <1>1, <1>8, <1>10 DEF Call
<1>13. f \in Call
  BY <1>8, <1>11, <1>12 DEF Call
<1>14. /\ f.kind = "escape" /\ f.id = e.id /\ f.save = e.save /\ f.here = r
       /\ f.raised = e.raised /\ f.inside = e.inside
  BY <1>5, <1>12
<1>15. ProperLists(f, chain, made) /\ EnteredExtents(f, chain)
  BY <1>8, <1>11, <1>14 DEF ProperLists, EnteredExtents
<1>16. /\ Proper(chain, made, checkpoints') /\ status' = "run" /\ astray' \in BOOLEAN
       /\ inside' \subseteq Extent /\ \A y \in inside' : chain[y] # <<>>
  BY <1>2, <1>10, <1>11 DEF IInv, WindTypeOK, ExtentsInPlace, InProgram
<1>17. ASSUME ~astray', NEW b \in 0 .. k, IsBase(stack, b, k + 1)
       PROVE  /\ SameBase(stack, b, f.save) /\ SameBase(stack, b, f.here)
              /\ \A l \in f.raised : SameBase(stack, b, l)
              /\ SameBase(stack, b, checkpoints')
              /\ inside' = InForce(stack, b, f.here)
  <2>1. IsBase(stack, b, o) /\ b \in 0 .. o - 1
    BY <1>7, <1>17
  <2>2. IsBase(stack, b, n) /\ b \in 0 .. n - 1
    <3>1. o \in 1 .. o + 1 /\ \A j \in o .. o : stack[j].kind # "thunk"
      BY <1>5, <1>7
    <3>2. IsBase(stack, b, o + 1) /\ b \in 0 .. o
      BY Zenon, <1>7, <2>1, <3>1, BaseOn
    <3>. QED
      BY <1>7, <3>2
  <2>3. /\ SameBase(stack, b, e.save) /\ SameBase(stack, b, e.here)
        /\ \A l \in e.raised : SameBase(stack, b, l)
    <3>1. OneRegion(stack, o, b)
      BY <1>2, <1>8, <1>17, <2>1 DEF InRegion
    <3>. QED
      BY <1>5, <1>7, <3>1 DEF OneRegion
  <2>4. /\ SameBase(stack, b, checkpoints)
        /\ stack[n].inside = InForce(stack, b, IF Entering(e) THEN e.here ELSE Tail(e.here))
    <3>1. OneRegion(stack, n, b)
      BY <1>2, <1>4, <1>17, <2>2 DEF InRegion
    <3>. QED
      BY <1>1, <1>2, <1>3, <1>5, <3>1 DEF OneRegion
  <2>5. inside = stack[n].inside
    <3>1. n \in 0 .. n /\ IsBase(stack, n, n + 1)
      <4>1. n \in 0 .. n + 1 - 1 /\ n + 1 .. n + 1 - 1 = {}
        BY <1>3
      <4>. QED
        BY <1>2, <1>3, <4>1 DEF IsBase
    <3>2. Current(stack, status, checkpoints) = checkpoints
      BY <1>1, <1>2, <1>3 DEF Current, EscapeOnTop
    <3>3. inside = InForce(stack, n, checkpoints)
      BY <1>1, <1>2, <1>17, <3>1, <3>2 DEF IInv, NowInRegion, InProgram
    <3>4. n # 0
      BY <1>3
    <3>. QED
      BY <1>3, <3>3, <3>4 DEF InForce, BaseList, BaseInside
  <2>6. SameBase(stack, b, r) /\ inside' = InForce(stack, b, r)
    <3>1. CASE Entering(e)
      <4>1. /\ InForce(stack, b, r) = InForce(stack, b, e.here) \cup {x}
            /\ SameBase(stack, b, r)
        BY <1>9, <1>10, <2>3, <3>1, EnterInForce
      <4>. QED
        BY <1>2, <1>10, <2>4, <2>5, <3>1, <4>1
    <3>2. CASE ~Entering(e)
      <4>1. r = Tail(e.here)
        BY <1>10, <3>2 DEF Reached
      <4>2. SameBase(stack, b, Tail(e.here))
        BY <1>5, <1>9, <2>3, <3>2, LeaveInForce
      <4>. QED
        BY <1>2, <2>4, <2>5, <3>2, <4>1, <4>2
    <3>. QED
      BY Zenon, <3>1, <3>2
  <2>. QED
    BY <1>2, <1>14, <2>3, <2>4, <2>6
<1>18. ASSUME NEW j \in 1 .. k, stack[j].kind \in {"callcc", "guard"}, stack[j].id = f.id
       PROVE  f.save = stack[j].save
  BY <1>5, <1>7, <1>8, <1>14, <1>18 DEF InOrder
<1>19. ASSUME ~astray', NEW j \in 1 .. k, stack[j].kind \in {"callcc", "guard"},
              stack[j].id = f.id
       PROVE  \A i \in j + 1 .. k : stack[i].kind # "thunk"
  <2>1. NoThunkLeft(stack, o)
    BY <1>2, <1>8, <1>19 DEF InRegion
  <2>. QED
    BY <1>5, <1>7, <1>14, <1>19, <2>1 DEF NoThunkLeft
<1>20. stack' = Append(SubSeq(stack, 1, k), f) /\ (~astray' => ~astray)
  BY <1>2, <1>6
<1>. QED
  BY <1>2, <1>8, <1>13, <1>14, <1>15, <1>16, <1>17, <1>18, <1>19, <1>20, EscapeKeeps

(* The innermost dynamic-wind goes on to its next stage.                   *)
LEMMA TurnInPlace ==
  ASSUME IInv, stack # <<>>, Innermost.kind \in {"in", "wind"},
         NEW q \in {"wind", "out"}, Turn(q), NEW t, t = stack', NEW n, n = Len(stack)
  PROVE  /\ StackInPlace(t, chain, made, ~astray) /\ Len(t) = n
         /\ \A j \in 1 .. n - 1 : t[j] = stack[j]
         /\ t[n].kind = q /\ t[n].id = stack[n].id /\ t[n].save = stack[n].save
<1>1. PICK s, e, f : s = stack /\ e = stack[n] /\ f = [stack[n] EXCEPT !.kind = q]
  OBVIOUS
<1>2. n \in 1 .. Len(stack) /\ Innermost = e /\ n \in Nat /\ s \in Seq(Call)
  BY <1>1, TopFacts, StackFacts
<1>3. /\ e \in Call /\ ProperLists(e, chain, made) /\ EnteredExtents(e, chain)
      /\ InOrder(s, n, made) /\ Nested(s, n) /\ (~astray => InRegion(s, n))
  BY <1>1, <1>2, CallFacts
<1>4. f = [kind |-> q, id |-> e.id, save |-> e.save, here |-> e.here, raised |-> e.raised,
           inside |-> e.inside]
  BY <1>1, <1>3 DEF Call
<1>5. f \in Call
  BY <1>3, <1>4 DEF Call, Kinds
<1>6. /\ f.kind = q /\ f.id = e.id /\ f.save = e.save /\ f.here = e.here
      /\ f.raised = e.raised /\ f.inside = e.inside
  BY <1>4
<1>7. t = [s EXCEPT ![n] = f]
  BY <1>1 DEF Turn
<1>8. t \in Seq(Call) /\ Len(t) = n /\ \A j \in 1 .. n : t[j] = IF j = n THEN f ELSE s[j]
  BY <1>1, <1>2, <1>5, <1>7, ExceptSeq
<1>9. PICK k : k = n - 1
  OBVIOUS
<1>10. /\ k \in Nat /\ k + 1 = n /\ n - 1 = k /\ k \in 0 .. Len(s) /\ t[n] = f
       /\ \A j \in 1 .. k : t[j] = s[j]
  <2>1. k \in Nat /\ k + 1 = n /\ n - 1 = k /\ k \in 0 .. Len(s) /\ n \in 1 .. n
    BY <1>1, <1>2, <1>9
  <2>2. \A j \in 1 .. k : j \in 1 .. n /\ j # n
    BY <2>1
  <2>. QED
    BY <1>8, <2>1, <2>2
<1>11. InPlace(t, n, chain, made)
  <2>1. ProperLists(f, chain, made) /\ EnteredExtents(f, chain)
    BY <1>3, <1>6 DEF ProperLists, EnteredExtents
  <2>2. InOrder(t, n, made)
    BY <1>1, <1>2, <1>3, <1>6, <1>10 DEF InOrder, Numbered
  <2>3. Nested(t, n)
    <3>1. Below(t, n) = Below(s, n)
      <4>1. n \in 1 .. k + 1
        BY <1>2, <1>10
      <4>. QED
        BY <1>10, <4>1, SameBases
    <3>2. n > 1 => s[n - 1].kind # "escape" /\ t[n - 1] = s[n - 1]
      <4>1. n > 1 => k \in 1 .. k
        BY <1>10
      <4>. QED
        BY <1>1, <1>2, <1>3, <1>10, <4>1 DEF Nested
    <3>3. ASSUME \A j \in 1 .. k : t[j].kind \notin {"thunk", "escape"}
          PROVE  Extents(f.save) = {t[j].id : j \in {i \in 1 .. k : t[i].kind = "wind"}}
      <4>1. \A j \in 1 .. k : s[j].kind \notin {"thunk", "escape"}
        BY <1>10, <3>3
      <4>2. Extents(e.save) = {s[j].id : j \in {i \in 1 .. k : s[i].kind = "wind"}}
        BY <1>1, <1>2, <1>3, <1>10, <4>1 DEF Nested
      <4>. QED
        BY <1>6, <1>10, <4>2
    <3>4. f.save = Below(t, n)
      BY <1>1, <1>2, <1>3, <1>6, <3>1 DEF Nested
    <3>. QED
      BY <1>6, <1>10, <3>2, <3>3, <3>4 DEF Nested
  <2>. QED
    BY <1>10, <2>1, <2>2, <2>3 DEF InPlace
<1>12. ASSUME ~astray
       PROVE  InRegion(t, n)
  <2>1. ASSUME NEW b \in 0 .. n - 1, IsBase(t, b, n)
        PROVE  OneRegion(t, n, b)
    <3>1. b \in 0 .. k /\ n \in 1 .. k + 1 /\ k \in Nat
      BY <1>2, <1>10
    <3>2. IsBase(s, b, n)
      BY Zenon, <1>10, <2>1, <3>1, BaseKept
    <3>3. OneRegion(s, n, b)
      BY <1>3, <1>12, <2>1, <3>2 DEF InRegion
    <3>4. SameBase(s, b, f.save)
      BY <1>1, <1>6, <3>3 DEF OneRegion
    <3>5. SameBase(t, b, f.save)
      BY Zenon, <1>10, <3>1, <3>4, ListKept
    <3>. QED
      BY <1>6, <1>10, <3>5 DEF OneRegion
  <2>2. NoThunkLeft(t, n)
    BY <1>6, <1>10 DEF NoThunkLeft
  <2>. QED
    BY <1>2, <2>1, <2>2 DEF InRegion
<1>13. StackInPlace(t, chain, made, ~astray)
  <2>1. StackInPlace(s, chain, made, ~astray)
    BY <1>1 DEF IInv
  <2>2. InPlace(t, k + 1, chain, made) /\ (~astray => InRegion(t, k + 1)) /\ Len(t) = k + 1
    BY <1>8, <1>10, <1>11, <1>12
  <2>. QED
    BY <1>8, <1>10, <2>1, <2>2, PutInPlace
<1>. QED
  BY <1>1, <1>6, <1>8, <1>10, <1>13

(* The thunk of a dynamic-wind returns.                                    *)
LEMMA LeaveKeeps ==
  ASSUME IInv, ReturnFromThunk
  PROVE  IInv'
<1>1. PICK n, s, t, e, l : /\ n = Len(stack) /\ s = stack /\ t = stack'
                           /\ e = stack[n].id /\ l = stack[n].save
  OBVIOUS
<1>2. /\ InProgram /\ stack # <<>> /\ Innermost.kind = "wind" /\ Turn("out")
      /\ checkpoints' = Tail(checkpoints) /\ inside' = inside \ {Innermost.id}
      /\ UNCHANGED <<saved, made, status, chain, astray>>
  BY DEF ReturnFromThunk
<1>3. /\ n \in 1 .. Len(stack) /\ Innermost = stack[n] /\ n \in Nat
      /\ checkpoints = <<e>> \o l
  BY <1>1, <1>2, TopFacts
<1>4. /\ StackInPlace(t, chain, made, ~astray) /\ Len(t) = n
      /\ \A j \in 1 .. n - 1 : t[j] = s[j]
      /\ t[n].kind = "out" /\ t[n].id = e /\ t[n].save = l
  <2>1. Innermost.kind \in {"in", "wind"} /\ "out" \in {"wind", "out"}
    BY <1>2
  <2>2. /\ StackInPlace(t, chain, made, ~astray) /\ Len(t) = n
        /\ \A j \in 1 .. n - 1 : t[j] = stack[j]
        /\ t[n].kind = "out" /\ t[n].id = stack[n].id /\ t[n].save = stack[n].save
    BY <1>1, <1>2, <2>1, TurnInPlace
  <2>. QED
    BY <1>1, <2>2
<1>5. /\ stack[n] \in Call /\ ProperLists(stack[n], chain, made)
      /\ InOrder(stack, n, made) /\ (~astray => InRegion(stack, n))
  BY <1>3, CallFacts
<1>6. /\ Proper(chain, made, l) /\ l \in Seq(Extent) /\ e \in Nat
      /\ e \notin Extents(l)
  <2>1. Proper(chain, made, l) /\ l \in Seq(Extent)
    <3>1. Proper(chain, made, l)
      BY <1>1, <1>5 DEF ProperLists
    <3>. QED
      BY <3>1 DEF Proper
  <2>2. e \in 1 .. made /\ \A x \in Extents(l) : x < e
    BY <1>1, <1>2, <1>3, <1>5 DEF InOrder, Numbered
  <2>3. \A x \in Extents(l) : x # e
    BY <2>2
  <2>. QED
    BY <2>1, <2>2, <2>3
<1>7. checkpoints' = l /\ inside' = inside \ {e} /\ Extents(checkpoints) = Extents(l) \cup {e}
  <2>1. checkpoints' = l
    BY <1>2, <1>3, <1>6
  <2>. QED
    BY <1>1, <1>2, <1>3, <1>6, <2>1, ExtentsOfCons
<1>8. PICK k : k = n - 1
  OBVIOUS
<1>9. /\ k \in Nat /\ n = k + 1 /\ n + 1 = k + 2 /\ \A j \in 1 .. k : t[j] = s[j]
      /\ t[k + 1].kind # "thunk" /\ t[k + 1].kind # "escape" /\ s[k + 1].kind # "thunk"
  BY <1>1, <1>2, <1>3, <1>4, <1>8
<1>10. ASSUME ~astray, NEW b \in 0 .. n, IsBase(t, b, n + 1)
       PROVE  SameBase(t, b, l) /\ inside' = InForce(t, b, l)
  <2>1. b \in 0 .. k /\ IsBase(t, b, k + 1)
    <3>1. b \in 0 .. k + 1 /\ IsBase(t, b, k + 2) /\ \A j \in 1 .. k : t[j] = t[j]
      BY <1>9, <1>10
    <3>. QED
      BY Zenon, <1>9, <3>1, BaseBelow
  <2>2. IsBase(s, b, n) /\ b \in 0 .. n - 1
    <3>1. k + 1 \in 1 .. k + 1
      BY <1>9
    <3>2. IsBase(s, b, k + 1)
      BY Zenon, <1>9, <2>1, <3>1, BaseKept
    <3>. QED
      BY <1>8, <1>9, <2>1, <3>2
  <2>3. IsBase(s, b, n + 1) /\ b \in 0 .. n
    <3>1. n \in 1 .. n + 1 /\ \A j \in n .. n : s[j].kind # "thunk"
      BY <1>3, <1>9
    <3>. QED
      BY Zenon, <1>3, <2>2, <3>1, BaseOn
  <2>4. SameBase(s, b, checkpoints) /\ inside = InForce(s, b, checkpoints)
    <3>1. Current(stack, status, checkpoints) = checkpoints
      BY <1>1, <1>2, <1>3 DEF Current, EscapeOnTop
    <3>. QED
      BY <1>1, <1>2, <1>10, <2>3, <3>1 DEF IInv, NowInRegion, InProgram
  <2>5. SameBase(s, b, l)
    BY <1>1, <1>5, <1>10, <2>2 DEF InRegion, OneRegion
  <2>6. inside' = InForce(s, b, l)
    BY <1>6, <1>7, <2>4, <2>5 DEF SameBase, InForce
  <2>7. InForce(t, b, l) = InForce(s, b, l) /\ (SameBase(s, b, l) => SameBase(t, b, l))
    BY Zenon, <1>9, <2>1, ListKept
  <2>. QED
    BY Zenon, <2>5, <2>6, <2>7
<1>11. WindTypeOK' /\ ExtentsInPlace'
  BY <1>2, <1>6, <1>7 DEF IInv, WindTypeOK, ExtentsInPlace
<1>12. SavedInPlace'
  <2>1. \A i \in 1 .. n : (i \in 1 .. Len(s) /\ t[i] = s[i]) \/ t[i].kind = "out"
    <3>1. \A i \in 1 .. n : i = n \/ i \in 1 .. n - 1
      BY <1>3
    <3>. QED
      BY <1>1, <1>4, <3>1
  <2>. QED
    BY <1>1, <1>2, <1>4, <2>1 DEF IInv, SavedInPlace
<1>13. ~EscapeOnTop(t)
  BY <1>4 DEF EscapeOnTop
<1>14. TopInPlace'
  <2>1. n + 1 # 1 /\ n + 1 - 1 = n
    BY <1>3
  <2>2. Below(t, Len(t) + 1) = l
    BY <1>4, <2>1 DEF Below
  <2>. QED
    BY <1>1, <1>7, <1>13, <2>2 DEF TopInPlace
<1>15. NowInRegion'
  <2>1. Current(t, status, l) = l
    BY <1>13 DEF Current
  <2>. QED
    BY <1>1, <1>2, <1>4, <1>7, <1>10, <2>1 DEF NowInRegion
<1>. QED
  BY <1>1, <1>2, <1>4, <1>11, <1>12, <1>14, <1>15 DEF IInv

(* A youngest extent is entered in what a list has in force.               *)
LEMMA ProperCons ==
  ASSUME NEW c \in [Extent -> Seq(Extent)], NEW m \in Nat, NEW l, Proper(c, m, l),
         NEW e \in Extent, e <= m, \A x \in Extents(l) : x < e, NEW r, r = <<e>> \o l
  PROVE  Proper([c EXCEPT ![e] = r], m, r)
<1>1. PICK d : d = [c EXCEPT ![e] = r]
  OBVIOUS
<1>2. l \in Seq(Extent) /\ Len(l) \in Nat
  BY DEF Proper
<1>3. PICK n \in Nat : n = Len(l)
  BY <1>2
<1>4. /\ r \in Seq(Extent) /\ Len(r) = n + 1 /\ r[1] = e
      /\ \A p \in 1 .. n : r[p + 1] = l[p]
  BY <1>2, <1>3
<1>5. d[e] = r /\ \A x \in Extent : x # e => d[x] = c[x]
  BY <1>1
<1>6. ASSUME NEW p \in 1 .. n
      PROVE  l[p] \in Extent /\ l[p] < e /\ l[p] # e /\ d[l[p]] = c[l[p]]
  <2>1. l[p] \in Extents(l)
    BY <1>2, <1>3, ExtentsOfList
  <2>2. l[p] \in Extent /\ l[p] < e
    BY <1>2, <1>3, <2>1, ExtentsOfList
  <2>3. l[p] # e
    BY <2>2, WindsAssumption DEF Extent
  <2>. QED
    BY <1>5, <2>2, <2>3
<1>7. \A p \in 1 .. n + 1 : p = 1 \/ (p - 1 \in 1 .. n /\ p = p - 1 + 1)
  OBVIOUS
<1>8. ASSUME NEW p \in 1 .. n + 1
      PROVE  /\ r[p] <= m /\ Len(d[r[p]]) = n + 1 - p + 1
             /\ \A q \in p .. n + 1 : d[r[p]][q - p + 1] = r[q]
  <2>1. CASE p = 1
    <3>1. \A q \in 1 .. n + 1 : q - 1 + 1 = q
      OBVIOUS
    <3>. QED
      BY <1>4, <1>5, <2>1, <3>1
  <2>2. CASE p # 1
    <3>1. PICK o \in 1 .. n : o = p - 1 /\ p = o + 1
      BY <1>7, <2>2
    <3>2. r[p] = l[o] /\ d[r[p]] = c[l[o]]
      BY <1>4, <1>6, <3>1
    <3>3. /\ l[o] <= m /\ Len(c[l[o]]) = n - o + 1
          /\ \A q \in o .. n : c[l[o]][q - o + 1] = l[q]
      BY <1>3 DEF Proper
    <3>4. ASSUME NEW q \in p .. n + 1
          PROVE  d[r[p]][q - p + 1] = r[q]
      <4>1. q - 1 \in o .. n /\ q - 1 - o + 1 = q - p + 1 /\ q - 1 \in 1 .. n /\ q - 1 + 1 = q
        BY <3>1
      <4>2. r[q] = l[q - 1]
        BY <1>4, <4>1
      <4>3. c[l[o]][q - 1 - o + 1] = l[q - 1]
        BY <3>3, <4>1
      <4>. QED
        BY <3>2, <4>1, <4>2, <4>3
    <3>5. n + 1 - p + 1 = n - o + 1
      BY <3>1
    <3>. QED
      BY <3>2, <3>3, <3>4, <3>5
  <2>. QED
    BY Zenon, <2>1, <2>2
<1>9. ASSUME NEW p \in 1 .. n + 1, NEW q \in 1 .. n + 1, p < q
      PROVE  r[q] < r[p]
  <2>1. PICK o \in 1 .. n : q = o + 1 /\ r[q] = l[o]
    <3>1. q - 1 \in 1 .. n /\ q - 1 + 1 = q
      BY <1>9
    <3>. QED
      BY <1>4, <3>1
  <2>2. CASE p = 1
    BY <1>4, <1>6, <2>1, <2>2
  <2>3. CASE p # 1
    <3>1. PICK i \in 1 .. n : p = i + 1 /\ r[p] = l[i]
      BY <1>4, <1>7, <2>3
    <3>2. i < o
      BY <1>9, <2>1, <3>1
    <3>. QED
      BY <1>3, <2>1, <3>1, <3>2 DEF Proper
  <2>. QED
    BY Zenon, <2>2, <2>3
<1>10. Proper(d, m, r)
  <2>1. \A p \in 1 .. Len(r) : r[p] <= m /\ Len(d[r[p]]) = Len(r) - p + 1
    BY SMTT(30), <1>4, <1>8
  <2>2. \A p \in 1 .. Len(r) : \A q \in p .. Len(r) : d[r[p]][q - p + 1] = r[q]
    BY ZenonT(30), <1>4, <1>8
  <2>3. \A p, q \in 1 .. Len(r) : p < q => r[q] < r[p]
    BY <1>4, <1>9
  <2>. QED
    BY <1>4, <2>1, <2>2, <2>3 DEF Proper
<1>. QED
  BY <1>1, <1>10

(* "in" returns, and the thunk of a dynamic-wind is called.                *)
LEMMA EnterKeeps ==
  ASSUME IInv, ReturnFromIn
  PROVE  IInv'
<1>1. PICK n, s, t, e, l, d : /\ n = Len(stack) /\ s = stack /\ t = stack'
                              /\ e = stack[n].id /\ l = stack[n].save /\ d = chain'
  OBVIOUS
<1>2. /\ InProgram /\ stack # <<>> /\ Innermost.kind = "in" /\ Turn("wind")
      /\ checkpoints' = <<Innermost.id>> \o checkpoints
      /\ inside' = inside \cup {Innermost.id}
      /\ chain' = [chain EXCEPT ![Innermost.id] = checkpoints']
      /\ UNCHANGED <<saved, made, status, astray>>
  BY DEF ReturnFromIn
<1>3. n \in 1 .. Len(stack) /\ Innermost = stack[n] /\ n \in Nat /\ checkpoints = l
  BY <1>1, <1>2, TopFacts
<1>4. PICK r : r = checkpoints'
  OBVIOUS
<1>5. r = <<e>> \o l /\ inside' = inside \cup {e} /\ d = [chain EXCEPT ![e] = r]
  BY <1>1, <1>2, <1>3, <1>4
<1>6. /\ StackInPlace(t, chain, made, ~astray) /\ Len(t) = n
      /\ \A j \in 1 .. n - 1 : t[j] = s[j]
      /\ t[n].kind = "wind" /\ t[n].id = e /\ t[n].save = l
  <2>1. Innermost.kind \in {"in", "wind"} /\ "wind" \in {"wind", "out"}
    BY <1>2
  <2>2. /\ StackInPlace(t, chain, made, ~astray) /\ Len(t) = n
        /\ \A j \in 1 .. n - 1 : t[j] = stack[j]
        /\ t[n].kind = "wind" /\ t[n].id = stack[n].id /\ t[n].save = stack[n].save
    BY <1>1, <1>2, <2>1, TurnInPlace
  <2>. QED
    BY <1>1, <2>2
<1>7. /\ stack[n] \in Call /\ ProperLists(stack[n], chain, made)
      /\ InOrder(stack, n, made) /\ chain[e] = <<>>
  BY <1>1, <1>2, <1>3, CallFacts DEF EnteredExtents
<1>8. /\ e \in Extent /\ e <= made /\ e \in Nat /\ made \in Nat
      /\ \A x \in Extents(l) : x < e /\ x # e
      /\ \A j \in 1 .. n - 1 : s[j].kind \in Numbered => s[j].id # e
  <2>1. /\ e \in 1 .. made /\ \A x \in Extents(l) : x < e
        /\ \A j \in 1 .. n - 1 : s[j].kind \in Numbered => s[j].id < e
    BY <1>1, <1>2, <1>3, <1>7 DEF InOrder, Numbered
  <2>2. made \in Nat /\ made <= MaxMade
    BY StackFacts
  <2>3. e \in Extent /\ e <= made /\ e \in Nat
    BY <2>1, <2>2, WindsAssumption DEF Extent
  <2>. QED
    BY <2>1, <2>2, <2>3
<1>9. /\ chain \in [Extent -> Seq(Extent)] /\ Proper(chain, made, l) /\ l \in Seq(Extent)
      /\ Extents(r) = Extents(l) \cup {e}
  <2>1. chain \in [Extent -> Seq(Extent)] /\ Proper(chain, made, l) /\ l \in Seq(Extent)
    <3>1. Proper(chain, made, l)
      BY <1>1, <1>7 DEF ProperLists
    <3>2. l \in Seq(Extent)
      BY <3>1 DEF Proper
    <3>3. chain \in [Extent -> Seq(Extent)]
      BY StateFacts
    <3>. QED
      BY <3>1, <3>2, <3>3
  <2>. QED
    BY <1>5, <2>1, ExtentsOfCons
<1>10. Proper(d, made, r) /\ r \in Seq(Extent)
  <2>1. Proper(d, made, r)
    BY <1>5, <1>8, <1>9, ProperCons
  <2>. QED
    BY <2>1 DEF Proper
<1>11. /\ d \in [Extent -> Seq(Extent)] /\ d[e] = r /\ r # <<>>
       /\ \A x \in Extent : chain[x] # <<>> => d[x] = chain[x]
       /\ \A x \in Extent : x # e => d[x] = chain[x]
  <2>1. d \in [Extent -> Seq(Extent)] /\ d[e] = r /\ \A x \in Extent : x # e => d[x] = chain[x]
    BY <1>5, <1>8, <1>9, <1>10
  <2>2. r # <<>>
    BY <1>5, <1>9
  <2>. QED
    BY <1>7, <2>1, <2>2
<1>12. StackInPlace(t, d, made, ~astray)
  <2>1. ASSUME NEW i \in 1 .. Len(t), t[i].kind = "in"
        PROVE  d[t[i].id] = <<>>
    <3>1. i \in 1 .. n - 1 /\ i \in 1 .. Len(stack)
      <4>1. i # n
        BY <1>6, <2>1
      <4>. QED
        BY <1>1, <1>3, <1>6, <4>1
    <3>2. t[i] = stack[i] /\ t[i].id # e
      BY <1>1, <1>6, <1>8, <2>1, <3>1 DEF Numbered
    <3>3. /\ chain[stack[i].id] = <<>> /\ stack[i].id \in 1 .. made
      BY <2>1, <3>1, <3>2, CallFacts DEF EnteredExtents, InOrder, Numbered
    <3>4. made <= MaxMade /\ made \in Nat
      BY StackFacts
    <3>5. stack[i].id \in Extent
      BY <3>3, <3>4, WindsAssumption DEF Extent
    <3>. QED
      BY <1>11, <3>2, <3>3, <3>5
  <2>2. made <= made /\ made \in Nat
    BY <1>8
  <2>3. \A x \in Extent : chain[x] # <<>> => d[x] = chain[x]
    BY <1>11
  <2>4. StackInPlace(t, chain, made, ~astray)
    BY <1>6
  <2>. QED
    BY <2>1, <2>2, <2>3, <2>4, GrownInPlace
<1>13. PICK k : k = n - 1
  OBVIOUS
<1>14. /\ k \in Nat /\ n = k + 1 /\ n + 1 = k + 2 /\ \A j \in 1 .. k : t[j] = s[j]
       /\ t[k + 1].kind # "thunk" /\ t[k + 1].kind # "escape" /\ s[k + 1].kind # "thunk"
  <2>1. k \in Nat /\ n = k + 1 /\ n + 1 = k + 2 /\ n - 1 = k
    BY <1>3, <1>13
  <2>2. t[n].kind = "wind" /\ s[n].kind = "in"
    BY <1>1, <1>2, <1>3, <1>6
  <2>. QED
    BY <1>6, <2>1, <2>2
<1>15. ASSUME ~astray, NEW b \in 0 .. n, IsBase(t, b, n + 1)
       PROVE  SameBase(t, b, r) /\ inside' = InForce(t, b, r)
  <2>1. b \in 0 .. k /\ IsBase(t, b, k + 1)
    <3>1. b \in 0 .. k + 1 /\ IsBase(t, b, k + 2) /\ \A j \in 1 .. k : t[j] = t[j]
      BY <1>14, <1>15
    <3>. QED
      BY Zenon, <1>14, <3>1, BaseBelow
  <2>2. IsBase(s, b, n) /\ b \in 0 .. n - 1
    <3>1. k + 1 \in 1 .. k + 1
      BY <1>14
    <3>2. IsBase(s, b, k + 1)
      BY Zenon, <1>14, <2>1, <3>1, BaseKept
    <3>. QED
      BY <1>13, <1>14, <2>1, <3>2
  <2>3. IsBase(s, b, n + 1) /\ b \in 0 .. n
    <3>1. n \in 1 .. n + 1 /\ \A j \in n .. n : s[j].kind # "thunk"
      BY <1>3, <1>14
    <3>. QED
      BY Zenon, <1>3, <2>2, <3>1, BaseOn
  <2>4. SameBase(s, b, l) /\ inside = InForce(s, b, l)
    <3>1. Current(stack, status, checkpoints) = checkpoints
      BY <1>1, <1>2, <1>3 DEF Current, EscapeOnTop
    <3>. QED
      BY <1>1, <1>2, <1>3, <1>15, <2>3, <3>1 DEF IInv, NowInRegion, InProgram
  <2>5. e \notin BaseInside(s, b)
    <3>1. CASE b = 0
      BY <3>1 DEF BaseInside
    <3>2. CASE b # 0
      <4>1. b \in 1 .. Len(stack)
        BY <1>1, <1>3, <2>2, <3>2
      <4>2. EnteredExtents(stack[b], chain)
        BY <4>1, CallFacts
      <4>. QED
        BY <1>1, <1>7, <3>2, <4>2 DEF BaseInside, EnteredExtents
    <3>. QED
      BY Zenon, <3>1, <3>2
  <2>6. SameBase(s, b, r) /\ inside' = InForce(s, b, r)
    <3>1. e \notin BaseList(s, b)
      BY <1>8, <2>4 DEF SameBase
    <3>. QED
      BY <1>5, <1>9, <2>4, <2>5, <3>1 DEF SameBase, InForce
  <2>7. InForce(t, b, r) = InForce(s, b, r) /\ (SameBase(s, b, r) => SameBase(t, b, r))
    BY Zenon, <1>14, <2>1, ListKept
  <2>. QED
    BY Zenon, <2>6, <2>7
<1>16. WindTypeOK'
  BY <1>1, <1>2, <1>4, <1>5, <1>8, <1>10, <1>11 DEF IInv, WindTypeOK
<1>17. ExtentsInPlace'
  <2>1. \A x \in inside' : d[x] # <<>>
    BY <1>5, <1>11 DEF IInv, WindTypeOK, ExtentsInPlace
  <2>2. \A x \in Extent : x > made => x # e
    BY <1>8, WindsAssumption DEF Extent
  <2>. QED
    BY <1>1, <1>2, <1>4, <1>10, <1>11, <2>1, <2>2 DEF IInv, ExtentsInPlace
<1>18. SavedInPlace'
  <2>1. \A i \in 1 .. n : (i \in 1 .. Len(s) /\ t[i] = s[i]) \/ t[i].kind = "wind"
    <3>1. \A i \in 1 .. n : i = n \/ i \in 1 .. n - 1
      BY <1>3
    <3>. QED
      BY <1>1, <1>6, <3>1
  <2>2. ASSUME NEW k2 \in saved
        PROVE  k2.id <= made /\ Proper(d, made, k2.save)
    <3>1. k2.id <= made /\ Proper(chain, made, k2.save)
      BY StateFacts
    <3>2. made <= made
      BY <1>8
    <3>. QED
      BY <1>8, <1>11, <3>1, <3>2, ProperKept
  <2>. QED
    BY ZenonT(30), <1>1, <1>2, <1>6, <2>1, <2>2 DEF IInv, SavedInPlace
<1>19. ~EscapeOnTop(t)
  BY <1>6 DEF EscapeOnTop
<1>20. TopInPlace'
  <2>1. n + 1 # 1 /\ n + 1 - 1 = n
    BY <1>3
  <2>2. Below(t, Len(t) + 1) = r
    BY <1>5, <1>6, <2>1 DEF Below
  <2>. QED
    BY <1>1, <1>4, <1>19, <2>2 DEF TopInPlace
<1>21. NowInRegion'
  <2>1. Current(t, status, r) = r
    BY <1>19 DEF Current
  <2>. QED
    BY <1>1, <1>2, <1>4, <1>6, <1>15, <2>1 DEF NowInRegion
<1>. QED
  BY <1>1, <1>2, <1>12, <1>16, <1>17, <1>18, <1>20, <1>21 DEF IInv

(* What DynamicWind, SchemeCallCC, Guard and Eval have in common.          *)
LEMMA AnyCallKeeps ==
  ASSUME IInv, DynamicWind \/ SchemeCallCC \/ Guard \/ Eval
  PROVE  IInv'
<1>1. InProgram /\ UNCHANGED <<checkpoints, status, inside, chain, astray>>
  BY DEF DynamicWind, SchemeCallCC, Guard, Eval
<1>2. PICK q \in {"in", "callcc", "guard", "eval"}, e \in 0 .. MaxMade :
        /\ stack' = Append(stack, WindCall(q, e)) /\ made' \in made .. MaxMade
        /\ q # "eval" => e = made + 1 /\ made' = made + 1
        /\ \/ saved' = saved
           \/ q = "callcc" /\ saved' = saved \cup {[id |-> e, save |-> checkpoints]}
  <2>1. /\ made \in Nat /\ MaxMade \in Nat
        /\ made < MaxMade => made + 1 \in 0 .. MaxMade /\ made + 1 \in made .. MaxMade
        /\ 0 \in 0 .. MaxMade /\ made \in made .. MaxMade
    BY StackFacts, WindsAssumption
  <2>2. CASE DynamicWind
    BY <2>1, <2>2 DEF DynamicWind, Make, Begin
  <2>3. CASE SchemeCallCC
    BY <2>1, <2>3 DEF SchemeCallCC, Make, Begin
  <2>4. CASE Guard
    BY <2>1, <2>4 DEF Guard, Make, Begin
  <2>5. CASE Eval
    BY <2>1, <2>5 DEF Eval, Begin
  <2>. QED
    BY <2>2, <2>3, <2>4, <2>5
<1>3. PICK f : f = WindCall(q, e)
  OBVIOUS
<1>4. /\ f.kind = q /\ f.id = e /\ f.save = checkpoints /\ f.here = <<>>
      /\ f.raised = {} /\ f.inside = {}
  BY <1>3 DEF WindCall
<1>5. f \in Call
  BY <1>3, StateFacts DEF WindCall, Call, Kinds
<1>. QED
  BY <1>1, <1>2, <1>3, <1>4, <1>5, CallKeeps

(* Nothing has been called yet.                                            *)
LEMMA WindInitHolds == WindInit => IInv
<1>. SUFFICES ASSUME WindInit PROVE IInv
  OBVIOUS
<1>1. /\ stack = <<>> /\ Len(stack) = 0 /\ checkpoints = <<>> /\ saved = {} /\ made = 0
      /\ status = "run" /\ inside = {} /\ chain = [e \in Extent |-> <<>>] /\ astray = FALSE
  BY DEF WindInit
<1>2. WindTypeOK
  <2>1. chain \in [Extent -> Seq(Extent)]
    BY <1>1
  <2>2. made \in 0 .. MaxMade
    BY <1>1, WindsAssumption
  <2>3. /\ checkpoints \in Seq(Extent) /\ saved \subseteq [id : Extent, save : Seq(Extent)]
        /\ status \in {"run", "error", "over"} /\ inside \subseteq Extent
    BY <1>1
  <2>4. astray \in BOOLEAN
    BY Zenon, <1>1
  <2>. QED
    BY <2>1, <2>2, <2>3, <2>4 DEF WindTypeOK
<1>3. StackInPlace(stack, chain, made, ~astray)
  BY <1>1 DEF StackInPlace
<1>4. ExtentsInPlace /\ SavedInPlace
  BY <1>1 DEF ExtentsInPlace, SavedInPlace, Proper
<1>5. TopInPlace
  BY <1>1 DEF TopInPlace, Below
<1>6. NowInRegion
  <2>1. Extents(<<>>) = {}
    BY DEF Extents
  <2>2. Current(stack, status, checkpoints) = <<>>
    BY <1>1 DEF Current, EscapeOnTop
  <2>3. \A b \in 0 .. 0 : b = 0
    OBVIOUS
  <2>. QED
    BY <1>1, <2>1, <2>2, <2>3 DEF NowInRegion, SameBase, InForce, BaseList, BaseInside
<1>. QED
  BY <1>2, <1>3, <1>4, <1>5, <1>6 DEF IInv

(* Calls, escapes, errors and do-wind keep lists and extents in place: the *)
(* calls on the stack have the lists that were in force when they were     *)
(* made, and since the innermost thunk of a do-wind was called the extents *)
(* entered and not left are those put on the list.                         *)
THEOREM WindInvariant == WindSpec => []IInv
<1>1. WindInit => IInv
  BY WindInitHolds
<1>2. IInv /\ [WindNext]_windVars => IInv'
  <2>. SUFFICES ASSUME IInv, [WindNext]_windVars PROVE IInv'
    OBVIOUS
  <2>1. CASE DynamicWind \/ SchemeCallCC \/ Guard \/ Eval
    BY <2>1, AnyCallKeeps
  <2>2. CASE CallEscape
    BY <2>2, CallEscapeKeeps
  <2>3. CASE ReturnFromIn
    BY <2>3, EnterKeeps
  <2>4. CASE ReturnFromThunk
    BY <2>4, LeaveKeeps
  <2>5. CASE ReturnFromCall
    BY <2>5, ReturnKeeps
  <2>6. CASE ReturnFromGuard
    BY <2>6, GuardKeeps
  <2>7. CASE CallThunk
    BY <2>7, ThunkKeeps
  <2>8. CASE WoundThunkReturns
    BY <2>8, WoundKeeps
  <2>9. CASE Jump
    BY <2>9, JumpKeeps
  <2>10. CASE RaiseError
    BY <2>10, RaiseKeeps
  <2>11. CASE Handle
    BY <2>11, HandleKeeps
  <2>12. CASE UNCHANGED windVars
    BY <2>12 DEF windVars, IInv, WindTypeOK, ExtentsInPlace, SavedInPlace, TopInPlace,
                 NowInRegion
  <2>. QED
    BY <2>1, <2>2, <2>3, <2>4, <2>5, <2>6, <2>7, <2>8, <2>9, <2>10, <2>11, <2>12
       DEF WindNext
<1>. QED
  BY <1>1, <1>2, PTL DEF WindSpec

(* The list is that of the dynamic-winds on the stack.                     *)
LEMMA ListIsOnStack ==
  ASSUME IInv, status = "run",
         \A j \in 1 .. Len(stack) : stack[j].kind \notin {"thunk", "escape"}
  PROVE  WindsOnStack(checkpoints)
<1>1. PICK W : W = Calls({"wind"})
  OBVIOUS
<1>2. W = {k \in 1 .. Len(stack) : stack[k].kind = "wind"}
  BY <1>1, StackFacts DEF Calls
<1>3. Extents(checkpoints) = {stack[j].id : j \in W}
  BY <1>2, WindsListed
<1>4. ASSUME NEW p \in DOMAIN checkpoints, NEW q \in DOMAIN checkpoints,
             NEW i \in W, NEW j \in W, p < q, checkpoints[p] = stack[i].id,
             checkpoints[q] = stack[j].id
      PROVE  i > j
  <2>1. /\ i \in 1 .. Len(stack) /\ j \in 1 .. Len(stack) /\ Len(stack) \in Nat
        /\ stack[i].kind = "wind" /\ stack[j].kind = "wind"
    BY <1>2, StackFacts
  <2>2. stack[i].id \in 1 .. made /\ stack[j].id \in 1 .. made /\ made \in Nat
    BY <2>1, CallFacts, StackFacts DEF InOrder, Numbered
  <2>3. stack[j].id < stack[i].id
    <3>1. p \in 1 .. Len(checkpoints) /\ q \in 1 .. Len(checkpoints)
      BY StateFacts
    <3>2. checkpoints[q] < checkpoints[p]
      BY <1>4, <3>1, StateFacts DEF Proper
    <3>. QED
      BY <1>4, <3>2
  <2>4. CASE i < j
    <3>1. i \in 1 .. j - 1
      BY <2>1, <2>4
    <3>2. stack[i].id < stack[j].id
      BY <2>1, <3>1, CallFacts DEF InOrder, Numbered
    <3>. QED
      BY <2>2, <2>3, <3>2
  <2>5. CASE i = j
    BY <2>2, <2>3, <2>5
  <2>. QED
    BY <2>1, <2>4, <2>5
<1>. QED
  BY <1>1, <1>3, <1>4 DEF WindsOnStack

(* WindsNest: between two escapes the list of checkpoints is the           *)
(* dynamic-winds on the stack, which are the extents entered and not left, *)
(* and an escape leaves the innermost extent and enters one from the extent *)
(* that it lies in.                                                        *)
THEOREM WindsNestHolds == WindSpec => []WindsNest
<1>1. IInv => WindsNest
  <2>. SUFFICES ASSUME IInv, ~astray, Calls({"thunk"}) = {}, status # "over"
                PROVE  /\ status = "run" /\ Calls({"escape"}) = {} =>
                            WindsOnStack(checkpoints) /\ inside = Extents(checkpoints)
                       /\ Winding /\ Innermost.here # Innermost.save =>
                            LET e == NextExtent(Innermost)
                                c == Extents(chain[e])
                            IN  IF Entering(Innermost)
                                  THEN e \notin inside /\ inside \cup {e} = c
                                  ELSE inside = c
    BY DEF WindsNest
  <2>1. \A j \in 1 .. Len(stack) : stack[j].kind # "thunk"
    BY StackFacts DEF Calls
  <2>2. inside = Extents(Current(stack, status, checkpoints))
    <3>1. 0 \in 0 .. Len(stack) /\ IsBase(stack, 0, Len(stack) + 1)
      <4>1. 0 \in 0 .. Len(stack) + 1 - 1 /\ 0 + 1 .. Len(stack) + 1 - 1 = 1 .. Len(stack)
            /\ 0 \in 0 .. Len(stack) /\ ~(0 > 0)
        BY StackFacts
      <4>. QED
        BY <2>1, <4>1 DEF IsBase
    <3>2. inside = InForce(stack, 0, Current(stack, status, checkpoints))
      BY <3>1 DEF IInv, NowInRegion
    <3>. QED
      BY <3>2 DEF InForce, BaseList, BaseInside
  <2>3. ASSUME status = "run", Calls({"escape"}) = {}
        PROVE  WindsOnStack(checkpoints) /\ inside = Extents(checkpoints)
    <3>1. \A j \in 1 .. Len(stack) : stack[j].kind \notin {"thunk", "escape"}
      BY <2>1, <2>3, StackFacts DEF Calls
    <3>2. ~EscapeOnTop(stack)
      BY <3>1, StackFacts DEF EscapeOnTop
    <3>3. Current(stack, status, checkpoints) = checkpoints
      BY <3>2 DEF Current
    <3>. QED
      BY <2>2, <2>3, <3>1, <3>3, ListIsOnStack
  <2>4. ASSUME Winding, Innermost.here # Innermost.save, NEW e, e = NextExtent(Innermost)
        PROVE  IF Entering(Innermost)
                 THEN e \notin inside /\ inside \cup {e} = Extents(chain[e])
                 ELSE inside = Extents(chain[e])
    <3>1. PICK f, n : f = Innermost /\ n = Len(stack)
      OBVIOUS
    <3>2. /\ status = "run" /\ stack # <<>> /\ f.kind = "escape" /\ f.here # f.save
      BY <2>4, <3>1 DEF Winding
    <3>3. n \in 1 .. Len(stack) /\ f = stack[n]
      BY <3>1, <3>2, TopFacts
    <3>4. /\ Proper(chain, made, f.save) /\ Proper(chain, made, f.here)
          /\ chain \in [Extent -> Seq(Extent)]
      BY <3>3, CallFacts, StateFacts DEF ProperLists
    <3>5. inside = Extents(f.here)
      <4>1. Current(stack, status, checkpoints) = f.here
        BY <3>1, <3>2, <3>3 DEF Current, EscapeOnTop
      <4>. QED
        BY <2>2, <4>1
    <3>6. CASE Entering(f)
      <4>1. /\ NextExtent(f) \notin Extents(f.here)
            /\ Extents(Reached(f)) = Extents(f.here) \cup {NextExtent(f)}
            /\ Extents(chain[NextExtent(f)]) = Extents(Reached(f))
        BY <3>4, <3>6, EnterStep
      <4>. QED
        BY <2>4, <3>1, <3>5, <3>6, <4>1
    <3>7. CASE ~Entering(f)
      <4>1. Extents(chain[NextExtent(f)]) = Extents(f.here)
        BY <3>2, <3>4, <3>7, LeaveStep
      <4>. QED
        BY <2>4, <3>1, <3>5, <3>7, <4>1
    <3>. QED
      BY Zenon, <3>6, <3>7
  <2>. QED
    BY <2>3, <2>4
<1>. QED
  BY <1>1, WindInvariant, PTL
=============================================================================
