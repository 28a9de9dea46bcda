---------------------------- MODULE ObjectStore ----------------------------
(***************************************************************************)
(* What the allocator of objects promises, whichever build it comes from:  *)
(* an object gets units of memory that no other object has, all in one     *)
(* page, and keeps them until a collection finds it dead; then it is       *)
(* finalized, once.                                                        *)
(***************************************************************************)
EXTENDS Integers, Sequences, SequencesExt, FiniteSets

CONSTANTS
  Sizes, \* sizes of objects, in units
  Span,  \* units from the start of a page to that of the next
  Top    \* the number of units there may be

VARIABLES
  objs, \* the objects: where each is and its size
  dead  \* those finalized since the last allocation, in the order of that

Units(b) == b.at .. b.at + b.size - 1

InOnePage(b) == b.at \div Span = (b.at + b.size - 1) \div Span

Init == objs = {} /\ dead = <<>>

Allocate ==
  /\ \E b \in [at : 0 .. Top, size : Sizes] :
       /\ InOnePage(b) /\ \A o \in objs : Units(b) \cap Units(o) = {}
       /\ objs' = objs \cup {b}
  /\ dead' = <<>>

\* Finalized are those that do not live on, and each of them once.
Collect ==
  /\ objs' \subseteq objs
  /\ ToSet(dead') = objs \ objs' /\ Len(dead') = Cardinality(objs \ objs')

Next == Allocate \/ Collect

Spec == Init /\ [][Next]_<<objs, dead>>
=============================================================================
