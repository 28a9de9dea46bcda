------------------------------- MODULE MCHeap -------------------------------
(***************************************************************************)
(* For TLC: the collector on heaps with ephemeron tables, and on heaps     *)
(* with symbols and errors; and, apart from it, the pages that either      *)
(* build of the allocator gets its objects from.                           *)
(***************************************************************************)
EXTENDS Collector, BitmapPages, TLC

CONSTANT Bases

VARIABLES part, base, ring

F == INSTANCE FreeListPages

PartInit ==
  /\ Init /\ PagesInit /\ F!Init
  /\ part \in {"ephemerons", "names", "bitmap pages", "free list pages"}
  /\ part # "free list pages" => base = CHOOSE b \in Bases : TRUE

PartNext ==
  /\ UNCHANGED part
  /\ \/ /\ part = "ephemerons" /\ Next
        /\ op' \in {"none", "weak", "close"} /\ Len(arena') <= 1
        /\ UNCHANGED <<pagesVars, base, ring>>
     \/ /\ part = "names" /\ Next /\ op' # "weak"
        /\ UNCHANGED <<pagesVars, base, ring>>
     \/ part = "bitmap pages" /\ PagesNext /\ UNCHANGED <<vars, base, ring>>
     \/ part = "free list pages" /\ F!Next /\ UNCHANGED vars

PartSpec == PartInit /\ [][PartNext]_<<vars, part, pagesVars, base, ring>>

(* Either build: see BitmapPages and FreeListPages.  (ImplementsStore, of   *)
(* BitmapPages, is a promise for either build as it stands.)               *)
MemoryWhole == IF part = "free list pages" THEN F!MemoryWhole ELSE BitsAreUnits

Symmetric == Permutations(Obj)
=============================================================================
