--------------------------- MODULE FreeListPages ---------------------------
(***************************************************************************)
(* Pages of the heap in the build without bitmaps (lib/gc.c): the free     *)
(* blocks of all pages are one ring, sorted by address, through the        *)
(* header of the heap itself and through the first unit of every page,     *)
(* which have size 0 and are never given out.  A block that is freed is    *)
(* joined with the free blocks it touches.                                 *)
(***************************************************************************)
EXTENDS Integers, Sequences, SequencesExt, FiniteSets, FiniteSetsExt, TLC

CONSTANTS
  PAGE_UNITS, \* units of a page
  Span,       \* see ObjectStore; the units between two pages belong to others
  Sizes,      \* sizes of objects in units, that of the header included
  MaxPages,   \* pages that pic_malloc has memory for
  Bases       \* the addresses where the header of the heap may be

VARIABLES
  objs, dead, \* see ObjectStore
  base,       \* &heap->base
  ring,       \* the free blocks, by address, and freep
  pages,      \* the addresses of the pages, in the order they were made
  stage,      \* where pic_obj_alloc_unsafe is
  need        \* the size it was called with

vars == <<objs, dead, base, ring, pages, stage, need>>

End(page) == page + PAGE_UNITS

Object(at) == CHOOSE o \in objs : o.at = at

-----------------------------------------------------------------------------
\* The block heap_alloc takes n units from, with the one before it in the ring.
Fit(n) ==
  LET from[prevp \in DOMAIN ring.free] ==
        LET p == ring.free[prevp].ptr
        IN  IF ring.free[p].size >= n THEN {<<prevp, p>>}
            ELSE IF p = ring.freep THEN {}
            ELSE from[p]
  IN  from[ring.freep]

heap_alloc(n) ==
  \E fit \in Fit(n) :
    LET prevp == fit[1]
        p     == fit[2]
        rest  == ring.free[p].size - n
    IN  /\ objs' = objs \cup {[at |-> p + rest, size |-> n]}
        /\ ring' = [freep |-> prevp,
                    free  |-> IF rest > 0 THEN [ring.free EXCEPT ![p].size = rest]
                              ELSE [q \in DOMAIN ring.free \ {p} |->
                                      IF q = prevp THEN [ring.free[q] EXCEPT !.ptr = ring.free[p].ptr]
                                      ELSE ring.free[q]]]

\* The free block after which one at bp belongs.
PlaceOf(r, bp) ==
  LET from[p \in DOMAIN r.free] ==
        LET next == r.free[p].ptr
            between == IF p < next THEN p < bp /\ bp < next ELSE bp > p \/ bp < next
        IN  IF between THEN p ELSE from[next]
  IN  from[r.freep]

\* Mutant: blocks of size 0 are joined as well.
JoinedWithBase(at, size, next) == at + size = next.at

\* Don't melt base header.
Joined(at, size, next) == at + size = next.at /\ next.size > 0

heap_free(r, b) ==
  LET p     == PlaceOf(r, b.at)
      nextp == r.free[p].ptr
      next  == [at |-> nextp, size |-> r.free[nextp].size]
      up    == Joined(b.at, b.size, next)
      block == IF up THEN [ptr |-> r.free[nextp].ptr, size |-> b.size + next.size]
               ELSE [ptr |-> nextp, size |-> b.size]
      down  == Joined(p, r.free[p].size, [at |-> b.at, size |-> block.size])
      lower == IF down THEN [ptr |-> block.ptr, size |-> r.free[p].size + block.size]
               ELSE [r.free[p] EXCEPT !.ptr = b.at]
      kept  == (DOMAIN r.free \cup {b.at})
               \ ((IF up THEN {nextp} ELSE {}) \cup (IF down THEN {b.at} ELSE {}))
  IN  [freep |-> p,
       free  |-> [q \in kept |-> CASE q = p -> lower [] q = b.at -> block [] OTHER -> r.free[q]]]

WithPage(r, page) ==
  heap_free(heap_free(r, [at |-> page, size |-> 0]), [at |-> page + 1, size |-> PAGE_UNITS - 1])

\* The objects of a page, found between its free blocks.
Walk(r, page) ==
  LET from[bp \in DOMAIN r.free] ==
        LET after[p \in Int] ==
              IF p = r.free[bp].ptr THEN from[p]
              ELSE IF p < page \/ End(page) <= p THEN <<>>
              ELSE <<Object(p)>> \o after[p + Object(p).size]
        IN  after[bp + (IF r.free[bp].size = 0 THEN 1 ELSE r.free[bp].size)]
  IN  from[page]

\* s.marks are the objects whose gc_mark is set.
gc_sweep_page(s, page) ==
  LET found == Walk(s.ring, page)
      lost  == SelectSeq(found, LAMBDA o : o \notin s.marks)
  IN  [ring  |-> FoldLeft(heap_free, s.ring, lost),
       dead  |-> s.dead \o lost,
       marks |-> s.marks \ ToSet(found),
       alive |-> s.alive + FoldSet(LAMBDA o, n : n + o.size, 0, ToSet(found) \cap s.marks)]

-----------------------------------------------------------------------------
\* pic_heap_open
Init ==
  /\ objs = {} /\ dead = <<>> /\ pages = <<>> /\ stage = "run" /\ need = 0
  /\ base \in Bases /\ ring = [freep |-> base, free |-> base :> [ptr |-> base, size |-> 0]]

Request(n) ==
  /\ stage = "run" /\ stage' = "first" /\ need' = n
  /\ UNCHANGED <<objs, dead, base, ring, pages>>

Allocate ==
  /\ stage \in {"first", "second", "last"}
  /\ heap_alloc(need) /\ dead' = <<>>
  /\ stage' = "run" /\ need' = 0
  /\ UNCHANGED <<base, pages>>

\* heap_morecore, wherever pic_malloc finds the memory for a page.
heap_morecore(r) ==
  \E page \in {k * Span : k \in 0 .. MaxPages - 1} \ ToSet(pages) :
    ring' = WithPage(r, page) /\ pages' = Append(pages, page)

\* pic_gc, when heap_alloc has failed; always in a build with GC_STRESS.
Collect(live) ==
  /\ stage = "first"
  /\ LET swept == FoldRight(LAMBDA page, s : gc_sweep_page(s, page), pages,
                            [ring |-> ring, dead |-> <<>>, marks |-> live, alive |-> 0])
         nearlyFull == (Len(pages) * PAGE_UNITS * 77) \div 100 <= swept.alive
     IN  /\ dead' = swept.dead
         /\ CASE ~nearlyFull           -> ring' = swept.ring /\ stage' = "second" /\ UNCHANGED pages
              [] Len(pages) < MaxPages -> heap_morecore(swept.ring) /\ stage' = "second"
              [] OTHER                 -> ring' = swept.ring /\ stage' = "panic" /\ UNCHANGED pages
  /\ objs' = live
  /\ UNCHANGED <<base, need>>

MoreCore ==
  /\ stage = "second" /\ Fit(need) = {}
  /\ heap_morecore(ring)
  /\ stage' = "last"
  /\ UNCHANGED <<objs, dead, base, need>>

\* "memory exhausted" and "GC memory exhausted"
Panic ==
  /\ Fit(need) = {}
  /\ \/ stage = "second" /\ Len(pages) = MaxPages
     \/ stage = "last"
  /\ stage' = "panic" /\ UNCHANGED <<objs, dead, base, ring, pages, need>>

Next == \/ \E n \in Sizes : Request(n)
        \/ \E live \in SUBSET objs : Collect(live)
        \/ Allocate \/ MoreCore \/ Panic

Spec == Init /\ [][Next]_vars

-----------------------------------------------------------------------------
(* The pages implement the store: no unit is given to two objects, nothing *)
(* but the dead is finalized, and each of those once (heap_alloc,          *)
(* gc_sweep_page).                                                         *)
Store == INSTANCE ObjectStore WITH Top <- (MaxPages + 1) * Span
ImplementsStore == Store!Spec

(* The units of a page are its first one, its objects' and its free        *)
(* blocks', and no unit is two of these; the ring has every free block, in *)
(* the order of their addresses (heap_alloc, heap_free).                   *)
MemoryWhole ==
  LET blocks == {[at |-> p, size |-> Max({1, ring.free[p].size})] : p \in DOMAIN ring.free}
      all    == blocks \cup objs
  IN  /\ \A b, c \in all : b # c => Store!Units(b) \cap Store!Units(c) = {}
      /\ UNION {Store!Units(b) : b \in all} =
           {base} \cup UNION {page .. End(page) - 1 : page \in ToSet(pages)}
      /\ \A p \in DOMAIN ring.free :
           LET above == {q \in DOMAIN ring.free : q > p}
           IN  ring.free[p].ptr = IF above = {} THEN Min(DOMAIN ring.free) ELSE Min(above)
=============================================================================
