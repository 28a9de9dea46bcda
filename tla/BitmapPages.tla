---------------------------- MODULE BitmapPages ----------------------------
(***************************************************************************)
(* Pages of the heap in the bitmap build (lib/gc.c, PIC_BITMAP_GC): a page *)
(* has a bit for every unit, which is set for the units of its objects;    *)
(* the bits stand in words and an object may lie across two of them.  A    *)
(* collection saves the bitmap in the shadow, clears it, marks the live    *)
(* objects in it, and finalizes what only the shadow has.                  *)
(***************************************************************************)
EXTENDS Integers, Sequences, FiniteSets, FiniteSetsExt

CONSTANTS
  UNIT_SIZE,  \* bits of a word
  PAGE_UNITS, \* units of a page
  Span,       \* see ObjectStore
  Sizes,      \* sizes of objects in units, that of the header included
  MaxPages    \* pages that PIC_MEMALIGN has memory for

\* heap_morecore asserts that a page has two units; objects are a few words
\* and never larger than a page.
ASSUME BitmapAssumption ==
  /\ UNIT_SIZE \in Nat \ {0} /\ MaxPages \in Nat
  /\ PAGE_UNITS \in Nat /\ 2 <= PAGE_UNITS
  /\ Span \in Nat /\ PAGE_UNITS <= Span
  /\ Sizes \subseteq 1 .. PAGE_UNITS

VARIABLES
  objs, dead, \* see ObjectStore
  pages,      \* the pages, in the order they were made
  stage,      \* where pic_obj_alloc_unsafe is
  need        \* the size it was called with

pagesVars == <<objs, dead, pages, stage, need>>

Words == 0 .. (PAGE_UNITS - 1) \div UNIT_SIZE

NewPage == [freep |-> 0, bitmap |-> [w \in Words |-> {}]]

\* The bit of unit i.
HasBit(bitmap, i) == i % UNIT_SIZE \in bitmap[i \div UNIT_SIZE]

\* A round of the loop through the units of an object: as many of those left
\* as have their bits in the word of the first.
Chunk(s) ==
  LET bit  == s.index % UNIT_SIZE
      some == IF s.size <= UNIT_SIZE - bit THEN s.size ELSE UNIT_SIZE - bit
  IN  IF s.size = 0 THEN s
      ELSE [index  |-> s.index + some, size |-> s.size - some,
            chunks |-> s.chunks \cup {[word |-> s.index \div UNIT_SIZE,
                                      bits |-> bit .. bit + some - 1]}]

\* The parts of the words that n units from index on have their bits in.
Chunks(index, n) ==
  LET round[k \in 0 .. n] ==
        IF k = 0 THEN [index |-> index, size |-> n, chunks |-> {}] ELSE Chunk(round[k - 1])
  IN  round[n].chunks

mark_at(bitmap, index, n) ==
  [w \in Words |-> bitmap[w] \cup UNION {c.bits : c \in {d \in Chunks(index, n) : d.word = w}}]

\* Mutant: only the first word is tested.
IsMarkedInWord(bitmap, index, n) ==
  \E c \in Chunks(index, n) : c.word = index \div UNIT_SIZE /\ bitmap[c.word] \cap c.bits # {}

is_marked_at(bitmap, index, n) ==
  \E c \in Chunks(index, n) : bitmap[c.word] \cap c.bits # {}

PageOf(o)  == o.at \div Span
IndexOf(o) == o.at % Span

\* The object whose header is at unit i of page p.
ObjectAt(p, i) == CHOOSE o \in objs : o.at = p * Span + i

-----------------------------------------------------------------------------
\* Where heap_alloc may place n units in page p; it looks no further back than
\* freep.
Places(p, n) ==
  {i \in pages[p].freep .. PAGE_UNITS - n - 1 : ~is_marked_at(pages[p].bitmap, i, n)}

CanPlace(n) == \E p \in DOMAIN pages : Places(p, n) # {}

\* The newest page that has a place, and the first place there.
heap_alloc(n) ==
  LET p == Max({q \in DOMAIN pages : Places(q, n) # {}})
      i == Min(Places(p, n))
  IN  /\ pages' = [pages EXCEPT ![p] = [freep |-> i + n, bitmap |-> mark_at(@.bitmap, i, n)]]
      /\ objs' = objs \cup {[at |-> p * Span + i, size |-> n]}

\* gc_init; the shadow, which has the bits from before, is the page itself.
ClearBits(page) == [freep |-> 0, bitmap |-> [w \in DOMAIN page.bitmap |-> {}]]

\* gc_mark of the objects that live on, in any order.
MarkAll(page, os) ==
  [freep  |-> page.freep,
   bitmap |-> [w \in Words |->
                 page.bitmap[w]
                   \cup UNION {mark_at(page.bitmap, IndexOf(o), o.size)[w] : o \in os}]]

\* One unit of gc_sweep_page, which finds what only the shadow has by its first
\* unit; then the page made before.
SweepUnit(marked, s) ==
  LET o == ObjectAt(s.page, s.index)
  IN  IF s.page = 0 THEN s
      ELSE IF s.index >= PAGE_UNITS THEN [page |-> s.page - 1, index |-> 0, dead |-> s.dead]
      ELSE IF HasBit(pages[s.page].bitmap, s.index) /\ ~HasBit(marked[s.page].bitmap, s.index)
      THEN [page |-> s.page, index |-> s.index + o.size, dead |-> Append(s.dead, o)]
      ELSE [s EXCEPT !.index = @ + 1]

\* What the sweep of all pages finalizes, in the order of that.
Finalized(marked) ==
  LET n == Len(pages) * (PAGE_UNITS + 1)
      swept[k \in 0 .. n] ==
        IF k = 0 THEN [page |-> Len(pages), index |-> 0, dead |-> <<>>]
        ELSE SweepUnit(marked, swept[k - 1])
  IN  swept[n].dead

\* The bits that are set in the bitmaps of all pages.
InUse(ps) == Cardinality(UNION {UNION {{<<p, w, b>> : b \in ps[p].bitmap[w]} : w \in Words} :
                                 p \in DOMAIN ps})

\* The sweep asks for one more page when those it has are nearly full.
NearlyFull(ps) == (Len(ps) * PAGE_UNITS * 77) \div 100 <= InUse(ps)

-----------------------------------------------------------------------------
PagesInit == objs = {} /\ dead = <<>> /\ pages = <<>> /\ stage = "run" /\ need = 0

RequestUnits(n) ==
  /\ stage = "run" /\ stage' = "first" /\ need' = n
  /\ UNCHANGED <<objs, dead, pages>>

AllocateUnits ==
  /\ stage \in {"first", "second", "last"} /\ CanPlace(need)
  /\ heap_alloc(need) /\ dead' = <<>>
  /\ stage' = "run" /\ need' = 0

\* pic_gc, when heap_alloc has failed; always in a build with GC_STRESS.
CollectPages(live) ==
  /\ stage = "first"
  /\ LET marked == [p \in DOMAIN pages |->
                      MarkAll(ClearBits(pages[p]), {o \in live : PageOf(o) = p})]
     IN  /\ dead' = Finalized(marked)
         /\ CASE ~NearlyFull(marked)    -> pages' = marked /\ stage' = "second"
              [] Len(pages) < MaxPages  -> pages' = Append(marked, NewPage) /\ stage' = "second"
              [] OTHER                  -> pages' = marked /\ stage' = "panic"
  /\ objs' = live
  /\ UNCHANGED need

\* heap_morecore
MoreCore ==
  /\ stage = "second" /\ ~CanPlace(need)
  /\ Len(pages) < MaxPages /\ pages' = Append(pages, NewPage)
  /\ stage' = "last"
  /\ UNCHANGED <<objs, dead, need>>

\* "memory exhausted" and "GC memory exhausted"
PagesPanic ==
  /\ \/ stage = "second" /\ ~CanPlace(need) /\ Len(pages) = MaxPages
     \/ stage = "last" /\ ~CanPlace(need)
  /\ stage' = "panic" /\ UNCHANGED <<objs, dead, pages, need>>

PagesNext ==
  \/ \E n \in Sizes : RequestUnits(n)
  \/ \E live \in SUBSET objs : CollectPages(live)
  \/ AllocateUnits \/ MoreCore \/ PagesPanic

PagesSpec == PagesInit /\ [][PagesNext]_pagesVars

-----------------------------------------------------------------------------
(* The pages implement the store: no unit is given to two objects, nothing *)
(* but the dead is finalized, and each of those once (heap_alloc,          *)
(* gc_sweep_page).                                                         *)
Store == INSTANCE ObjectStore WITH Top <- (MaxPages + 1) * Span
ImplementsStore == Store!Spec

(* The bits that are set are those of the objects' units: what a collection *)
(* gave back can be allocated again.                                        *)
BitsAreUnits ==
  \A p \in DOMAIN pages :
    {i \in 0 .. PAGE_UNITS - 1 : HasBit(pages[p].bitmap, i)}
    = UNION {IndexOf(o) .. IndexOf(o) + o.size - 1 : o \in {b \in objs : PageOf(b) = p}}
=============================================================================
