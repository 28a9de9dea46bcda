# A TLA+ model of the Picrin Scheme runtime

Picrin is a small Scheme interpreter in C: a runtime library (`src/lib`), a
compiler and expander (`src/lib/ext`), a Scheme prelude (`src/piclib`) and add-on
libraries (`src/contrib`).  The runtime is single threaded.  What makes it hard is
not concurrency between threads but the interleaving of the program with things
that happen underneath it: a collection may start at any allocation, an escape may
leave any number of C functions at once, malloc may hand out again an address
someone still compares with, a device may take or deliver only part of what it was
asked for, a callback may change the table or the list its caller is walking.

## Inventory

| Component | Source | State it keeps | Operations | How it meets the others | What makes it correct |
|---|---|---|---|---|---|
| Object heap and collector | `gc.c`, `weak.c`, `data.c`, `state.c` | pages, mark bitmap and shadow or free list, object headers, `arena`, `heap->weaks` | allocate, protect/enter/leave, collect, finalize, `pic_close` | every allocation of every component may run it; finalizers call back (ports, ropes, user data) | marks exactly what is reachable, ephemerons included; nothing freed is referred to; no memory is lost; collections end |
| Symbol table | `symbol.c` | `pic->oblist` (weak), symbols, identifiers | intern, make-identifier | swept by the collector; a hash table whose keys are strings | one symbol per name, found again |
| Control | `cont.c`, `error.c`, `var.c` | C stack, `pic->cc` chain, `dyn_env`, handler list | call/cc, `pic_try`, handlers, parameterize, raise, error, escape, values | saved points owned by arena objects; jump buffers in C frames; restores VM registers | the stacks agree however a function is left |
| Ports | `port.c` | `struct file`: buffer, `cnt`, `ptr`, flags | read, peek, write, flush, seek, close | type's read/write functions; closed by the finalizer | bytes in order, none lost; loops end |
| Virtual machine | `proc.c`, `vm.h` | VM stack, call frames, contexts | instructions, call, tail call, return, closures, argument lists | runs C functions that call it again; contexts are collected objects | frames and captured variables survive tear-off; stacks stay balanced |
| Compiler, expander | `ext/eval.c`, `ext/load.c` | environments, macro table, deferred lambdas | expand, compile, eval | identifiers, symbol table, VM | code means what the source means |
| Strings | `string.c` | ropes with reference counts | concatenate, slice, flatten, set, fill, copy | freed by finalizers, not traced | counts match the holders; texts are right |
| Hash tables, dictionaries | `khash.h`, `dict.c` | open-addressing tables | put, get, delete, iterate, resize | symbol table, ephemerons, environments | probes end, no entry lost, iteration meets each once |
| Lists, equality | `pair.c`, `bool.c` | pairs, arena | append, reverse, map, member, list?, ...; equal? | collector, callbacks | answers right on circular data too, under collection, and ends |
| Vectors, bytevectors, records | `vector.c`, `blob.c`, `record.c` | elements | ranged copy, fill, append | argument parser | only what is in the range moves |
| Numbers | `number.c` | fixnums, flonums | arithmetic, comparison, printing, reading | | the boundary of the fixnum range |
| Reader, writer | `ext/read.c`, `ext/write.c` | label tables | read, write, write-shared, write-simple | ports, dictionaries | shared and cyclic structure round-trips |
| R7RS libraries | `contrib/20.r7rs` | `checkpoints` | dynamic-wind, call/cc, guard | escapes and handlers of the runtime | extents are entered and left in order |
| Library table, prelude, boot image, add-ons, `main` | `ext/lib.c`, `piclib`, `ext/boot.c`, `contrib`, `src/main.c` | library table | import/export, derived forms | everything above | |

`PROJECT.json` lists under `hazards` at which line each of these goes wrong if it
does, and which property would show it.

## Modules

### The heap: Collector, ManagedHeap, MCHeap, ObjectStore, BitmapPages, FreeListPages

`Collector.tla` is the heap with one action per step that the code can be observed
between: the program's accesses (`Load`, `SetField`, `WeakSet`, ...), the requests
for memory made by constructors, the collection and the allocation itself.

* The state is `bitmap`/`shadow` as in `gc_init`, the fields of objects (`refs` for
  strong references, `hash` for ephemeron tables, `text` for strings), `oblist`,
  the roots scanned by `gc_mark_phase` as one set `root`, and `arena` as a sequence,
  since `pic_leave` cuts it.
* `symbol->string` hands out the name of a symbol and `string->symbol` keeps the
  program's string, so `StringUpdate` (`string-set!`, `string-fill!`, `string-copy!`) may
  write into a name.  The auxiliary `written` has the names in the table this was done
  to; two symbols may then read the same, and `SymbolsUnique` speaks of the others.
  `SymbolTable.tla` has what such a write does to the table itself.
* A constructor is split where the collector may run: `Request` holds in `args`
  what the C function is going to store, `Collect` ... `Finalize` is the collection,
  `Allocate` hands out a cell of no bitmap and fills it.  `pic_make_error` allocates
  twice with its object half filled, so it has `AllocateError` and
  `AllocateMessage`; `pic_intern` leaves its dummy in the table meanwhile.  The code
  collects only when the pages are full; the model lets any allocation collect
  (as `GC_STRESS` does, and as a full page makes possible at any one of them).
* `gc_mark` is depth first and atomic for everyone else, so the model visits a whole
  frontier `pending` at a time.  The rounds over the chain of ephemeron tables are
  kept one entry at a time, because their order and their end are the hard part.
  A table that joins the chain during a round is looked at in the next round only,
  as in the code, where tables are linked in at the head.

`ManagedHeap.tla` is what clients rely on: objects keep identity and contents while
reachable, and a collection is one atomic step that takes what is not.
`KeepsPromise` is `ManagedHeap!Spec` under a refinement mapping in which the step
`MarkDone` is the whole collection and every other collector step is a stutter.

Where objects lie is a question of its own.  `BitmapPages.tla` has the default build:
the search for a run of clear bits from `freep`, the bits of an object that span
words, shadow and sweep.  Its two loops, through the words of an object and through the
units of all pages, are recursive functions over the number of the round (`Chunks`,
`Finalized`), so that they can be proved about.  `FreeListPages.tla` has the other build: first fit over the
ring of free blocks, splitting, and the sweep that joins a freed block with its
neighbours in address order.  Both implement `ObjectStore.tla`, in which an object
has units that no other has until a collection finds it dead.

### The virtual machine: Frames, Machine, Arguments

`Frames.tla` is the part of `proc.c` that decides where a variable lives: the call
frames `ci`, the registers of captured variables on the VM stack (`slot`, one per
frame for all of them), and the contexts `ctx` that closures and frames share.
`Call`, `TailCall` and `Return` are OP_CALL, OP_TAILCALL and OP_RET, `Lambda`
OP_LAMBDA, `LSet` and `CSet` the two ways to assign to a captured variable; OP_LREF
and OP_CREF are `Own` and `Regs`, of which the properties speak.  `Escape` is
`pic_load_point` in any C function that may have saved a point, errors included.
`truth` is an auxiliary variable: what was last assigned to the variable of each
call.  Frames that were popped stay in `ci` above `depth`, as they do in memory.

`Machine.tla` runs compiled code instruction by instruction, at the level of memory:
value stack with `sp` and what is left over above it, call frames with `fp`, `retc`,
contexts with their registers on or off the stack, and the C functions `values`,
`apply`, `call-with-values` and `call/cc` that call the machine again (`calls` are
the activations of `pic_apply`).  It includes the tests for stack overflow and for
argument counts, multiple values and `pic_applyk`.  A form that fails (`Fail`) is caught
by the `pic_try` of `eval`, which raises again, to a caller that goes on with the next
form, as the REPL does: frames are torn off, the stacks go back to where the form
began, and what it has defined or assigned by then stays, for the forms after it.
The stack ends where `pic->stend` is; a frame laid out beyond it is undefined, so that the
model stops there, and the programs that run have none (`sp <= StackSize` in
`FramesApart`).

`Arguments.tla` is `pic_get_args`: the format, the caller's variables in the order of
its pointers, optional and rest parts.  It is used by `Vectors.tla`.

### Programs: Syntax, Expander, Compiler, Machine, Evaluator, MCPrograms

`Expander` and `Compiler` are the passes of `ext/eval.c` as functions on syntax trees
(`Syntax`): environments and identifiers with aliases, lambdas that are expanded
after the body they stand in, macros by two transformers; `pic_optimize`,
`pic_normalize`, `pic_analyze` and `pic_codegen`.  `Machine` runs what they make,
form after form.  `Evaluator` is written from the language and not from the code:
an evaluator in the style of the report over the source forms, with one thing added
that the report leaves open: the globals of a form are uninitialized until it defines
them.  `MCPrograms` enumerates families of programs, of forms that fail and forms after
them too; for each, `ResultsAgree` compares the two.

### Control and Winds

`Control.tla` has the three stacks of `cont.c`, `error.c` and `var.c`: the C stack
(`frames`), the chain of saved points (`cc` and `prev` in `mem`), and the dynamic
environment (`dyn`), plus the arena, which owns the saved points.  A frame has the
number `id` of its activation, the arena index `base` its caller goes back to, and in
`cont` the address of the point it saved.  The loop of `cont_call` over the chain is
`OnChain`: an address is on the chain if it is in every set that has `pic->cc` and is
closed under `prev`.  Ways in push on some of them; the ways out are a normal return (`pic_exit_point`, `pic_end_try`, the
end of `with-dynamic-environment`), a jump (`Resume`: `pic_load_point` and longjmp),
and nothing at all after `pic_panic`.  Saved points live at malloc addresses that
`Collect` frees and a later `SavePoint` may reuse.  Values passed to continuations
are in `Machine`; assignments to parameters are left out.

`Winds.tla` is what `scheme/base.scm` builds on it: `dynamic-wind` with its list of
`checkpoints`, the `call/cc` whose escape procedures run the thunks between two such
lists before they jump, `guard`, and `eval`, whose `pic_try` raises again what it
catches.  An entry of `stack` is one such call in progress.  Errors cut the stack
without running any thunk; whoever caught them comes back by an escape that does.
The recursion of `do-wind` is stated step by step: an escape has the list `here` that
it has reached and the list `save` that it goes to; as long as `here` is not an outer
part of `save` its innermost extent is left, then those of `save` are entered from
outside (`Entering`, `NextExtent`, `Reached`).  `inside`, `chain` and `astray` are
auxiliary: the extents that are in force as the program sees it, those each was
entered in, and whether a thunk that `do-wind` called was left by a jump.

### Ports: File, InputPort, OutputPort

`File.tla` has what the two kinds of port share, the size of the buffer.  `InputPort`
and `OutputPort` (whose variables have an `o` in front where the names of the fields
are the same) are `struct file` with the macros `getc_` and `putc_` and the loops of `pic_fread`,
`pic_fwrite`, `fillbuf` and `flushbuf`.  Bytes are numbered, so that order, loss and
repetition can be told.  The type's functions may read or write short, report the
end of the input early or fail.  A memcpy with a negative or too large count is
undefined behaviour: the model stops there (`pc = "undefined"`).  `Writing` and `Reading`
are the tests the byte procedures make of the port; `read` and the printing
procedures make none (`ext/read.c:773`, `ext/write.c:558`), and what they do with a port
that is closed or of the other direction is left out.  `pic_malloc` panics
without memory and no code sets `FILE_LNBUF`, so the unbuffered and line buffered
branches cannot be reached and are not modelled.

### Tables: HashTable, FiniteMap, Dictionaries, SymbolTable, TableLimits

`HashTable.tla` is `khash.h` as operators on a table (a record of buckets and counts),
with probing, deleted buckets, rehashing in place and growing; every operation takes
what `KHASH_DEFINE` is given, the hash and the equality of keys, as a record `H`,
because those of the symbol table change when a name is written to.  The kick-out
rehash is stated step by step (`Rehash`, `Moved`).  `TableLimits.tla` has how large a
table may become: `ac_hash_upper` multiplies the number of buckets by 154 in an `int`,
which overflows from 2^24 buckets on, and a table of fewer than 2^22 keys has at most
2^23.  `Dictionaries.tla` has
the operations and the iterations of `dict.c`, whose callback sets and deletes keys
between two steps; `FiniteMap.tla` is what it implements.  `SymbolTable.tla` is
`pic_intern` and the sweep, with names the program writes into: such a string, interned
again, gets a second symbol, so symbols are objects of their own and not their names.

### Data: Strings, Lists, Equality, Vectors, Numbers, Writer, Reader, Text

`Strings.tla` is the heap of ropes with their counts, and `pic_str`, which flattens a
node and turns what is below it into slices in place.  `Lists.tla` runs each list
procedure of `pair.c` round by round over a heap of pairs with arguments and arena;
between the rounds the collector may take what neither keeps, and the callbacks of the
procedures in `Mutating` may cut the lists.  `Equality.tla` is `internal_equal_p` with its stack of calls, the
table of objects seen and the tortoise and hare.  `Vectors.tla` calls the ranged
procedures with all argument lists.  `Numbers.tla` has fixnums of a few bits in
doubles, infinities and not-a-number among them, and the texts of numbers digit by
digit; results are compared with arithmetic on fractions and its limits (`Meant`),
defined apart from the operations of the code.  `Writer.tla` and `Reader.tla` go
from a graph of nodes to tokens and back; `Text.tla` compares the two graphs.

## What is checked

All runs are on small instances; every one has `CHECK_DEADLOCK FALSE`, because in
each model the system may stop: a panic, `pic_close`, a closed port, the end of a
program or of a call, or undefined behaviour after which nothing can be said.  The
parts of a run do not interact: a behaviour is one of one part.  The MC module
extends the modules that theorems are about, so that what is checked and what is
proved are the same definitions, and instantiates the others.

| Run | Question | Bounds |
|---|---|---|
| `calls` | captured variables (`OneVariable`, `NoStaleRegisters`); the stacks agree (`ChainIsTheStack`, `ArenaProtectsChain`, `DynIsTheStack`, `HandlersLive`, `LiveEscapes`); extents are entered and left in order (`WindsNest`) | 3 frames, 3 Scheme calls, 2 values; 3 addresses, depth 4, 5 calls; 7 Scheme calls, 3 extents or escape procedures |
| `heap_objects` | refinement of `ManagedHeap` (`KeepsPromise`), `TypeOK`, `ClosedIsEmpty` | 3 cells: pairs and tables of 2 entries; names, symbols and errors |
| `heap_pages` | `MarkedIsReachable`, `NoDangling`, `SymbolsUnique` on ephemerons and on symbols and errors; both builds' pages implement `ObjectStore` and lose no unit (`ImplementsStore`, `MemoryWhole`) | 4 cells, 2 texts; 2 pages of 7 units, objects of 2 or 3 units |
| `ports` | `InOrder`, `EndIsFinal`, `ReadEnds`; `NothingLost`, `ClosedIsComplete`, `WriteEnds`; `CollectionEnds` | 6 bytes in, 9 out, buffer of 3; 3 cells, tables |
| `programs` | compiled programs mean what their source means (`ResultsAgree`), stacks come back (`StacksBalanced`), frames do not overlap and stay in the stack (`FramesApart`), every form ends (`FormsEnd`) | 967 programs, a stack of 32 cells |
| `tables` | `ImplementsMap`, `ProbesEnd`, `EachOnce`, `SymbolsKeep` | 3 keys, 3 hashes, 2 values; 3 strings, 3 texts, 6 operations |
| `values` | `Texts`, `CountsHolders`; `HeldIsLive`, `OutcomeAgrees`; `EqualAgrees`; `CallsEnd`; `ReadBack`; `CallsAnswer`; `NumbersAgree` | 2 strings, 8 ropes, 4 operations; lists over 3 pairs; graphs of 3 objects or 4 pairs; heaps of 2 nodes or 3 pairs; 5 arguments; ints of 4 bits in words of 9 |

Why the bounds are enough.  Two entries over four cells make a chain in which the
value of one ephemeron is the key of the other, so that a second round is needed,
and the longer chains repeat it (the theorems below do not depend on the bound);
four cells hold two names and two symbols, and exhaust the heap so that collections
have to reuse cells.  Seven units with bitmap words of three bits make objects of two
and three units cross a word and meet the end of the page, and two pages at chosen
addresses lie apart or with the base header between them.  Three addresses and five calls let an
address be reused while two other points are live.  Seven calls hold a dynamic-wind
in another with a guard or eval between them and the thunks of an escape on top.  Six
bytes refill a buffer of three in the middle of one `read-bytevector!`.  Three keys in the smallest table (4 buckets), with hashes that collide and
that wrap around, fill it with deleted buckets, rehash it in place and grow it.  Eight
ropes are what four operations on two strings make, so that a flattened node shares a
slice and a leaf.  Three pairs have every shape of proper, improper and circular list
with cycles of length one to three, and the key of `memv` and `assv` is one of the atoms
that their lists hold, so that they find it in some lists and not in others; four make cycles of different length meet in
`equal?`.  Ints of four bits are small enough to enumerate the whole range with its
ends, and words of nine play the double that holds every product exactly.

Bounds that are not in the code: `MaxArena`, `MaxFields`, `MaxRoots`, `MaxEntries`
(Collector); `Span`, `Sizes`, `MaxPages`, `Bases` (pages); `MaxActive`,
`MaxEntered` (Control); `MaxIds` (Frames); `MaxCalls`, `MaxMade`
(Winds); `MaxPast` (File); `MaxWant`,
`Length` (InputPort); `MaxWrite`, `MaxBytes` (OutputPort); `MaxOps`
(SymbolTable, Strings); `MaxObj`, `MaxLen`, `MaxRopes`, `MaxLost` (Strings); `Given`,
`MaxPair` (Lists); `MaxDepth` (Equality); `MaxText`, `MaxCommented` (Text); `MaxArgs`
(Vectors); `MaxArgs`, `MaxLetters` (Numbers).  `BufSize` is `PIC_BUFSIZ`, `UNIT_SIZE`
and `PAGE_UNITS` are those of the code, `SeenDepth` the 10 of `bool.c`, `IntBits` and
`WideBits` the widths of `int` and of the wide types; `MaxDepth` in Frames is the
size of the VM stack counted in calls, `StackSize` that of the machine.

Fairness: weak fairness of the collector's steps and of the copy loops in `ports`, of
the machine in `programs`, of a list procedure or `equal?` in `values`.  All are C
code that nothing preempts: once in it, the process takes its next step.  Nothing is
assumed of the program, of sources and of sinks, except where a property says so.

Every property of a passing run has a mutant, a change of one mapped definition that
a plausible slip in the code would make (a flag not tested, a pop left out, one round
too few); it is defined next to the definition it replaces, marked `Mutant`, and is
listed in `PROJECT.json`.

## Disagreements with the code's own statements

Five runs are expected to find a violation.

* `heap_error_object`: `pic_make_error` allocates the message of an error object that
  is already protected but not filled, so a collection at that moment marks fields
  nobody has written.  Every other constructor fills its object before it allocates
  again, and `NoDangling` holds apart from that field.
* `control_dead_escape`: liveness of an escape procedure is decided by the address of
  its saved point.  `call/cc`, return, collection, another `call/cc` at the same
  address: the dead procedure resumes the wrong one instead of being refused.
  `LiveEscapes`, the other direction, holds.
* `input_port_past_end`: two `read-u8` at the end of the input leave `cnt` at -1,
  and `read-bytevector!` then copies "-1" bytes.
* `equal_early`: from a depth of ten on, `equal?` takes the first pair or vector it meets
  for one it has seen, because the result of `kh_put` is read the wrong way round, and
  answers true.  `EqualAgrees` holds above that depth, which is where `values` checks it.
* `number_smallest`: `number->string` of the smallest fixnum negates an `int`, and
  prints another number.

Others met while modelling, which no run shows.  Where a model has the behaviour, its
properties say which executions they leave out.

* After a failed write `pic_fwrite` advances past the end of the buffer
  (`port.c:292`); `OutputPort` stops there (`CopyOutOfBounds`).
* `checkpoints` is set when `do-wind` is done, so an escape or an error out of a thunk
  that `do-wind` runs makes later escapes run thunks of extents already left (`astray`
  in `Winds`); when an "after" thunk escapes to a point outside its `dynamic-wind`, it
  runs again and never ends.  A `guard` without a matching clause calls `handler-k`, whose
  `call/cc` has been left by then: the program gets "calling dead escape
  continuation" instead of its condition.  `dynamic-wind` keeps one of several values.
* `write` abbreviates a quote form by its shape and neither labels nor looks up the
  pair behind it, so that one on a cycle is written for ever; `write-shared` forgets
  sharing of that pair.  A comment between a label and its datum is taken for the
  datum.  Reading labels keeps an index into a table that the datum may make grow.
* `string->number` clamps and answers a flonum for integers too long, reads a
  literal that is no integer in its radix as decimal, and reads "" as 0; `exact` out of
  range converts without a test.
* Strings: `pic_str` of a node leaks a count in one case; comparison stops at NUL.
* A top-level definition marks its global undefined when it is compiled, so that a
  form that fails, or that refers to the old value, has lost it.
* Calls test `sp` against the end of the stack before they lay out the frame of the
  procedure (`proc.c:530`), so a frame that begins just below the end passes it.
* A program that writes into the names of symbols can make two symbols read the same
  (`written`, in `Collector` and `SymbolTable`), which `eq?` then tells apart.
* The last unit of a page is never used by the bitmap build.
* `member` and `assoc` keep the rest of the list in a C variable only, so that a procedure
  that cuts the list it is searched in loses that rest to the collector (`pair.c:569`).
* `docs/lang.rst:37` says that `call/cc` and `call-with-values` make tail calls, while
  `pic_callcc` and the producer call are nested C calls.

## What is proved

For every value of the constants (any heap, any C stack, any source and buffer, any
bounds), by TLAPS:

| Module | Theorems | Of the runs' properties |
|---|---|---|
| `CollectorProofs` | `TypeCorrect`, `MarkingCorrect`, `NothingDangles`, `InductiveInvariant` | `TypeOK`, `MarkedIsReachable`, `NoDangling` |
| | `CloseFinalizesAll`, `SymbolsAreUnique` | `ClosedIsEmpty`, `SymbolsUnique` |
| | `KeepsItsPromise` | `KeepsPromise`: the refinement of `ManagedHeap` |
| `FramesProofs` | `CapturedIsOneVariable`, `ContextsAreSound` | `OneVariable`, `NoStaleRegisters` |
| `ControlProofs` | `ControlInvariant`, `ChainIsTheStackHolds`, `ArenaProtectsChainHolds`, `DynIsTheStackHolds`, `HandlersLiveHolds`, `LiveEscapesHold` | `ChainIsTheStack`, `ArenaProtectsChain`, `DynIsTheStack`, `HandlersLive`, `LiveEscapes` |
| `WindsProofs` | `WindInvariant`, `WindsNestHolds` | `WindsNest` |
| `PortProofs` | `InputInvariant`, `ReadsInOrder`, `EndStaysFinal` | `InOrder`, `EndIsFinal` |
| | `OutputInvariant`, `WritesLoseNothing`, `CloseCompletes` | `NothingLost`, `ClosedIsComplete` |
| `TableProofs` | `DictionaryInvariant`, `EveryProbeEnds`, `ForEachCallsOnce`, `DictionaryIsAMap` | `ProbesEnd`; `CalledOnce`, one half of `EachOnce`; `ImplementsMap`: the refinement of `FiniteMap` |
| | `SymbolInvariant`, `SymbolsStay` | `SymbolsKeep` |
| `ListProofs` | `ListInvariant`, `HeldStaysLive` | `HeldIsLive` |
| `PagesProofs` | `PagesInvariant`, `BitsStayUnits`, `PagesAreAStore` | `BitsAreUnits`, what `MemoryWhole` says of the bitmap build; `ImplementsStore`: the refinement of `ObjectStore` by that build |

None of the properties is inductive.  What each proof adds:

**The collector** (`Inv` in `CollectorProofs`): what each phase leaves empty
(`PhaseInv`); that cells in no bitmap hold nothing (`TagInv`), so that a new object is
one nobody refers to; the one unwritten field (`ErrorInv`); that the symbol table and
the symbols name each other (`TableInv`), so that sweeping by symbol drops dead names
too; that what a C function holds across an allocation can be reached without it
(`ArgsInv`) - this is what makes constructors safe; the tri-colour invariant of marking
with the rule for rounds (`MarkInv`): in a round that has marked nothing, every
ephemeron with a marked table and key has a marked value or is still to be looked at;
and what the sweep may rely on (`SweepInv`).  There is one lemma per action.
`CloseInv` and `SymInv` come on top of `Inv`.  `SymInv` has that a live symbol has one
name, under which it is in the table, and that no two entries read the same unless one
was written into (`OneName`): interning compares with all that are there, and a write
takes its string out of the claim.

**The refinement of the managed heap** (`KeepsItsPromise`).  The abstract state is that of
the live objects, and "reachable" on both sides is the intersection of all closed sets,
so no induction is needed to compare them: `LiveIsClosed` and `SameReachable` say that
the dead objects the collector has not swept yet change nothing, `ClosedAgain` that
what is closed stays closed when only dead objects go.  `MarkDone` is the abstract
collection by `MarkingCorrect`; the other steps of the collector change no live object.
A constructor stores its arguments after the collection it may have caused; that they
are reachable then, when the object that will hold them does not exist, is `HeldInv`.

**Captured variables** (`FramesProofs`): the invariant is `TypeOK`, the two properties,
and `Known`: calls have numbers of their own, a frame has a context exactly if a
closure holds it, and what is above a held context is held.  The proof goes through
what tearing off does (`TearOffMoves`: it moves variables and changes none) and what an
assignment does (`SetKeeps`); each action is one of these or an entry into a frame to
which no context points.

**The three stacks** (`IInv` in `ControlProofs`).  The properties speak of the lengths and
ends of three stacks; to survive a jump that cuts all three at once each has to be in
place entry by entry.  `FramesInOrder`: numbers and arena indices grow inwards.
`PointsInPlace`: a frame with a saved point is where the point leads, and owns the arena
slot next to its `base`, so cutting the arena to the base of a frame frees that frame's
point and no one's below.  `DynInPlace`: entry t of the environment, counted from the
outermost, is that of the t-th frame that binds, and a saved environment is the entries
below its frame: this is what makes it a tail of every later one.  `HandlersInPlace` and
`RaisesOutward`: the handlers in an environment were installed further out than it,
innermost first, and since a call of raise only from outside of the handler that runs or
from inside of the call.  `EscapesInPlace` identifies an escape procedure with its frame
while that is on the stack.  All steps are one of two kinds, and the two halves of the
proof are about them: `CutKeepsIInv` (returns, jumps) and `GrowKeepsIInv` (calls,
signals).  `EscapesInPlace` says nothing of dead escape procedures, and nothing true
could be said: see `control_dead_escape`.

**Dynamic-wind** (`IInv` in `WindsProofs`).  `WindsNest` says nothing while a thunk that
`do-wind` called runs, in which the program may do anything: call, escape, fail, catch,
or run a `do-wind` of its own.  The list of checkpoints is not moved by `do-wind`, so
inside such a thunk the extents in force are no longer those of the list.  What holds
is relative to the innermost such thunk (`IsBase`): the extents in force are those that
were when it was called (`inside` of its call), and those put on the list since
(`InForce`, `NowInRegion`).  That this survives a jump, a guard or an error that cuts
the stack needs it of every call (`OneRegion`, `SameBase`), and that each call has the
list in force when it was made (`Nested`, `Below`); that an escape and its target are
in the same thunk is what `astray` tells (`NoThunkLeft`).  Lists are compared by their
extents: each extent is numbered, has been in force inside of one list only (`Proper`,
kept in `chain`), and `EnterStep` and `LeaveStep` say of a step of `do-wind` what it
does to them.  Returns and errors are instances of `CutKeeps`, escapes of `EscapeKeeps`.

**Input** (`IInv` in `PortProofs`): while the port is open for reading, the bytes
delivered and those left in the buffer are together the bytes taken from the source,
with their numbers (`BytesInPlace`), where "left" is zero when `getc_` has taken `cnt`
below it; after the end or an error nothing is left.  **Output** (`OutputIInv`
there): the sink has the first bytes written and the buffer the next ones;
there is room for `cnt` bytes and one more (`RoomForOne`: `putc_` counts down before it
looks); the loops of `pic_fwrite` run on open ports only.

**Hash tables** (`WellFormed`, `Reached` in `TableProofs`).  The number of buckets is a power of two, and the
steps of a probe are 1, 2, 3, ...: two of its first `n_buckets` sums, whose difference
is half the product of an odd and an even number, never differ by a multiple of
`n_buckets` (`ProbesApart`, over `OddFactor`), so a probe passes every bucket
(`ProbeReachesAll`) and ends, one bucket being empty (`SearchEnds`).  `WellFormed` has the counts and their limits; `Reached` is what makes a
key findable: its own probe comes to its bucket before any empty one.  Deleting leaves
no bucket empty, so `Reached` survives it, and `kh_put` keeps it for the key it adds
(`SiteOfKey`, `AddedWellFormed`).  The rehashing moves keys within the array it reads
them from, so its invariant (`Moving`) is about keys and not about buckets: there is a
one-to-one map from the old live buckets to the places where the contents are now, a
new bucket, an old one not yet passed, or the key in hand of the kick-out process.  Each step
but the last passes a bucket or puts a key (`RehashSteps`), so within as many steps as
there are buckets and keys it is done (`AtStep`), and nothing was lost, doubled or
changed.  `MakeRoom` leaves room for one key because a table of fewer than 2^22 keys
need not pass 2^23 buckets (`HashUpper`, `SizesGoOn`).  Induction is over numbers only,
by the least counterexample (`LeastNatural`).

**Dictionaries** (`DictionaryInvariant`).  `Fine`: the table is well formed, every live
bucket is reached, and no two hold the same key, which makes the table a finite map
(`ImplementsMap` reads it so); put, get and delete are what they are for maps.  A walk
goes up the buckets while its callback sets and deletes keys.  A set may rehash the
table under the walk, which then promises nothing; deleting moves no key, so `WalkInv`
has, until the first set, that the keys seen and those in the buckets ahead are together
the ones the walk is to see, and none is both.

**The symbol table** (`Right` in `TableProofs`).  A program may write into the
string of a symbol, whose hash then leads elsewhere.  Of such names nothing is known:
they may lie anywhere, be moved by a rehash according to their new text, and be in the
table twice.  What holds, and is enough for `SymbolsKeep`, is about the others: each is
reached, and no two read the same.  That the proofs about `khash.h` ask `Reached` of one
key at a time, and not of the table, is for this.

**List procedures** (`IInv` in `ListProofs`).  The C variables of a list procedure are no
roots.  What the next round needs is found by the collector for one of three reasons,
and the invariant has one conjunct per loop that says which: the rest of the list it
walks is reached from the arguments; the pairs it made are in the arena (`Built`); and
`pic_reverse` and `pic_append`, which cut the arena in every round, keep what they reach
from the part below the cut (`Kept`) or put it back (the reversed list of `AppendInv`).
That list must end (`Proper`), and stay so while the collector takes other pairs, for its
cdrs to be followed to the end without a test; and `cdr` of the tortoise in `list?` is
only defined because it is behind the hare (`Behind`, `StillBehind`).  `Reachable` is
computed by as many steps as the heap has pairs; `ReachableIs` proves that this is the
least closed set (each step that is not the last adds a pair), and `ReachedAgain` and
`StaysProper` that a collection changes nothing for what is reached from a part of the
roots that is kept.

**Pages of the bitmap build** (`PagesInv` in `PagesProofs`).  Each object lies within a page,
apart from the others, and the bits of a page are exactly those of its objects' units.
Two things are not obvious.  The loops of `mark_at` and `is_marked_at` cut an object
into words: after each round the parts cut are the units before the index and no others,
and fewer are left than before (`Cutting`, `ChunksCover`), so both treat
the units of an object and no others (`MarkSets`, `MarkTests`; `SameWord` says which bits
of a word are whose).  The sweep reads the size of an object from the first unit whose
bit only the shadow has; that this is a header, and not the middle of an object of which
something was swept before, is its invariant (`Sweeping`): every dead object before the
position was finalized, once, and none straddles the position (`Between`).  Each step
gets on, so within as many steps as there are units and pages all are passed
(`SweepFinalizes`).  Of `freep`, from which the
search starts, nothing is needed: it decides which free place is found, not what is free.
The refinement compares addresses with
pages by division (`DividedOnce`, `UnitsApart`); `AllocateIsAllocate` and
`CollectIsCollect` are its two steps that are not stutters.

The assumptions are that the sentinels are not cells, addresses or saved points and are
distinct, that `Kinds` are kinds, that a buffer holds a byte, that the bounds are
naturals, and, for tables, those of `TableLimits`: hashes are integers, and a
dictionary has fewer than 2^22 keys, a symbol table fewer than 2^22 operations behind
it.  For lists (`ListAssumption`) they are that the heap holds the pairs given, and that
atoms are numbers below zero; `HeldStaysLive` assumes besides that the procedures given
to `member` and `assoc` do not cut the lists, without which it is false.
For pages (`BitmapAssumption`) they are that a page has two units at least, as
`heap_morecore` asserts, that addresses leave room for a page, and that no object asked
for is larger than one.

Only model-checked, and why:

* All liveness (`CollectionEnds`, `ReadEnds`, `WriteEnds`, `FormsEnd`, `CallsEnd`): out of
  the prover's reach.
* What is defined by recursion over data, about which this prover cannot reason by
  induction: the expander, compiler, machine and evaluator, the writer and reader, ropes
  (`Texts`, `CountsHolders`), numbers and their texts, argument lists, the outcomes
  of list procedures, the other half of `EachOnce` (`ListsWhatIsFound`: `alist->dictionary`
  is a fold), and the walk of the other build through its ring of free blocks (so
  `MemoryWhole` and `ImplementsStore` for that build).  In `Winds`, where the handler of an error is found (`HandlerIn`)
  is such a definition too, but the proof needs no more than that it is a guard or an
  eval on the stack, which `Handle` tests.
* `EqualAgrees` is not true for all constants: see `equal_early`.

## Not modelled

* Lexical syntax and formatting (text processing), floating point conversion, and
  the mathematical functions.
* The boot image (generated from the prelude), the prelude's macros and derived forms,
  import and export; the library table is a set of accessors.
* Bindings of system libraries, partial continuations and regular expressions in
  `contrib`, and the start-up of the interpreter.
* Within modelled components: growth of the arena, the VM stack and the call frames by
  realloc; assignment to parameters; the bytes of a memory port; conversions between
  strings, lists, vectors and bytevectors; syntax errors; backtraces.
