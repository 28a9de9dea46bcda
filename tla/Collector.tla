----------------------------- MODULE Collector -----------------------------
(***************************************************************************)
(* The object heap of the interpreter and its stop-the-world mark and      *)
(* sweep collector (lib/gc.c, bitmap build), with the operations of the    *)
(* mutator that decide what the collector must keep: the arena that        *)
(* protects objects held only by C variables, the ephemeron tables of      *)
(* lib/weak.c and the symbol table of lib/symbol.c, which does not keep    *)
(* its symbols alive.                                                      *)
(*                                                                         *)
(* One object of each shape stands for every type of that shape: a "pair"  *)
(* for whatever traces all of its fields (pairs, vectors, contexts,        *)
(* procedures, environments, records, dictionaries), a "string" for        *)
(* whatever traces none (strings, blobs, ports, user data).                *)
(***************************************************************************)
EXTENDS Naturals, FiniteSets, Sequences

CONSTANTS
  Obj,        \* heap cells: the memory the allocator can hand out
  Text,       \* contents of strings
  Kinds,      \* the kinds of object the program allocates
  MaxArena,   \* bound of the runs: objects protected at one time
  MaxFields,  \* bound of the runs: pointers in one object
  MaxRoots,   \* bound of the runs: slots of the VM stack and of the globals
  MaxEntries, \* bound of the runs: entries of all ephemeron tables
  NoObj,      \* no object, an empty slot
  Imm,        \* a value that is not a pointer to the heap
  Dummy,      \* the NULL pic_intern leaves in the table while it allocates
  Wild        \* the content of a field nobody has written yet

AllKinds == {"pair", "string", "symbol", "weak", "error"}

ASSUME SentinelAssumption ==
  /\ {NoObj, Imm, Dummy, Wild} \cap Obj = {}
  /\ NoObj \notin {Imm, Dummy, Wild}
  /\ Imm \notin {Dummy, Wild} /\ Dummy # Wild

ASSUME KindAssumption == Kinds \subseteq AllKinds

ASSUME BoundAssumption == {MaxArena, MaxFields, MaxRoots, MaxEntries} \subseteq Nat

VARIABLES
  bitmap,   \* units in use; during a collection, the mark bits
  shadow,   \* units in use when the collection began, then those to finalize
  kind,     \* type tag of each cell, "free" when it holds no object
  refs,     \* strong references held in the fields of an object
  text,     \* content of a string
  hash,     \* entries of an ephemeron table: key -> value
  oblist,   \* symbol table: name strings with their symbols
  written,  \* names in the table that were written into since they became names
  root,     \* VM stack, call frames, globals, macros, err, dyn_env, features
  arena,    \* pic->arena[0 .. arena_idx - 1]
  pc,       \* where the runtime is
  op,       \* the allocation in progress: kind of object, or what else is run
  args,     \* objects a C function holds across that allocation
  unset,    \* the error object that is allocated but not filled
  pending,  \* objects gc_mark still has to visit
  weaks,    \* pic->heap->weaks, the chain of marked ephemeron tables
  todo,     \* entries the current round over the chain has not looked at
  again     \* j > 0: this round has marked something

heapVars  == <<kind, refs, text, hash>>
gcVars    == <<pending, weaks, todo, again>>
opVars    == <<op, args, unset>>
vars == <<bitmap, shadow, heapVars, oblist, written, root, arena, pc, opVars, gcVars>>

Collecting == {"mark", "weak", "sweep", "finalize"}
PCs == {"run", "alloc", "retry", "panic", "closed"} \cup Collecting
Ops == AllKinds \cup {"none", "message", "close"}

Protected == {arena[i] : i \in DOMAIN arena}
Roots     == root \cup Protected
NoEntries == [k \in Obj |-> NoObj]

-----------------------------------------------------------------------------
(* pic_open: the root tables are made while collection is off; they are    *)
(* themselves part of "root", so the model starts with nothing in them.    *)

Init ==
  /\ bitmap = {} /\ shadow = {}
  /\ kind = [o \in Obj |-> "free"]
  /\ refs = [o \in Obj |-> {}]
  /\ text = [o \in Obj |-> NoObj]
  /\ hash = [o \in Obj |-> NoEntries]
  /\ oblist = {} /\ written = {}
  /\ root = {} /\ arena = <<>>
  /\ pc = "run" /\ op = "none" /\ args = {} /\ unset = NoObj
  /\ pending = {} /\ weaks = {} /\ todo = {} /\ again = FALSE

-----------------------------------------------------------------------------
(* The mutator.  It names only what it holds in a root or in the arena.    *)

Running == pc = "run"

\* The VM pushes a field of an object it holds (CAR, CDR, CREF, GREF ...).
Load ==
  /\ Running
  /\ Cardinality(root) < MaxRoots
  /\ \E o \in Roots : \E r \in refs[o] \ root : root' = root \cup {r}
  /\ UNCHANGED <<bitmap, shadow, heapVars, oblist, written, arena, pc, opVars, gcVars>>

\* The result of a C function, held by the arena, is pushed on the VM stack.
Return ==
  /\ Running
  /\ Cardinality(root) < MaxRoots
  /\ \E o \in Protected \ root : root' = root \cup {o}
  /\ UNCHANGED <<bitmap, shadow, heapVars, oblist, written, arena, pc, opVars, gcVars>>

\* A stack slot is popped, a frame is left, a global is redefined.
Drop ==
  /\ Running
  /\ \E o \in root : root' = root \ {o}
  /\ UNCHANGED <<bitmap, shadow, heapVars, oblist, written, arena, pc, opVars, gcVars>>

\* pic_leave
Leave ==
  /\ Running
  /\ \E n \in 0 .. Len(arena) - 1 : arena' = SubSeq(arena, 1, n)
  /\ UNCHANGED <<bitmap, shadow, heapVars, oblist, written, root, pc, opVars, gcVars>>

\* Mutant: an immediate value is taken for a pointer.
SetFieldUntagged ==
  /\ Running
  /\ \E o \in Roots : \E old \in refs[o] \cup {Imm} : \E new \in Roots \cup {Imm} :
       /\ kind[o] = "pair"
       /\ refs' = [refs EXCEPT ![o] = (@ \ {old}) \cup {new}]
       /\ Cardinality(refs'[o]) <= MaxFields
  /\ UNCHANGED <<bitmap, shadow, kind, text, hash, oblist, written, root, arena, pc,
                 opVars, gcVars>>

\* set-car!, set-cdr!, vector-set!, CSET: one field is overwritten.
SetField ==
  /\ Running
  /\ \E o \in Roots : \E old \in refs[o] \cup {Imm} : \E new \in Roots \cup {Imm} :
       /\ kind[o] = "pair"
       /\ refs' = [refs EXCEPT ![o] = ((@ \ {old}) \cup {new}) \ {Imm}]
       /\ Cardinality(refs'[o]) <= MaxFields
  /\ UNCHANGED <<bitmap, shadow, kind, text, hash, oblist, written, root, arena, pc,
                 opVars, gcVars>>

Entries(W) == {e \in W \X Obj : hash[e[1]][e[2]] # NoObj}

\* Calling an ephemeron table with a key and a value that is not #f.
WeakSet ==
  /\ Running
  /\ \E w, k \in Roots : \E v \in Roots \cup {Imm} :
       /\ kind[w] = "weak"
       /\ hash[w][k] = NoObj => Cardinality(Entries(Obj)) < MaxEntries
       /\ hash' = [hash EXCEPT ![w][k] = v]
  /\ UNCHANGED <<bitmap, shadow, kind, refs, text, oblist, written, root, arena, pc,
                 opVars, gcVars>>

\* Calling an ephemeron table with a key and #f.
WeakDel ==
  /\ Running
  /\ \E w, k \in Roots :
       /\ kind[w] = "weak"
       /\ hash[w][k] # NoObj
       /\ hash' = [hash EXCEPT ![w][k] = NoObj]
  /\ UNCHANGED <<bitmap, shadow, kind, refs, text, oblist, written, root, arena, pc,
                 opVars, gcVars>>

\* A call of pic_obj_alloc for an object of kind k, made by a C function that
\* will store the objects S in it.
Request(k, S) ==
  /\ Len(arena) < MaxArena
  /\ k \in Kinds
  /\ op' = k /\ args' = S /\ pc' = "alloc"

\* pic_cons and the other constructors.
Cons ==
  /\ Running
  /\ \E S \in SUBSET Roots : Cardinality(S) <= MaxFields /\ Request("pair", S)
  /\ UNCHANGED <<bitmap, shadow, heapVars, oblist, written, root, arena, unset, gcVars>>

\* weak_call with a key only: the value is read from the table, then consed.
WeakRef ==
  /\ Running
  /\ \E w, k \in Roots :
       /\ kind[w] = "weak"
       /\ hash[w][k] # NoObj
       /\ Request("pair", {k, hash[w][k]} \ {Imm})
  /\ UNCHANGED <<bitmap, shadow, heapVars, oblist, written, root, arena, unset, gcVars>>

MakeWeak ==
  /\ Running
  /\ Request("weak", {})
  /\ UNCHANGED <<bitmap, shadow, heapVars, oblist, written, root, arena, unset, gcVars>>

MakeString ==
  /\ Running
  /\ Request("string", {})
  /\ UNCHANGED <<bitmap, shadow, heapVars, oblist, written, root, arena, unset, gcVars>>

\* str_update gives a string another text, be it the name of a symbol, which
\* symbol->string hands out and string->symbol keeps: string-set!, string-fill!
\* and string-copy!, after the strings they make (MakeString) on the way.
StringUpdate ==
  /\ Running
  /\ \E s \in Roots : \E t \in Text \ {text[s]} :
       /\ kind[s] = "string"
       /\ text' = [text EXCEPT ![s] = t]
       /\ written' = IF \E e \in oblist : e[1] = s THEN written \cup {s} ELSE written
  /\ UNCHANGED <<bitmap, shadow, kind, refs, hash, oblist, root, arena, pc,
                 opVars, gcVars>>

\* Mutant: the table compares the addresses of the name strings.
SameString(s) == {e \in oblist : e[1] = s}

\* kh_put on the symbol table compares contents of strings.
SameName(s) == {e \in oblist : text[e[1]] = text[s]}

InternHit ==
  /\ Running
  /\ Len(arena) < MaxArena
  /\ \E s \in Roots : \E e \in SameName(s) :
       /\ kind[s] = "string"
       /\ arena' = Append(arena, e[2])
  /\ UNCHANGED <<bitmap, shadow, heapVars, oblist, written, root, pc, opVars, gcVars>>

\* A name that was written into lies where its old text led, or where a rehash
\* has put it since: the probe may meet it or not (see SymbolTable).
InternMiss ==
  /\ Running
  /\ \E s \in Roots :
       /\ kind[s] = "string"
       /\ \A e \in SameName(s) : e[1] \in written
       /\ oblist' = oblist \cup {<<s, Dummy>>}
       /\ Request("symbol", {s})
  /\ UNCHANGED <<bitmap, shadow, heapVars, written, root, arena, unset, gcVars>>

\* pic_make_error allocates the error object before the string of its message.
MakeError ==
  /\ Running
  /\ \E s \in Roots :
       /\ kind[s] = "symbol"
       /\ Request("error", {s})
  /\ UNCHANGED <<bitmap, shadow, heapVars, oblist, written, root, arena, unset, gcVars>>

-----------------------------------------------------------------------------
(* pic_obj_alloc_unsafe and pic_obj_alloc.                                 *)

\* The first heap_alloc finds no free units (there may be none, or none
\* large enough behind freep), so pic_gc runs.
Collect ==
  /\ pc = "alloc"
  /\ pc' = "mark"
  /\ shadow' = bitmap          \* gc_init
  /\ bitmap' = {}
  /\ pending' = Roots          \* gc_mark_phase, up to the weak maps
  /\ UNCHANGED <<heapVars, oblist, written, root, arena, opVars, weaks, todo, again>>

\* heap_alloc succeeds, at the first try or after the collection; the caller
\* fills the object in before it allocates again, pic_make_error excepted.
Fill(o, k, t) ==
  /\ kind' = [kind EXCEPT ![o] = IF k = "message" THEN "string" ELSE k]
  /\ text' = [text EXCEPT ![o] = t]
  /\ oblist' = IF k = "symbol"
               THEN {<<e[1], IF e[2] = Dummy THEN o ELSE e[2]>> : e \in oblist}
               ELSE oblist

Allocate ==
  /\ pc \in {"alloc", "retry"}
  /\ op \notin {"error", "message"}
  /\ \E o \in Obj \ bitmap : \E t \in IF op = "string" THEN Text ELSE {NoObj} :
       /\ bitmap' = bitmap \cup {o}
       /\ arena' = Append(arena, o)
       /\ refs' = [refs EXCEPT ![o] = args]
       /\ Fill(o, op, t)
  /\ pc' = "run" /\ op' = "none" /\ args' = {}
  /\ UNCHANGED <<shadow, hash, written, root, unset, gcVars>>

\* e is protected, but e->msg is not written yet when pic_cstr_value allocates.
AllocateError ==
  /\ pc \in {"alloc", "retry"}
  /\ op = "error"
  /\ \E o \in Obj \ bitmap :
       /\ bitmap' = bitmap \cup {o}
       /\ arena' = Append(arena, o)
       /\ refs' = [refs EXCEPT ![o] = args \cup {Wild}]
       /\ Fill(o, op, NoObj)
       /\ unset' = o
  /\ pc' = "alloc" /\ op' = "message" /\ args' = {}
  /\ UNCHANGED <<shadow, hash, written, root, gcVars>>

AllocateMessage ==
  /\ pc \in {"alloc", "retry"}
  /\ op = "message"
  /\ \E o \in Obj \ bitmap : \E t \in Text :
       /\ bitmap' = bitmap \cup {o}
       /\ arena' = Append(arena, o)
       /\ refs' = [refs EXCEPT ![unset] = (@ \ {Wild}) \cup {o}]
       /\ Fill(o, op, t)
  /\ pc' = "run" /\ op' = "none" /\ args' = {} /\ unset' = NoObj
  /\ UNCHANGED <<shadow, hash, written, root, gcVars>>

\* "GC memory exhausted": no free unit after the collection and morecore.
Exhausted ==
  /\ pc = "retry"
  /\ bitmap = Obj
  /\ pc' = "panic"
  /\ UNCHANGED <<bitmap, shadow, heapVars, oblist, written, root, arena, opVars, gcVars>>

\* Mutant: pic_close leaves the arena as it is.
CloseKeepingArena ==
  /\ Running
  /\ root' = {}
  /\ op' = "close"
  /\ shadow' = bitmap /\ bitmap' = {}
  /\ pending' = Protected
  /\ pc' = "mark"
  /\ UNCHANGED <<heapVars, oblist, written, arena, args, unset, weaks, todo, again>>

\* pic_close drops every root and collects once more.
Close ==
  /\ Running
  /\ root' = {} /\ arena' = <<>>
  /\ op' = "close"
  /\ shadow' = bitmap /\ bitmap' = {}
  /\ pending' = {}
  /\ pc' = "mark"
  /\ UNCHANGED <<heapVars, oblist, written, args, unset, weaks, todo, again>>

-----------------------------------------------------------------------------
(* The collector.  gc_mark goes depth first; the model visits everything    *)
(* gc_mark still has to visit at once, then everything those refer to, and  *)
(* so on: nobody runs in between, and the objects visited are the same.     *)

\* Mutant: ephemeron tables are traced like any other object.
MarkThroughTables ==
  /\ pc \in {"mark", "weak"}
  /\ pending # {} /\ pending \subseteq Obj
  /\ bitmap' = bitmap \cup pending
  /\ pending' = (UNION {refs[o] \cup ({hash[o][k] : k \in Obj} \cap Obj) :
                         o \in pending}) \ bitmap'
  /\ weaks' = weaks \cup {o \in pending : kind[o] = "weak"}
  /\ UNCHANGED <<shadow, heapVars, oblist, written, root, arena, pc, opVars, todo, again>>

\* gc_mark_object, on every pending object that is not marked.
Mark ==
  /\ pc \in {"mark", "weak"}
  /\ pending # {} /\ pending \subseteq Obj
  /\ bitmap' = bitmap \cup pending
  /\ pending' = (UNION {refs[o] : o \in pending}) \ bitmap'
  /\ weaks' = weaks \cup {o \in pending : kind[o] = "weak"}
  /\ UNCHANGED <<shadow, heapVars, oblist, written, root, arena, pc, opVars, todo, again>>

\* The head of the do-while loop over the chain of ephemeron tables.
StartRound ==
  /\ pending = {}
  /\ \/ pc = "mark"
     \/ pc = "weak" /\ todo = {} /\ again
  /\ pc' = "weak"
  /\ todo' = Entries(weaks)
  /\ again' = FALSE
  /\ UNCHANGED <<bitmap, shadow, heapVars, oblist, written, root, arena, opVars,
                 pending, weaks>>

\* Mutant: one round is taken to be enough.
ScanOnce ==
  /\ pc = "weak"
  /\ pending = {}
  /\ \E e \in todo :
       LET val == hash[e[1]][e[2]]
           hit == e[2] \in bitmap /\ val \in Obj \ bitmap
       IN  /\ todo' = todo \ {e}
           /\ pending' = IF hit THEN {val} ELSE {}
  /\ UNCHANGED <<bitmap, shadow, heapVars, oblist, written, root, arena, pc, opVars,
                 weaks, again>>

\* Mutant: a round counts the entries whose value was marked before.
ScanForever ==
  /\ pc = "weak"
  /\ pending = {}
  /\ \E e \in todo :
       LET val == hash[e[1]][e[2]]
           hit == e[2] \in bitmap /\ val \in Obj
       IN  /\ todo' = todo \ {e}
           /\ pending' = IF hit THEN {val} \ bitmap ELSE {}
           /\ again' = (again \/ hit)
  /\ UNCHANGED <<bitmap, shadow, heapVars, oblist, written, root, arena, pc, opVars, weaks>>

\* One entry: its value is marked when its key is.
Scan ==
  /\ pc = "weak"
  /\ pending = {}
  /\ \E e \in todo :
       LET val == hash[e[1]][e[2]]
           hit == e[2] \in bitmap /\ val \in Obj \ bitmap
       IN  /\ todo' = todo \ {e}
           /\ pending' = IF hit THEN {val} ELSE {}
           /\ again' = (again \/ hit)
  /\ UNCHANGED <<bitmap, shadow, heapVars, oblist, written, root, arena, pc, opVars, weaks>>

MarkDone ==
  /\ pc = "weak"
  /\ pending = {} /\ todo = {} /\ ~again
  /\ pc' = "sweep"
  /\ UNCHANGED <<bitmap, shadow, heapVars, oblist, written, root, arena, opVars, gcVars>>

\* Mutant: the tables are unlinked with all of their entries.
SweepWeakKeepingKeys ==
  /\ pc = "sweep"
  /\ \E w \in weaks : weaks' = weaks \ {w}
  /\ UNCHANGED <<bitmap, shadow, heapVars, oblist, written, root, arena, pc, opVars,
                 pending, todo, again>>

\* gc_sweep_phase unlinks the tables one by one, without their dead keys.
SweepWeak ==
  /\ pc = "sweep"
  /\ \E w \in weaks :
       /\ hash' = [hash EXCEPT ![w] =
                     [k \in Obj |-> IF k \in bitmap THEN @[k] ELSE NoObj]]
       /\ weaks' = weaks \ {w}
  /\ UNCHANGED <<bitmap, shadow, kind, refs, text, oblist, written, root, arena, pc,
                 opVars, pending, todo, again>>

\* Then the symbol table; then gc_sweep_page keeps in the shadow what is to
\* be finalized.
SweepSymbols ==
  /\ pc = "sweep"
  /\ weaks = {}
  /\ oblist' = {e \in oblist : e[2] \notin Obj \ bitmap}
  /\ written' = written \cap {e[1] : e \in oblist'}
  /\ shadow' = shadow \ bitmap
  /\ pc' = "finalize"
  /\ UNCHANGED <<bitmap, heapVars, root, arena, opVars, gcVars>>

\* gc_finalize_object for every cell left in the shadow, which may be handed
\* out again; pic_gc returns to pic_obj_alloc_unsafe or to pic_close.
Finalize ==
  /\ pc = "finalize"
  /\ kind' = [o \in Obj |-> IF o \in shadow THEN "free" ELSE kind[o]]
  /\ refs' = [o \in Obj |-> IF o \in shadow THEN {} ELSE refs[o]]
  /\ text' = [o \in Obj |-> IF o \in shadow THEN NoObj ELSE text[o]]
  /\ hash' = [o \in Obj |-> IF o \in shadow THEN NoEntries ELSE hash[o]]
  /\ shadow' = {}
  /\ pc' = IF op = "close" THEN "closed" ELSE "retry"
  /\ UNCHANGED <<bitmap, oblist, written, root, arena, opVars, gcVars>>

-----------------------------------------------------------------------------
Mutate == \/ Load \/ Return \/ Drop \/ Leave \/ SetField \/ WeakSet \/ WeakDel
          \/ Cons \/ WeakRef \/ MakeWeak \/ MakeString \/ StringUpdate
          \/ InternHit \/ InternMiss \/ MakeError \/ Close
NewObject == Allocate \/ AllocateError \/ AllocateMessage \/ Exhausted
GCStep == \/ Mark \/ StartRound \/ Scan \/ MarkDone
          \/ SweepWeak \/ SweepSymbols \/ Finalize

Next == Mutate \/ Collect \/ NewObject \/ GCStep

Spec == Init /\ [][Next]_vars

\* The collector is straight-line C: once in it, the process takes its next step.
FairSpec == Spec /\ WF_vars(GCStep)

-----------------------------------------------------------------------------
TypeOK ==
  /\ bitmap \subseteq Obj /\ shadow \subseteq Obj
  /\ kind \in [Obj -> AllKinds \cup {"free"}]
  /\ refs \in [Obj -> SUBSET (Obj \cup {Wild})]
  /\ text \in [Obj -> Text \cup {NoObj}]
  /\ hash \in [Obj -> [Obj -> Obj \cup {Imm, NoObj}]]
  /\ oblist \in SUBSET (Obj \X (Obj \cup {Dummy})) /\ written \subseteq Obj
  /\ root \subseteq Obj /\ arena \in Seq(Obj)
  /\ pc \in PCs /\ op \in Ops /\ args \subseteq Obj /\ unset \in Obj \cup {NoObj}
  /\ pending \subseteq Obj \cup {Wild} /\ weaks \subseteq Obj
  /\ todo \subseteq Obj \X Obj /\ again \in BOOLEAN

(* What the program can still get at: the least set that holds the roots,  *)
(* the fields of its members, and the value of every ephemeron whose table *)
(* and key it holds.                                                       *)
Closed(S) ==
  /\ Roots \subseteq S
  /\ \A o \in S : refs[o] \cap Obj \subseteq S
  /\ \A w, k \in S : hash[w][k] \in Obj => hash[w][k] \in S

Reachable == {o \in Obj : \A S \in SUBSET Obj : Closed(S) => o \in S}

\* The objects that exist for the program: those allocated, less those the
\* collection under way has found dead.
Live == IF pc \in {"mark", "weak"} THEN shadow ELSE bitmap

-----------------------------------------------------------------------------
(* When marking ends the mark bits are exactly the reachable objects: no   *)
(* object in use is about to be freed, no garbage survives, cycles through *)
(* ephemeron tables (a value that refers to its own key) included.  It is  *)
(* the do-while loop over the chain of tables in gc_mark_phase that could  *)
(* stop a round early or miss a table marked during a round.               *)
MarkedIsReachable == pc = "sweep" => bitmap = Reachable

(* Nothing the program can follow leads to a freed cell: the roots, what a *)
(* C function holds across an allocation, the fields of live objects, and, *)
(* once swept, the entries of ephemeron tables and of the symbol table,    *)
(* whose keys the next lookup dereferences.                                *)
NoDangling ==
  /\ Roots \cup args \subseteq Live
  /\ \A o \in Live : refs[o] \cap Obj \subseteq Live
  /\ pc # "sweep" =>
       /\ \A w \in Live, k \in Obj : hash[w][k] # NoObj =>
            k \in Live /\ hash[w][k] \in Live \cup {Imm}
       /\ \A e \in oblist : e[1] \in Live /\ e[2] \in Live \cup {Dummy}

(* Two symbols of one name are one object (eq? compares addresses), though *)
(* the table forgets a symbol when it is collected and the name may be     *)
(* interned again during the very collection its allocation started; that  *)
(* is, as long as no one writes into these names, whatever is written into *)
(* the names of other symbols (pic_intern, str_update).                    *)
SymbolsUnique ==
  \A a, b \in {o \in Live : kind[o] = "symbol"} : \A s \in refs[a], t \in refs[b] :
    text[s] = text[t] => a = b \/ {s, t} \cap written # {}

(* pic_close finalizes everything: ports are closed and user data released *)
(* whatever cycles or ephemerons hold them.                                *)
ClosedIsEmpty == pc = "closed" => bitmap = {} /\ \A o \in Obj : kind[o] = "free"

(* gc_mark_object never visits a field that was not written.               *)
MarksWrittenFields == Wild \notin pending

(* The rounds over the ephemeron tables end: every collection returns.     *)
CollectionEnds == pc \in Collecting ~> pc \notin Collecting

\* The heap as the program sees it: what the live objects hold.
LiveRefs  == [o \in Obj |-> IF o \in Live THEN refs[o] \cap Obj ELSE {}]
LiveHash  == [w \in Obj |-> [k \in Obj |->
                IF {w, k} \subseteq Live THEN hash[w][k] ELSE NoObj]]
LiveTable == {e \in oblist : e[2] \in Live}

Abs == INSTANCE ManagedHeap WITH
  alive <- Live, roots <- Roots, refs <- LiveRefs, hash <- LiveHash, table <- LiveTable

(* The collector keeps the promise of ManagedHeap: seen from the program a *)
(* whole collection is the one step that ends its marking.                 *)
KeepsPromise == Abs!Spec
=============================================================================
