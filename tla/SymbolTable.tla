---------------------------- MODULE SymbolTable ----------------------------
(***************************************************************************)
(* The symbol table (lib/symbol.c, the sweep of lib/gc.c): a hash table    *)
(* from the texts of names to symbols.  Its keys are the very strings that *)
(* symbol->string gives the program, which may write into them: a key then *)
(* lies where its hash no longer leads, and string->symbol may make        *)
(* another symbol of the same string.                                      *)
(***************************************************************************)
EXTENDS TableLimits, HashTable

CONSTANTS
  String, \* string objects of the program
  Text    \* what they may read

VARIABLES
  hashOf,  \* the hash of each text
  oblist,  \* the table
  reads,   \* what each string reads
  written, \* strings written into since they became names
  held,    \* symbols the program holds
  ops      \* operations so far

symbolVars == <<hashOf, oblist, reads, written, held, ops>>

\* Keys are strings: hashed and compared by what they read now.
ByText == [hash |-> [s \in String |-> hashOf[reads[s]]], name |-> reads]

\* kh_del at each of some live buckets.
Swept(t, dead) ==
  [t EXCEPT !.flags = [i \in DOMAIN t.flags |-> IF i \in dead THEN "deleted" ELSE t.flags[i]],
            !.keys = [i \in DOMAIN t.keys |-> IF i \in dead THEN Null ELSE t.keys[i]],
            !.vals = [i \in DOMAIN t.vals |-> IF i \in dead THEN Null ELSE t.vals[i]],
            !.size = @ - Cardinality(dead)]

Symbols == {oblist.vals[i] : i \in Live(oblist)}

\* Symbols are objects: those named by one string are told apart by a number.
SymbolOf == [name : String, nth : Nat]

-----------------------------------------------------------------------------
SymbolInit ==
  /\ hashOf \in [Text -> Hashes] /\ reads \in [String -> Text]
  /\ oblist = kh_init /\ written = {} /\ held = {} /\ ops = 0

\* The new symbol of this name: the first that is not in the table.
Allocated(s) ==
  LET free == {k \in 0 .. ops : [name |-> s, nth |-> k] \notin Symbols}
  IN  {[name |-> s, nth |-> k] : k \in {j \in free : \A i \in free : j <= i}}

\* string->symbol
pic_intern(s) ==
  LET p == kh_put(ByText, oblist, s)
  IN  \E sym \in IF p.ret = 0 THEN {p.t.vals[p.x]} ELSE Allocated(s) :
        /\ oblist' = [p.t EXCEPT !.vals[p.x] = sym]
        /\ held' = held \cup {sym}
        /\ UNCHANGED <<hashOf, reads, written>>

\* string-set!, on a name or on any other string.
StringSet(s, t) ==
  /\ reads' = [reads EXCEPT ![s] = t]
  /\ written' = IF \E sym \in Symbols : sym.name = s THEN written \cup {s} ELSE written
  /\ UNCHANGED <<hashOf, oblist, held>>

Forget ==
  /\ \E sym \in held : held' = held \ {sym}
  /\ UNCHANGED <<hashOf, oblist, reads, written>>

\* gc_sweep_phase takes the dead symbols out, bucket by bucket.
SweepSymbols ==
  LET dead == {i \in Live(oblist) : oblist.vals[i] \notin held}
  IN  /\ dead # {}
      /\ oblist' = Swept(oblist, dead)
      /\ written' = written \cap {sym.name : sym \in held}
      /\ UNCHANGED <<hashOf, reads, held>>

SymbolNext ==
  /\ ops < MaxOps /\ ops' = ops + 1
  /\ \/ \E s \in String : pic_intern(s) \/ \E t \in Text : StringSet(s, t)
     \/ Forget
     \/ SweepSymbols

SymbolSpec == SymbolInit /\ [][SymbolNext]_symbolVars

-----------------------------------------------------------------------------
(* Whatever is written into the names of other symbols, a symbol with an   *)
(* untouched name is the one that string->symbol finds for its text, as    *)
(* long as no overwritten name bears the same text; no symbol that the     *)
(* program holds leaves the table, and probes of the table end.            *)
SymbolsKeep ==
  /\ held \subseteq Symbols /\ Sound(oblist)
  /\ \A sym \in held :
       sym.name \notin written /\ (\A w \in written : reads[w] # reads[sym.name]) =>
         LET i == kh_get(ByText, oblist, sym.name)
         IN  i # oblist.n_buckets /\ oblist.vals[i] = sym
=============================================================================
