---------------------------- MODULE Dictionaries ---------------------------
(***************************************************************************)
(* Dictionaries (lib/dict.c): a hash table keyed by the addresses of       *)
(* symbols.  dictionary-map and dictionary-for-each keep an index into the *)
(* table while the procedure they call may set and delete keys of the same *)
(* dictionary.                                                             *)
(***************************************************************************)
EXTENDS TableLimits, HashTable, Sequences, SequencesExt, TLC

\* The keys are symbols; Hashes is what addresses they may have.
CONSTANT Val \* values

VARIABLES
  hash,  \* the address of each symbol
  dict,  \* the table
  walk   \* a dictionary-for-each in progress

vars == <<hash, dict, walk>>

\* Keys are symbols: hashed by address, equal when they are the same.
Table == [hash |-> hash, name |-> [k \in Key |-> k]]

\* "at" is the index kept; "seen" the keys the procedure was called with,
\* "goal" those it should be: the keys at the start but for those deleted
\* before they were seen.  "quiet" until the procedure sets a key; "again"
\* when a key is seen twice before that.
NoWalk == [on |-> FALSE, at |-> 0, seen |-> {}, goal |-> {}, quiet |-> TRUE, again |-> FALSE]
Disturbed(w) == IF w.on THEN [NoWalk EXCEPT !.on = TRUE, !.at = w.at, !.quiet = FALSE] ELSE w

Ref(t, k) == kh_get(Table, t, k)
Has(t, k) == Ref(t, k) # t.n_buckets

\* pic_dict_set
Set(t, k, v) ==
  LET write(p) == [p.t EXCEPT !.vals[p.x] = v] IN write(kh_put(Table, t, k))

\* Mutant: the search begins one bucket late.
NextAfter(t, at) == Min({i \in Live(t) : i > at} \cup {t.n_buckets})

\* The index of the next key that pic_dict_next finds, or the table's end.
NextAt(t, at) == Min({i \in Live(t) : i >= at} \cup {t.n_buckets})

Keys(t) == {t.keys[i] : i \in Live(t)}

-----------------------------------------------------------------------------
Init == /\ hash \in [Key -> Hashes] /\ dict = kh_init /\ walk = NoWalk

DictionarySet(k, v) ==
  /\ dict' = Set(dict, k, v)
  /\ walk' = Disturbed(walk)
  /\ UNCHANGED hash

\* dictionary-delete!, which reports an error when the key is not there.
DictionaryDelete(k) ==
  /\ Has(dict, k)
  /\ dict' = kh_del(dict, Ref(dict, k))
  /\ walk' = [walk EXCEPT !.goal = IF k \in walk.seen THEN @ ELSE @ \ {k}]
  /\ UNCHANGED hash

ForEachStart ==
  /\ ~walk.on
  /\ walk' = [NoWalk EXCEPT !.on = TRUE, !.goal = Keys(dict)]
  /\ UNCHANGED <<hash, dict>>

\* pic_dict_next finds a key and the procedure is called with it.  What it
\* does until the next round are steps of the other actions.
ForEachCall ==
  LET i == NextAt(dict, walk.at)
  IN  /\ walk.on /\ i # dict.n_buckets
      /\ walk' = [walk EXCEPT !.at = i + 1,
                    !.seen  = IF walk.quiet THEN @ \cup {dict.keys[i]} ELSE @,
                    !.again = @ \/ dict.keys[i] \in walk.seen]
      /\ UNCHANGED <<hash, dict>>

ForEachEnd ==
  /\ walk.on /\ NextAt(dict, walk.at) = dict.n_buckets
  /\ walk' = NoWalk
  /\ UNCHANGED <<hash, dict>>

Next ==
  \/ \E k \in Key : DictionaryDelete(k) \/ \E v \in Val : DictionarySet(k, v)
  \/ ForEachStart \/ ForEachCall \/ ForEachEnd

Spec == Init /\ [][Next]_vars

-----------------------------------------------------------------------------
\* dictionary->alist and back.
Alist(t) == Reverse([n \in 1 .. Cardinality(Live(t)) |->
              LET i == CHOOSE i \in Live(t) : Cardinality({j \in Live(t) : j < i}) = n - 1
              IN  <<t.keys[i], t.vals[i]>>])

Dictionary(alist) ==
  FoldLeft(LAMBDA t, e : Set(t, e[1], e[2]), kh_init, Reverse(alist))

(* What dictionary-ref finds, and where it finds nothing, is a finite map, *)
(* and setting and deleting a key change it at that key alone, whatever    *)
(* the deleted buckets on the way, a rehash in place or an expansion.      *)
Found(t) == LET at == [k \in Key |-> Ref(t, k)]
            IN  [k \in {j \in Key : at[j] # t.n_buckets} |-> t.vals[at[k]]]
Map == INSTANCE FiniteMap WITH map <- Found(dict)
ImplementsMap == Map!Spec

(* A probe ends: some bucket is empty however long keys are set and        *)
(* deleted; and the counts that decide when to make room are true.         *)
ProbesEnd == Sound(dict)

(* dictionary->alist lists what dictionary-ref finds, each key once, and   *)
(* alist->dictionary makes the same dictionary of it.                      *)
ListsWhatIsFound ==
  LET a == Alist(dict)
      back == Dictionary(a)
  IN  /\ Len(a) = Cardinality(DOMAIN Found(dict))
      /\ Range(a) = {<<k, Found(dict)[k]>> : k \in DOMAIN Found(dict)}
      /\ Found(back) = Found(dict) /\ Sound(back)

(* As long as the procedure sets no key, dictionary-for-each calls it once *)
(* with each key that was there and was not deleted first, whatever the    *)
(* procedure deletes.                                                      *)
CalledOnce ==
  walk.on /\ walk.quiet =>
    /\ ~walk.again /\ walk.seen \subseteq walk.goal
    /\ NextAt(dict, walk.at) = dict.n_buckets => walk.seen = walk.goal

(* A key is listed once by dictionary->alist and by dictionary-for-each.   *)
EachOnce == ListsWhatIsFound /\ CalledOnce
=============================================================================
