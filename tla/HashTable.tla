----------------------------- MODULE HashTable -----------------------------
(***************************************************************************)
(* The open-addressing hash tables of lib/khash.h, which hold              *)
(* dictionaries, ephemeron tables, environments and the symbol table.  A   *)
(* bucket is empty, deleted or live; a probe starts at the key's hash and  *)
(* makes longer and longer steps, past deleted buckets, to an empty one.   *)
(* Tables are records.  H is what KHASH_DEFINE is given for a type of      *)
(* keys: H.hash[k] is the hash of k, and two keys are equal when H.name    *)
(* says the same of both; either may change where keys can be written to.  *)
(* What memory still holds in buckets that are not live is left out: the   *)
(* code reads keys and values of live buckets only.                        *)
(***************************************************************************)
EXTENDS Integers, FiniteSets, FiniteSetsExt

CONSTANT Null \* what a bucket that is not live holds

ac_roundup32(x) == Min({2 ^ e : e \in {i \in 0 .. 30 : 2 ^ i >= x}})

ac_hash_upper(n) == (((n * 2) * 77) \div 100 + 1) \div 2

kh_init == [n_buckets |-> 0, size |-> 0, n_occupied |-> 0, upper_bound |-> 0,
            flags |-> <<>>, keys |-> <<>>, vals |-> <<>>]

Live(t) == {i \in DOMAIN t.flags : t.flags[i] = "live"}

\* The bucket at step s of the probe from hash h in a table of n buckets.
Probe(n, h, s) == (h + (s * (s + 1)) \div 2) % n

\* The first step of a probe at which P.
First(n, P(_)) == CHOOSE s \in 0 .. 2 * n - 1 : P(s) /\ \A r \in 0 .. s - 1 : ~P(r)

\* The step at which a search for a key ends: at an empty bucket, at the key,
\* or where it began.
Ends(H, t, key) ==
  LET h == H.hash[key]
      at(s) == Probe(t.n_buckets, h, s)
      Stops(s) == \/ t.flags[at(s)] = "empty"
                  \/ t.flags[at(s)] = "live" /\ H.name[t.keys[at(s)]] = H.name[key]
                  \/ s > 0 /\ at(s) = at(0)
  IN  First(t.n_buckets, Stops)

kh_get(H, t, key) ==
  IF t.n_buckets = 0 THEN 0
  ELSE LET s == Ends(H, t, key)
           i == Probe(t.n_buckets, H.hash[key], s)
       IN  IF (s > 0 /\ i = Probe(t.n_buckets, H.hash[key], 0)) \/ t.flags[i] # "live"
           THEN t.n_buckets ELSE i

-----------------------------------------------------------------------------
\* The first bucket that is free for a key in a new table.
Slot(H, new, key) ==
  LET m == Cardinality(DOMAIN new)
      h == H.hash[key]
      at(s) == Probe(m, h, s)
      Free(s) == new[at(s)] = "empty"
  IN  at(First(m, Free))

\* Mutant: what lived in the bucket is not carried on.
KickOver(H, st) ==
  LET i == Slot(H, st.new, st.key)
  IN  [st EXCEPT !.new[i] = "live", !.keys[i] = st.key, !.vals[i] = st.val, !.done = TRUE]

\* One round of the kick-out process: st.key goes into the first bucket free
\* in the new table; what lived there in the old one is carried on.
KickOut(H, st) ==
  LET i == Slot(H, st.new, st.key)
      kicked == i \in DOMAIN st.flags /\ st.flags[i] = "live"
      put == [st EXCEPT !.new[i] = "live", !.keys[i] = st.key, !.vals[i] = st.val]
  IN  IF kicked
      THEN [put EXCEPT !.flags[i] = "deleted", !.key = st.keys[i], !.val = st.vals[i]]
      ELSE [put EXCEPT !.done = TRUE]

\* One step of the rehashing: carry on, or take out what the next bucket
\* holds, or pass it.
Rehash(H, st) ==
  IF ~st.done THEN KickOut(H, st)
  ELSE IF st.j \notin DOMAIN st.flags THEN st
  ELSE IF st.flags[st.j] = "live"
  THEN [st EXCEPT !.flags[st.j] = "deleted", !.key = st.keys[st.j],
                  !.val = st.vals[st.j], !.done = FALSE, !.j = @ + 1]
  ELSE [st EXCEPT !.j = @ + 1]

Grown(f, n) == [i \in 0 .. n - 1 |-> IF i \in DOMAIN f THEN f[i] ELSE Null]

\* The rehashing of a table into n buckets: as it begins, and as it ends, once
\* every bucket is passed and every key put.
Unmoved(t, n) ==
  LET all == Max({n, t.n_buckets})
  IN  [flags |-> t.flags, new |-> [i \in 0 .. n - 1 |-> "empty"],
       keys |-> Grown(t.keys, all), vals |-> Grown(t.vals, all),
       j |-> 0, key |-> Null, val |-> Null, done |-> TRUE]

Moved(H, t, n) ==
  LET moved[k \in 0 .. t.n_buckets + t.size] ==
        IF k = 0 THEN Unmoved(t, n) ELSE Rehash(H, moved[k - 1])
  IN  moved[t.n_buckets + t.size]

\* The part of an array where the new table lives.
Kept(f, flags) == [i \in DOMAIN flags |-> IF flags[i] = "live" THEN f[i] ELSE Null]

\* The table once all keys have moved.
Resized(t, n, st) ==
  [n_buckets |-> n, size |-> t.size, n_occupied |-> t.size,
   upper_bound |-> ac_hash_upper(n), flags |-> st.new,
   keys |-> Kept(st.keys, st.new), vals |-> Kept(st.vals, st.new)]

kh_resize(H, t, size) ==
  LET n == Max({ac_roundup32(size), 4})
  IN  IF t.size >= ac_hash_upper(n) THEN t ELSE Resized(t, n, Moved(H, t, n))

\* Mutant: the limit is reached by live keys only.
RoomBySize(H, t) ==
  IF t.size < t.upper_bound THEN t
  ELSE kh_resize(H, t, t.n_buckets + 1)

\* What kh_put does first: make room, or clear out the deleted buckets.
MakeRoom(H, t) ==
  IF t.n_occupied < t.upper_bound THEN t
  ELSE kh_resize(H, t, IF t.n_buckets > 2 * t.size THEN t.n_buckets - 1
                          ELSE t.n_buckets + 1)

\* Mutant: the first deleted bucket passed is taken before the key is looked for.
SiteEager(H, t, key) ==
  LET h == H.hash[key]
      at(s) == Probe(t.n_buckets, h, s)
      Usable(s) == t.flags[at(s)] # "live" \/ H.name[t.keys[at(s)]] = H.name[key]
  IN  at(First(t.n_buckets, Usable))

\* Where a key goes: where it is, or else in the last deleted bucket passed,
\* or else in the empty one found.
Site(H, t, key) ==
  LET h == H.hash[key]
      at(s) == Probe(t.n_buckets, h, s)
      s == Ends(H, t, key)
      passed == {r \in 0 .. s - 1 : t.flags[at(r)] = "deleted"}
      around == s > 0 /\ at(s) = at(0)
  IN  IF passed # {} /\ (around \/ t.flags[at(s)] = "empty")
      THEN at(Max(passed)) ELSE at(s)

\* The table, the bucket and what kh_put reports: 0 the key was there,
\* 1 it is in a new bucket, 2 in one that had been deleted.
PutAt(t, key, x) ==
  LET ret == CASE t.flags[x] = "empty" -> 1 [] t.flags[x] = "deleted" -> 2 [] OTHER -> 0
  IN  [x |-> x, ret |-> ret,
       t |-> IF ret = 0 THEN t
             ELSE [t EXCEPT !.keys[x] = key, !.flags[x] = "live", !.size = @ + 1,
                            !.n_occupied = IF ret = 1 THEN @ + 1 ELSE @]]

kh_put(H, t0, key) ==
  LET t == MakeRoom(H, t0) IN PutAt(t, key, Site(H, t, key))

kh_del(t, x) ==
  IF x # t.n_buckets /\ t.flags[x] = "live"
  THEN [t EXCEPT !.flags[x] = "deleted", !.size = @ - 1,
                 !.keys[x] = Null, !.vals[x] = Null] ELSE t

-----------------------------------------------------------------------------
\* The counts are true, and some bucket is empty, so that every probe ends.
Sound(t) ==
  /\ t.size = Cardinality(Live(t))
  /\ t.n_occupied = Cardinality({i \in DOMAIN t.flags : t.flags[i] # "empty"})
  /\ t.n_buckets > 0 => t.n_occupied < t.n_buckets
=============================================================================
