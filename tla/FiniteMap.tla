----------------------------- MODULE FiniteMap -----------------------------
(***************************************************************************)
(* What a dictionary promises its program: a finite map, which setting a   *)
(* key and deleting one change at that key alone.                          *)
(***************************************************************************)
CONSTANTS Key, Val
VARIABLE map

Init == map = [k \in {} |-> Val]

Set(k, v) == map' = [j \in DOMAIN map \cup {k} |-> IF j = k THEN v ELSE map[j]]

Delete(k) == k \in DOMAIN map /\ map' = [j \in DOMAIN map \ {k} |-> map[j]]

Next == \E k \in Key : Delete(k) \/ \E v \in Val : Set(k, v)

Spec == Init /\ [][Next]_map
=============================================================================
