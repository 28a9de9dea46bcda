---------------------------- MODULE MCCollector ----------------------------
(***************************************************************************)
(* For TLC: the collector on small heaps of pairs and ephemeron tables,    *)
(* and on small heaps of names, symbols and errors.                        *)
(***************************************************************************)
EXTENDS Collector, TLC

VARIABLE part

PartInit == Init /\ part \in {"objects", "names"}

PartNext ==
  /\ UNCHANGED part
  /\ \/ part = "objects" /\ Next
        /\ op' \in {"none", "pair", "weak", "close"} /\ Len(arena') <= 1
     \/ part = "names" /\ Next /\ op' \notin {"pair", "weak"}

PartSpec == PartInit /\ [][PartNext]_<<vars, part>>

Symmetric == Permutations(Obj)
=============================================================================
