---------------------------- MODULE TableLimits ----------------------------
(***************************************************************************)
(* How large the hash tables may become.  ac_hash_upper of lib/khash.h     *)
(* multiplies the number of buckets by 154 in an int, which overflows from *)
(* 2^24 buckets on; a table of fewer than 2^22 keys has at most 2^23.      *)
(***************************************************************************)
EXTENDS Integers, FiniteSets

CONSTANTS
  Key,    \* the keys of a dictionary: symbols
  Hashes, \* what hashes of keys may be
  MaxOps  \* bound of the runs: operations on a symbol table

ASSUME HashesAreInts == Hashes \subseteq Int

ASSUME FewKeys == IsFiniteSet(Key) /\ Cardinality(Key) < 2 ^ 22

ASSUME FewOps == MaxOps \in Nat /\ MaxOps < 2 ^ 22
=============================================================================
