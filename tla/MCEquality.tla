---------------------------- MODULE MCEquality -----------------------------
(* For TLC: lists in lists, deeper than internal_equal_p looks for cycles. *)
EXTENDS Equality

\* Two lists d pairs deep, with different atoms inside.
Nested(d) == [o \in 1 .. 2 * d |->
                [type |-> "pair",
                 parts |-> <<IF o > 2 * d - 2 THEN -1 - (o % 2) ELSE o + 2, Nil>>]]

Deep == {Nested(d) : d \in 2 .. 12}
=============================================================================
