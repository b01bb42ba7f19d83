------------------------------ MODULE MCTrade ------------------------------
(* Instances of Trade for TLC.                                             *)
EXTENDS Trade, TLC

CONSTANTS alice, bob, x1, x2, x3, y1, y2

\* Alice has one place less than bob.
Places == [p \in Players |-> IF p = alice THEN 2 ELSE 3]

Kinds == [i \in Items |-> IF i \in {x1, x2, x3} THEN "x" ELSE "y"]

\* Any number of anything.
NoMaxCount == [k \in {"x", "y"} |-> 0]

\* At most two of the first kind.
TwoOfX == [k \in {"x", "y"} |-> IF k = "x" THEN 2 ELSE 0]

\* Items of a kind are interchangeable.
ItemSymmetry == Permutations({x1, x2, x3} \cap Items)
=============================================================================
