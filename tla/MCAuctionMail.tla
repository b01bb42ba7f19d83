---------------------------- MODULE MCAuctionMail ----------------------------
(* Instances of AuctionMail for TLC.                                       *)
EXTENDS AuctionMail, TLC

CONSTANTS ann, bea, cid, ring, crown

Deposits1 == [i \in Items |-> IF i = ring THEN 1 ELSE 9]

Purses(a, b, c) == [p \in Players |-> IF p = ann THEN a ELSE IF p = bea THEN b ELSE c]

Only(i) == [j \in Items |-> IF j = i THEN ann ELSE None]

\* Ann sells the ring to bidders who can pay it, or sends the crown, for which nobody can pay the
\* deposit.  With a Half of 7 and a postage of 4, a mail of 13 costs 3.
Fortunes == {[gold |-> Purses(1, 2, 2), holder |-> Only(ring)],
             [gold |-> Purses(5, 3, 0), holder |-> Only(crown)],
             [gold |-> Purses(5, 0, 3), holder |-> Only(crown)]}

Others == Permutations({bea, cid})
=============================================================================
