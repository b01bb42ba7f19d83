------------------------------- MODULE Market -------------------------------
(***************************************************************************)
(* What the auction house and the mail promise the players: every item has *)
(* one owner, and items and money change hands only as a gift or a sale.   *)
(*                                                                         *)
(* wealth counts what a player would get back: his purse, the money in his *)
(* mails, his open bids and the deposits of his auctions.                  *)
(***************************************************************************)
EXTENDS Integers

CONSTANTS
    Players,    \* the characters
    Items,      \* the items they trade
    Nobody      \* the owner of an item that is not in the game

VARIABLES
    owner,      \* who owns each item
    wealth      \* what each player has

vars == <<owner, wealth>>

Init == /\ owner \in [Items -> Players \cup {Nobody}]
        /\ wealth \in [Players -> Nat]

Gain(p) == wealth'[p] - wealth[p]

\* Nothing of the players outside P changes.
OnlyOf(P) == /\ \A q \in Players \ P : Gain(q) = 0
             /\ \A i \in Items : owner[i] \notin P => owner'[i] = owner[i]

\* p pays a fee, or destroys what is his.
Spend(p) == /\ Gain(p) <= 0
            /\ OnlyOf({p})
            /\ \A i \in Items : owner'[i] \in {owner[i], Nobody}

\* p hands items and money over to q, and may destroy what is his.
Give(p, q) == /\ Gain(q) >= 0
              /\ Gain(p) + Gain(q) <= 0
              /\ OnlyOf({p, q})
              /\ \A i \in Items : /\ owner[i] = p => owner'[i] \in {p, q, Nobody}
                                  /\ owner[i] = q => owner'[i] = q

\* q buys item i from p: what p gets comes out of what q pays.  The buyer may destroy what is
\* his.
Sell(p, q, i) == /\ owner[i] = p /\ owner'[i] = q
                 /\ Gain(p) >= 0 /\ Gain(q) < 0
                 /\ Gain(p) + Gain(q) <= 0
                 /\ OnlyOf({p, q})
                 /\ \A j \in Items \ {i} : /\ owner[j] = p => owner'[j] = p
                                           /\ owner[j] = q => owner'[j] \in {q, Nobody}

Next == \E p \in Players :
           \/ Spend(p)
           \/ \E q \in Players \ {p} : \/ Give(p, q)
                                       \/ \E i \in Items : Sell(p, q, i)

Spec == Init /\ [][Next]_vars
=============================================================================
