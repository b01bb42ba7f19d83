------------------------------- MODULE Trade -------------------------------
(***************************************************************************)
(* Trade between two players: the TradeData of each, the handlers of the   *)
(* trade opcodes, and the exchange in HandleAcceptTradeOpcode.             *)
(*                                                                         *)
(* The handlers run on the world thread, movement and spells in the update *)
(* of the map both players are on: one at a time.  An item is a full stack *)
(* and takes one place.  IsInTrade and IsInAcceptProcess are set and       *)
(* cleared within one call and are left out.                               *)
(***************************************************************************)
EXTENDS Integers, FiniteSets, Functions

CONSTANTS
    Players,    \* the players in the world
    Items,      \* the items they may have
    None,       \* no trade, no item
    Gone,       \* the owner of an item that no player has
    NumSlots,   \* TRADE_SLOT_TRADED_COUNT
    MaxMoney,   \* MAX_MONEY_AMOUNT
    Capacity,   \* the places in each player's bags
    Kind,       \* the entry of each item
    MaxCount,   \* how many of a kind a player may have, 0 for any number
    MaxEvents   \* bound: what happens to items and money outside of trades

ASSUME TradeAssumption ==
    /\ NumSlots \in Nat /\ MaxMoney \in Nat /\ Capacity \in [Players -> Nat] /\ MaxEvents \in Nat
    /\ Gone \notin Players /\ None \notin Items

VARIABLES
    online,     \* the players in the world
    trade,      \* Player::m_trade
    owner,      \* who has each item
    bound,      \* the items that CanBeTraded refuses
    gold,       \* PLAYER_FIELD_COINAGE
    lost,       \* items that moveItems could store nowhere
    agreed,     \* what a player saw in both windows when he accepted
    events      \* events outside of trades so far

vars == <<online, trade, owner, bound, gold, lost, agreed, events>>
goods == <<owner, bound, gold, lost>>

Slots == 1..NumSlots
NonTraded == NumSlots + 1
AllSlots == 1..NonTraded

TradeDatas == [trader : Players, accepted : BOOLEAN, money : 0..MaxMoney, spell : BOOLEAN,
               items : [AllSlots -> Items \cup {None}]]

\* A null pointer is no TradeData.
ASSUME NullAssumption == None \notin TradeDatas

TradeData(trader) ==
    [trader |-> trader, accepted |-> FALSE, money |-> 0, spell |-> FALSE,
     items |-> [s \in AllSlots |-> None]]

Has(p, own) == {i \in Items : own[i] = p}

Alike(p, i, own) == Cardinality({j \in Has(p, own) : Kind[j] = Kind[i]})

\* What MaxCount allows of the kind of i.
Limit(i) == IF MaxCount[Kind[i]] = 0 THEN Cardinality(Items) ELSE MaxCount[Kind[i]]

Init == /\ online = Players
        /\ trade = [p \in Players |-> None]
        /\ owner \in {own \in [Items -> Players \cup {Gone}] : \A p \in Players :
                         /\ Cardinality(Has(p, own)) <= Capacity[p]
                         /\ \A i \in Has(p, own) : Alike(p, i, own) <= Limit(i)}
        /\ bound = {}
        /\ gold \in [Players -> 0..MaxMoney]
        /\ lost = {}
        /\ agreed = [p \in Players |-> None]
        /\ events = 0

Trading(p) == trade[p] # None
Trader(p) == trade[p].trader

\* TradeData::GetItem: the item offered, if the player still has it.
GetItem(p, s) == IF trade[p].items[s] \in Has(p, owner) THEN trade[p].items[s] ELSE None

Offered(p) == {GetItem(p, s) : s \in Slots} \ {None}

\* What the windows of a trade show, on either side.
Seen(p) == [x \in {p, Trader(p)} |->
               [items |-> trade[x].items, money |-> trade[x].money, spell |-> trade[x].spell]]

\* The players in A press accept and what they saw is noted; of an acceptance
\* withdrawn nothing is left.
Note(A) == agreed' = [p \in Players |->
    IF trade'[p] = None \/ ~trade'[p].accepted THEN None
    ELSE IF p \in A THEN Seen(p)' ELSE agreed[p]]
-----------------------------------------------------------------------------
(* TradeData: the changes of the offers t.                                 *)

\* SetAccepted(false) for the players in S.
Unaccept(S, t) == [p \in Players |->
    IF p \in S /\ t[p] # None THEN [t[p] EXCEPT !.accepted = FALSE] ELSE t[p]]

SetSpell(p, spell, t) ==
    IF t[p].spell = spell THEN t
    ELSE Unaccept({p, Trader(p)}, [t EXCEPT ![p].spell = spell])

\* Mutant: the other side's acceptance stands.
SetItemUnnoticed(p, s, i, t) ==
    IF t[p].items[s] = i THEN t ELSE Unaccept({p}, [t EXCEPT ![p].items[s] = i])

\* A new item in the slot not traded withdraws the spell meant for the old one.
SetItem(p, s, i, t) ==
    IF t[p].items[s] = i THEN t
    ELSE LET placed == Unaccept({p, Trader(p)}, [t EXCEPT ![p].items[s] = i])
         IN SetSpell(p, FALSE, IF s = NonTraded THEN SetSpell(Trader(p), FALSE, placed) ELSE placed)

SetMoney(p, money, t) ==
    IF t[p].money = money \/ money > gold[p] THEN t
    ELSE Unaccept({p, Trader(p)}, [t EXCEPT ![p].money = money])
-----------------------------------------------------------------------------
(* The handlers that open, change and close a trade.                       *)

HandleInitiateTradeOpcode(p, q) ==
    /\ p # q /\ {p, q} \subseteq online /\ ~Trading(p) /\ ~Trading(q)
    /\ trade' = [trade EXCEPT ![p] = TradeData(q), ![q] = TradeData(p)]
    /\ Note({})
    /\ UNCHANGED <<online, goods, events>>

\* An item is offered once only, and one bound to the player not at all.
HandleSetTradeItemOpcode(p, s, i) ==
    /\ Trading(p)
    /\ i \in Has(p, owner) /\ (s # NonTraded => i \notin bound)
    /\ \A r \in AllSlots : trade[p].items[r] # i
    /\ trade' = SetItem(p, s, i, trade)
    /\ Note({})
    /\ UNCHANGED <<online, goods, events>>

HandleClearTradeItemOpcode(p, s) ==
    /\ Trading(p)
    /\ trade' = SetItem(p, s, None, trade)
    /\ Note({})
    /\ UNCHANGED <<online, goods, events>>

HandleSetTradeGoldOpcode(p, money) ==
    /\ Trading(p)
    /\ trade' = SetMoney(p, money, trade)
    /\ Note({})
    /\ UNCHANGED <<online, goods, events>>

\* Spell::CheckCast on the slot not traded: the spell waits for the exchange.
CheckCast(p) ==
    /\ Trading(p)
    /\ trade' = SetSpell(p, TRUE, trade)
    /\ Note({})
    /\ UNCHANGED <<online, goods, events>>

HandleUnacceptTradeOpcode(p) ==
    /\ Trading(p)
    /\ trade' = Unaccept({p}, trade)
    /\ Note({})
    /\ UNCHANGED <<online, goods, events>>

\* Mutant: only the own TradeData is deleted.
CloseOwn(p) == trade' = [trade EXCEPT ![p] = None] /\ Note({})

CloseTrade(p) == /\ trade' = IF Trading(p) THEN [trade EXCEPT ![p] = None, ![Trader(p)] = None]
                                           ELSE trade
                 /\ Note({})

\* TradeCancel: by opcode, by moving away, by a taxi.
TradeCancel(p) ==
    /\ Trading(p)
    /\ CloseTrade(p)
    /\ UNCHANGED <<online, goods, events>>

\* CleanupsBeforeDelete, and the return of the player.
CleanupsBeforeDelete(p) ==
    /\ p \in online
    /\ online' = online \ {p}
    /\ CloseTrade(p)
    /\ UNCHANGED <<goods, events>>

Return(p) ==
    /\ p \notin online
    /\ online' = online \cup {p}
    /\ UNCHANGED <<trade, goods, agreed, events>>
-----------------------------------------------------------------------------
(* What fits into the bags.                                                *)

\* _CanTakeMoreSimilarItems.
CanTakeMore(p, i, own) == Alike(p, i, own) < Limit(i)

CanStoreItem(p, i, own) == CanTakeMore(p, i, own) /\ Cardinality(Has(p, own)) < Capacity[p]

\* The places of the items in trade count as free; each item is compared with
\* MaxCount by itself.
CanStoreItems(p) ==
    /\ \A i \in Offered(Trader(p)) : CanTakeMore(p, i, owner)
    /\ Cardinality(Has(p, owner) \ Offered(p)) + Cardinality(Offered(Trader(p))) <= Capacity[p]

Put(i, p, own) == IF i = None THEN own ELSE [own EXCEPT ![i] = p]

\* The items of the kind of i that are not in the game.
Fresh(i, own) == {j \in Items \ lost : owner[j] = Gone /\ own[j] = Gone /\ Kind[j] = Kind[i]}

\* Another item of the kind of i comes to player r, if there is one (bound: Items).
CloneItem(i, r, own) ==
    IF Fresh(i, own) = {} THEN own ELSE Put(CHOOSE j \in Fresh(i, own) : TRUE, r, own)

\* Player r gets item i back.  If a place is noted already, which was found for the other item of
\* the slot, another one is added to it; StoreItem puts a clone of i into the first and i into the
\* second.
GiveBack(i, r, noted, own) ==
    LET places == IF noted THEN 2 ELSE 1
    IN IF i = None \/ ~CanTakeMore(r, i, own) \/ Cardinality(Has(r, own)) + places > Capacity[r]
       THEN own
       ELSE Put(i, r, IF noted THEN CloneItem(i, r, own) ELSE own)

\* moveItems, one slot: both items change hands, or both are given back.
MoveSlot(p, x, y, own) ==
    LET q == Trader(p)
        found(r, i) == i # None /\ CanStoreItem(r, i, own)
        fits(r, i) == i = None \/ found(r, i)
    IN IF fits(q, x) /\ fits(p, y) THEN Put(y, p, Put(x, q, own))
       ELSE GiveBack(y, q, found(q, x), GiveBack(x, p, found(p, y), own))

\* Remove all items, then moveItems, one slot after the other.
Moved(p) ==
    LET offers == Offered(p) \cup Offered(Trader(p))
        after[s \in 0..NumSlots] ==
            IF s = 0 THEN [i \in Items |-> IF i \in offers THEN Gone ELSE owner[i]]
            ELSE MoveSlot(p, GetItem(p, s), GetItem(Trader(p), s), after[s - 1])
    IN after

MoveItems(p) == Moved(p)[NumSlots]

\* Mutant: money is added without regard to the limit.
ModifyMoneyUnlimited(money, d) == money + d

ModifyMoney(money, d) ==
    IF d < 0 THEN IF money > -d THEN money + d ELSE 0
    ELSE IF money < MaxMoney - d THEN money + d ELSE MaxMoney
-----------------------------------------------------------------------------
(* HandleAcceptTradeOpcode, an action for each of its outcomes.            *)

Accepted(p) == [trade EXCEPT ![p].accepted = TRUE]

\* Mutant: only the own money is compared.
CanPayUnseen(p) == TRUE

CanPay(p) == trade[p].money <= gold[p]

\* Too far away, or not enough money.
AcceptRefused(p) ==
    /\ Trading(p)
    /\ trade' = Unaccept({p}, trade)
    /\ Note({})
    /\ UNCHANGED <<online, goods, events>>

TraderCannotPay(p) ==
    /\ Trading(p) /\ CanPay(p) /\ ~CanPay(Trader(p))
    /\ trade' = Unaccept({Trader(p)}, Accepted(p))
    /\ Note({p})
    /\ UNCHANGED <<online, goods, events>>

Payable(p) == Trading(p) /\ CanPay(p) /\ CanPay(Trader(p))

Tradable(p) == (Offered(p) \cup Offered(Trader(p))) \cap bound = {}

\* The first to accept; or a bound item, which leaves the acceptance standing.
AcceptAlone(p) ==
    /\ Payable(p)
    /\ Tradable(p) => ~trade[Trader(p)].accepted
    /\ trade' = Accepted(p)
    /\ Note({p})
    /\ UNCHANGED <<online, goods, events>>

BothAccept(p) == Payable(p) /\ Tradable(p) /\ trade[Trader(p)].accepted

\* A spell has its item; whether it can be cast is left open.
SpellHasItem(p) == trade[p].spell => GetItem(Trader(p), NonTraded) # None

SpellFails(p) ==
    /\ BothAccept(p)
    /\ \/ trade[p].spell /\ trade' = SetSpell(p, FALSE, Accepted(p))
       \/ /\ trade[Trader(p)].spell /\ SpellHasItem(p)
          /\ trade' = SetSpell(Trader(p), FALSE, Accepted(p))
    /\ Note({})
    /\ UNCHANGED <<online, goods, events>>

\* Mutant: whether the items fit is not tested.
FitsUntested(p) == TRUE

Fits(p) == CanStoreItems(p) /\ CanStoreItems(Trader(p))

NoSpace(p) ==
    /\ BothAccept(p) /\ SpellHasItem(p) /\ SpellHasItem(Trader(p)) /\ ~Fits(p)
    /\ trade' = Unaccept({p, Trader(p)}, trade)
    /\ Note({})
    /\ UNCHANGED <<online, goods, events>>

ExecuteTrade(p) ==
    /\ BothAccept(p) /\ SpellHasItem(p) /\ SpellHasItem(Trader(p)) /\ Fits(p)
    /\ LET q == Trader(p)
           give == trade[p].money
           get == trade[q].money
       IN /\ gold' = [gold EXCEPT ![p] = ModifyMoney(ModifyMoney(@, -give), get),
                                  ![q] = ModifyMoney(ModifyMoney(@, -get), give)]
          /\ owner' = MoveItems(p)
          /\ lost' = lost \cup {i \in Offered(p) \cup Offered(q) : owner'[i] = Gone}
    /\ CloseTrade(p)
    /\ UNCHANGED <<online, bound, events>>

HandleAcceptTradeOpcode(p) == \/ AcceptRefused(p) \/ TraderCannotPay(p) \/ AcceptAlone(p)
                              \/ SpellFails(p) \/ NoSpace(p) \/ ExecuteTrade(p)
-----------------------------------------------------------------------------
(* Outside of trades: items are used up or sent away, come by mail, are    *)
(* bound to the player, and money comes and goes; none of this looks at a  *)
(* trade.                                                                  *)

Event == events < MaxEvents /\ events' = events + 1

UseUp(i) == /\ Event /\ owner[i] \in online
            /\ owner' = [owner EXCEPT ![i] = Gone]
            /\ UNCHANGED <<online, trade, bound, gold, lost, agreed>>

Find(p, i) == /\ Event /\ p \in online
              /\ owner[i] = Gone /\ i \notin lost /\ CanStoreItem(p, i, owner)
              /\ owner' = [owner EXCEPT ![i] = p]
              /\ UNCHANGED <<online, trade, bound, gold, lost, agreed>>

Bind(i) == /\ Event /\ owner[i] \in online
           /\ bound' = bound \cup {i}
           /\ UNCHANGED <<online, trade, owner, gold, lost, agreed>>

MoneyChanges(p) == /\ Event /\ p \in online
                   /\ \E money \in 0..MaxMoney : gold' = [gold EXCEPT ![p] = money]
                   /\ UNCHANGED <<online, trade, owner, bound, lost, agreed>>

Next == \/ \E p, q \in Players : HandleInitiateTradeOpcode(p, q)
        \/ \E p \in Players, s \in AllSlots, i \in Items : HandleSetTradeItemOpcode(p, s, i)
        \/ \E p \in Players, s \in AllSlots : HandleClearTradeItemOpcode(p, s)
        \/ \E p \in Players, money \in 0..MaxMoney : HandleSetTradeGoldOpcode(p, money)
        \/ \E p \in Players : \/ CheckCast(p) \/ HandleUnacceptTradeOpcode(p) \/ TradeCancel(p)
                              \/ CleanupsBeforeDelete(p) \/ Return(p) \/ MoneyChanges(p)
                              \/ HandleAcceptTradeOpcode(p)
        \/ \E i \in Items : UseUp(i) \/ Bind(i) \/ \E p \in Players : Find(p, i)

Spec == Init /\ [][Next]_vars
-----------------------------------------------------------------------------
(* Properties.                                                             *)

TypeOK ==
    /\ online \in SUBSET Players
    /\ trade \in [Players -> TradeDatas \cup {None}]
    /\ owner \in [Items -> Players \cup {Gone}]
    /\ bound \in SUBSET Items /\ lost \in SUBSET Items
    /\ gold \in [Players -> 0..MaxMoney]
    /\ events \in 0..MaxEvents

\* Both sides of a trade exist while one does, and point at each other:
\* GetTraderData() is used everywhere without a test.
TradesPaired ==
    \A p \in Players : Trading(p) =>
        /\ {p, Trader(p)} \subseteq online /\ Trader(p) # p
        /\ Trading(Trader(p)) /\ Trader(Trader(p)) = p

\* An acceptance never outlives a change of either window: whoever counts as
\* having accepted saw exactly the items, the money and the spells offered now.
AcceptanceIsCurrent ==
    \A p \in Players : Trading(p) => (trade[p].accepted => agreed[p] = Seen(p))

\* An exchange needs the acceptance of the other side, and is whole: every item
\* offered that its owner still has changes hands, no other does, and the money
\* of both sides, up to the limit of a purse.
ExchangeIsWhole ==
    [][\A p \in Players : Trading(p) /\ trade'[p] = None /\ goods' # goods =>
          /\ trade[p].accepted \/ trade[Trader(p)].accepted
          /\ \A i \in Items : owner'[i] = IF i \in Offered(p) THEN Trader(p)
                                          ELSE IF i \in Offered(Trader(p)) THEN p ELSE owner[i]
          /\ LET sum == gold[p] - trade[p].money + trade[Trader(p)].money
             IN gold'[p] = IF sum < MaxMoney THEN sum ELSE MaxMoney]_vars

\* "test if item will fit in each inventory", and items that do not are returned "to the original
\* owner": an exchange loses no item and makes none.
ItemsAreKept ==
    [][\A p \in Players : Trading(p) /\ trade'[p] = None =>
          \A i \in Items : owner'[i] = Gone <=> owner[i] = Gone]_vars
=============================================================================
