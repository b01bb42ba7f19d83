---------------------------- MODULE TradeProofs -----------------------------
(***************************************************************************)
(* Theorems about Trade, for every set of players and items and every size *)
(* of the windows: types, trades are paired, acceptances are current, and  *)
(* the exchange is whole.                                                  *)
(*                                                                         *)
(* The handlers that change an offer only ever do so quietly: the trades   *)
(* stay as they are, and whoever still counts as having accepted sees what *)
(* he saw before.  That relation is transitive, so each helper of TradeData*)
(* is shown quiet once and the handlers follow.                            *)
(*                                                                         *)
(* Of the exchange, moveItems is followed slot by slot: by induction the   *)
(* owners after s slots are those before with the first s offers handed    *)
(* over, for what canStoreItemsInTrade has counted leaves each of them its *)
(* place.                                                                  *)
(***************************************************************************)
EXTENDS Trade, FiniteSetTheorems, Recursion, TLAPS

Offers == [Players -> TradeDatas \cup {None}]

\* What the invariant needs to know of the types.
TradeType == online \in SUBSET Players /\ trade \in Offers

\* The trades t are paired among the players of S.
Paired(t, S) ==
    \A p \in Players : t[p] # None =>
        LET q == t[p].trader IN p \in S /\ q \in S /\ q # p /\ t[q] # None /\ t[q].trader = p

\* The offers u are those of t, of the same trades.
SameTrades(t, u) ==
    \A p \in Players : /\ u[p] = None <=> t[p] = None
                       /\ t[p] # None => u[p].trader = t[p].trader

\* What p offers is the same in t and in u.
SameOffer(t, u, p) ==
    u[p].items = t[p].items /\ u[p].money = t[p].money /\ u[p].spell = t[p].spell

\* From t to u nobody but the players in A has newly accepted, and whoever
\* still accepts sees the same in both windows.
Quiet(A, t, u) ==
    /\ u \in Offers
    /\ SameTrades(t, u)
    /\ \A p \in Players \ A : u[p] # None /\ u[p].accepted =>
          t[p].accepted /\ SameOffer(t, u, p) /\ SameOffer(t, u, t[p].trader)

IInv == TradeType /\ TradesPaired /\ AcceptanceIsCurrent
-----------------------------------------------------------------------------
(* The records of a trade.                                                 *)

\* A trade has its fields, and keeps the others when one is written.
LEMMA Fields ==
    ASSUME NEW d \in TradeDatas
    PROVE  /\ d # None
           /\ d.trader \in Players /\ d.accepted \in BOOLEAN /\ d.money \in 0..MaxMoney
           /\ d.spell \in BOOLEAN /\ d.items \in [AllSlots -> Items \cup {None}]
BY NullAssumption DEF TradeDatas

LEMMA WriteAccepted ==
    ASSUME NEW d \in TradeDatas, NEW b \in BOOLEAN
    PROVE  LET e == [d EXCEPT !.accepted = b] IN
             /\ e \in TradeDatas /\ e.trader = d.trader /\ e.accepted = b
             /\ e.money = d.money /\ e.spell = d.spell /\ e.items = d.items
BY DEF TradeDatas

LEMMA WriteMoney ==
    ASSUME NEW d \in TradeDatas, NEW m \in 0..MaxMoney
    PROVE  LET e == [d EXCEPT !.money = m] IN
             /\ e \in TradeDatas /\ e.trader = d.trader /\ e.accepted = d.accepted
             /\ e.money = m /\ e.spell = d.spell /\ e.items = d.items
BY DEF TradeDatas

LEMMA WriteSpell ==
    ASSUME NEW d \in TradeDatas, NEW b \in BOOLEAN
    PROVE  LET e == [d EXCEPT !.spell = b] IN
             /\ e \in TradeDatas /\ e.trader = d.trader /\ e.accepted = d.accepted
             /\ e.money = d.money /\ e.spell = b /\ e.items = d.items
BY DEF TradeDatas

LEMMA WriteItem ==
    ASSUME NEW d \in TradeDatas, NEW s \in AllSlots, NEW i \in Items \cup {None}
    PROVE  LET e == [d EXCEPT !.items[s] = i] IN
             /\ e \in TradeDatas /\ e.trader = d.trader /\ e.accepted = d.accepted
             /\ e.money = d.money /\ e.spell = d.spell
BY DEF TradeDatas

\* A player in a trade has a TradeData and a partner among the players.
LEMMA InTrade ==
    ASSUME NEW t \in Offers, NEW p \in Players, t[p] # None
    PROVE  t[p] \in TradeDatas /\ t[p].trader \in Players /\ t[p].accepted \in BOOLEAN
<1>1. t[p] \in TradeDatas
  BY DEF Offers
<1> QED
  BY <1>1, Fields
-----------------------------------------------------------------------------
(* The changes of the offers are quiet.                                    *)

LEMMA QuietTwice ==
    ASSUME NEW A, NEW t \in Offers, NEW u, NEW v, Quiet(A, t, u), Quiet(A, u, v)
    PROVE  Quiet(A, t, v)
<1>1. v \in Offers /\ SameTrades(t, v)
  BY DEF Quiet, SameTrades
<1>2. ASSUME NEW p \in Players \ A, v[p] # None, v[p].accepted
      PROVE  t[p].accepted /\ SameOffer(t, v, p) /\ SameOffer(t, v, t[p].trader)
  <2>1. u[p].accepted /\ SameOffer(u, v, p) /\ SameOffer(u, v, u[p].trader)
    BY <1>2 DEF Quiet
  <2>2. u[p] # None /\ t[p] # None /\ u[p].trader = t[p].trader
    BY <1>2 DEF Quiet, SameTrades
  <2>3. t[p].accepted /\ SameOffer(t, u, p) /\ SameOffer(t, u, t[p].trader)
    BY <2>1, <2>2 DEF Quiet
  <2> QED
    BY <2>1, <2>2, <2>3 DEF SameOffer
<1> QED
  BY <1>1, <1>2 DEF Quiet

LEMMA QuietNothing == ASSUME NEW A, NEW t \in Offers PROVE Quiet(A, t, t)
BY DEF Quiet, SameTrades, SameOffer

\* Withdrawing acceptances leaves all else alone.
LEMMA UnacceptField ==
    ASSUME NEW t \in Offers, NEW S, NEW p \in Players
    PROVE  LET u == Unaccept(S, t) IN
             /\ u[p] \in TradeDatas \cup {None}
             /\ u[p] = None <=> t[p] = None
             /\ t[p] # None => /\ u[p].trader = t[p].trader /\ SameOffer(t, u, p)
                               /\ u[p].accepted => t[p].accepted /\ p \notin S
<1> DEFINE u == Unaccept(S, t)
<1>1. u[p] = IF p \in S /\ t[p] # None THEN [t[p] EXCEPT !.accepted = FALSE] ELSE t[p]
  BY DEF Unaccept
<1>2. CASE t[p] = None
  BY <1>1, <1>2
<1>3. CASE t[p] # None
  <2>1. t[p] \in TradeDatas
    BY <1>3, InTrade
  <2>2. CASE p \in S
    <3>1. u[p] = [t[p] EXCEPT !.accepted = FALSE]
      BY <1>1, <1>3, <2>2
    <3>2. /\ u[p] \in TradeDatas /\ u[p].trader = t[p].trader /\ u[p].accepted = FALSE
          /\ u[p].money = t[p].money /\ u[p].spell = t[p].spell /\ u[p].items = t[p].items
      BY <2>1, <3>1, WriteAccepted
    <3>3. u[p] # None
      BY <3>2, Fields
    <3> QED
      BY <1>3, <3>2, <3>3 DEF SameOffer
  <2>3. CASE p \notin S
    <3>1. u[p] = t[p]
      BY <1>1, <2>3
    <3> QED
      BY <1>3, <2>1, <2>3, <3>1 DEF SameOffer
  <2> QED
    BY <2>2, <2>3
<1> QED
  BY <1>2, <1>3

LEMMA UnacceptIsQuiet ==
    ASSUME NEW A, NEW S, NEW t \in Offers, Paired(t, Players)
    PROVE  Quiet(A, t, Unaccept(S, t))
<1> DEFINE u == Unaccept(S, t)
<1>1. u \in Offers
  <2>1. u = [p \in Players |-> u[p]]
    BY DEF Unaccept
  <2>2. \A p \in Players : u[p] \in TradeDatas \cup {None}
    BY UnacceptField
  <2> HIDE DEF u
  <2> QED
    BY <2>1, <2>2 DEF Offers
<1>2. SameTrades(t, u)
  BY UnacceptField DEF SameTrades
<1>3. ASSUME NEW p \in Players, u[p] # None, u[p].accepted
      PROVE  t[p].accepted /\ SameOffer(t, u, p) /\ SameOffer(t, u, t[p].trader)
  <2>1. t[p] # None
    BY <1>3, UnacceptField
  <2>2. t[p].trader \in Players /\ t[t[p].trader] # None
    BY <2>1 DEF Paired
  <2> QED
    BY <1>3, <2>1, <2>2, UnacceptField
<1> QED
  BY <1>1, <1>2, <1>3 DEF Quiet

\* What p offers is changed and both acceptances withdrawn: that is quiet.
LEMMA ChangeIsQuiet ==
    ASSUME NEW A, NEW t \in Offers, Paired(t, Players), NEW p \in Players, t[p] # None,
           NEW d \in TradeDatas, d.trader = t[p].trader
    PROVE  LET u == Unaccept({p, t[p].trader}, [t EXCEPT ![p] = d]) IN
             /\ Quiet(A, t, u)
             /\ ~u[p].accepted /\ ~u[t[p].trader].accepted
<1> DEFINE q == t[p].trader
           w == [t EXCEPT ![p] = d]
           u == Unaccept({p, q}, w)
<1>1. q \in Players /\ q # p /\ t[q] # None /\ t[q].trader = p
  BY DEF Paired
<1>2. /\ w \in Offers /\ w[p] = d
      /\ \A x \in Players : x # p => w[x] = t[x]
      /\ d # None
  BY Fields DEF Offers
<1>3. SameTrades(t, w)
  BY <1>2 DEF SameTrades
<1>4. Paired(w, Players)
  BY <1>3, <1>1 DEF Paired, SameTrades
<1>5. w \in Offers
  BY <1>2
<1> HIDE DEF w, q
<1>6. Quiet(A, w, u)
  BY <1>4, <1>5, UnacceptIsQuiet
<1>7. ~u[p].accepted /\ ~u[q].accepted
  <2>1. \A x \in {p, q} : w[x] # None /\ (u[x].accepted => x \notin {p, q})
    BY <1>1, <1>2, <1>5, UnacceptField
  <2> QED
    BY <2>1
<1>8. Quiet(A, t, u)
  <2>1. u \in Offers /\ SameTrades(t, u)
    BY <1>3, <1>6 DEF Quiet, SameTrades
  <2>2. ASSUME NEW x \in Players \ A, u[x] # None, u[x].accepted
        PROVE  t[x].accepted /\ SameOffer(t, u, x) /\ SameOffer(t, u, t[x].trader)
    <3>1. x # p /\ x # q
      BY <1>7, <2>2
    <3>2. w[x].accepted /\ SameOffer(w, u, x) /\ SameOffer(w, u, w[x].trader)
      BY <1>6, <2>2 DEF Quiet
    <3>3. t[x] # None
      BY <2>1, <2>2 DEF SameTrades
    <3>4. w[x] = t[x] /\ t[x].trader \in Players /\ t[x].trader # p
      <4>1. t[x].trader \in Players /\ t[t[x].trader].trader = x
        BY <3>3 DEF Paired
      <4>2. t[x].trader # p
        BY <3>1, <4>1 DEF q
      <4> QED
        BY <1>2, <3>1, <4>1, <4>2
    <3>5. w[t[x].trader] = t[t[x].trader]
      BY <1>2, <3>4
    <3> QED
      BY <3>2, <3>4, <3>5 DEF SameOffer
  <2> HIDE DEF u
  <2> QED
    BY <2>1, <2>2 DEF Quiet
<1> QED
  BY <1>7, <1>8 DEF q, w

\* The offers t a handler has got to so far: p is in a trade, with his partner.
Handled(p, t) ==
    /\ TradeType /\ TradesPaired /\ p \in Players /\ Trading(p)
    /\ t \in Offers /\ SameTrades(trade, t)

LEMMA HandledFacts ==
    ASSUME NEW p, NEW t, Handled(p, t)
    PROVE  /\ p \in Players /\ t \in Offers /\ Paired(t, Players)
           /\ t[p] # None /\ t[p] \in TradeDatas /\ Trader(p) = t[p].trader
           /\ Trader(p) \in Players /\ t[Trader(p)].trader = p
           /\ Handled(Trader(p), t)
<1>1. p \in Players /\ t \in Offers /\ t[p] # None /\ Trader(p) = t[p].trader
  BY DEF Handled, SameTrades, Trading, Trader
<1>2. t[p] \in TradeDatas /\ Trader(p) \in Players
  BY <1>1, InTrade
<1>3. Trading(Trader(p)) /\ Trader(Trader(p)) = p
  BY DEF Handled, TradesPaired
<1>4. Handled(Trader(p), t)
  BY <1>2, <1>3 DEF Handled
<1>5. Paired(t, Players)
  <2> SUFFICES ASSUME NEW x \in Players, t[x] # None
               PROVE  LET y == t[x].trader IN
                        x \in Players /\ y \in Players /\ y # x /\ t[y] # None /\ t[y].trader = x
    BY DEF Paired
  <2>1. Trading(x) /\ Trader(x) = t[x].trader
    BY DEF Handled, SameTrades, Trading, Trader
  <2>2. Trader(x) \in Players
    BY <1>1, <2>1, InTrade
  <2>3. Trader(x) # x /\ Trading(Trader(x)) /\ Trader(Trader(x)) = x
    BY <2>1 DEF Handled, TradesPaired
  <2>4. t[Trader(x)] # None /\ t[Trader(x)].trader = x
    BY <2>2, <2>3 DEF Handled, SameTrades, Trading, Trader
  <2> QED
    BY <2>1, <2>2, <2>3, <2>4
<1>6. t[Trader(p)].trader = p
  BY <1>2, <1>3 DEF Handled, SameTrades, Trading, Trader
<1> QED
  BY <1>1, <1>2, <1>4, <1>5, <1>6

LEMMA QuietKeepsHandled ==
    ASSUME NEW p, NEW t, NEW A, NEW u, Handled(p, t), Quiet(A, t, u)
    PROVE  Handled(p, u)
BY DEF Handled, Quiet, SameTrades

LEMMA OfferChanged ==
    ASSUME NEW p, NEW t, NEW A, NEW d \in TradeDatas, Handled(p, t), d.trader = t[p].trader
    PROVE  LET u == Unaccept({p, Trader(p)}, [t EXCEPT ![p] = d]) IN
             Quiet(A, t, u) /\ ~u[p].accepted /\ ~u[Trader(p)].accepted
<1>1. /\ p \in Players /\ t \in Offers /\ Paired(t, Players)
      /\ t[p] # None /\ Trader(p) = t[p].trader
  BY HandledFacts
<1>2. LET u == Unaccept({p, t[p].trader}, [t EXCEPT ![p] = d]) IN
        Quiet(A, t, u) /\ ~u[p].accepted /\ ~u[t[p].trader].accepted
  BY <1>1, ChangeIsQuiet
<1> QED
  BY <1>1, <1>2

\* A spell, or its withdrawal, withdraws both acceptances if it is a change.
LEMMA SetSpellIsQuiet ==
    ASSUME NEW p, NEW t, NEW A, NEW spell \in BOOLEAN, Handled(p, t)
    PROVE  /\ Quiet(A, t, SetSpell(p, spell, t))
           /\ t[p].spell # spell => LET u == SetSpell(p, spell, t)
                                    IN ~u[p].accepted /\ ~u[Trader(p)].accepted
<1>1. CASE t[p].spell = spell
  BY <1>1, HandledFacts, QuietNothing DEF SetSpell
<1>2. CASE t[p].spell # spell
  <2> DEFINE d == [t[p] EXCEPT !.spell = spell]
  <2>1. d \in TradeDatas /\ d.trader = t[p].trader
    BY HandledFacts, WriteSpell
  <2>2. SetSpell(p, spell, t) = Unaccept({p, Trader(p)}, [t EXCEPT ![p] = d])
    BY <1>2, HandledFacts DEF SetSpell
  <2> HIDE DEF d
  <2> QED
    BY <2>1, <2>2, OfferChanged
<1> QED
  BY <1>1, <1>2

LEMMA SetMoneyIsQuiet ==
    ASSUME NEW p, NEW t, NEW A, NEW money \in 0..MaxMoney, Handled(p, t)
    PROVE  Quiet(A, t, SetMoney(p, money, t))
<1>1. CASE t[p].money = money \/ money > gold[p]
  BY <1>1, HandledFacts, QuietNothing DEF SetMoney
<1>2. CASE ~(t[p].money = money \/ money > gold[p])
  <2> DEFINE d == [t[p] EXCEPT !.money = money]
  <2>1. d \in TradeDatas /\ d.trader = t[p].trader
    BY HandledFacts, WriteMoney
  <2>2. SetMoney(p, money, t) = Unaccept({p, Trader(p)}, [t EXCEPT ![p] = d])
    BY <1>2, HandledFacts DEF SetMoney
  <2> HIDE DEF d
  <2> QED
    BY <2>1, <2>2, OfferChanged
<1> QED
  BY <1>1, <1>2

\* An item placed or taken away, and the spells that go with it.
LEMMA SetItemIsQuiet ==
    ASSUME NEW p, NEW t, NEW A, NEW s \in AllSlots, NEW i \in Items \cup {None}, Handled(p, t)
    PROVE  Quiet(A, t, SetItem(p, s, i, t))
<1>1. CASE t[p].items[s] = i
  BY <1>1, HandledFacts, QuietNothing DEF SetItem
<1>2. CASE t[p].items[s] # i
  <2> DEFINE d == [t[p] EXCEPT !.items[s] = i]
             placed == Unaccept({p, Trader(p)}, [t EXCEPT ![p].items[s] = i])
             kept == IF s = NonTraded THEN SetSpell(Trader(p), FALSE, placed) ELSE placed
             done == SetSpell(p, FALSE, kept)
  <2>1. d \in TradeDatas /\ d.trader = t[p].trader
    BY HandledFacts, WriteItem
  <2>2. placed = Unaccept({p, Trader(p)}, [t EXCEPT ![p] = d])
    BY HandledFacts
  <2>3. SetItem(p, s, i, t) = done
    BY <1>2 DEF SetItem
  <2> HIDE DEF d
  <2>4. Quiet(A, t, placed)
    BY <2>1, <2>2, OfferChanged
  <2> HIDE DEF placed
  <2>5. Handled(p, placed) /\ Handled(Trader(p), placed)
    BY <2>4, QuietKeepsHandled, HandledFacts
  <2>6. Quiet(A, placed, kept)
    <3>1. CASE s = NonTraded
      BY <2>5, <3>1, SetSpellIsQuiet
    <3>2. CASE s # NonTraded
      BY <2>5, <3>2, HandledFacts, QuietNothing
    <3> QED
      BY <3>1, <3>2
  <2> HIDE DEF kept
  <2>7. Handled(p, kept)
    BY <2>5, <2>6, QuietKeepsHandled
  <2>8. Quiet(A, kept, done)
    BY <2>7, SetSpellIsQuiet
  <2> HIDE DEF done
  <2>9. Quiet(A, t, kept)
    BY <2>4, <2>5, <2>6, QuietTwice, HandledFacts
  <2>10. Quiet(A, t, done)
    BY <2>8, <2>9, QuietTwice, HandledFacts
  <2> QED
    BY <2>3, <2>10
<1> QED
  BY <1>1, <1>2

\* Pressing accept is quiet for all others.
LEMMA AcceptedIsQuiet ==
    ASSUME NEW p, Handled(p, trade)
    PROVE  Quiet({p}, trade, Accepted(p)) /\ Accepted(p)[p].spell = trade[p].spell
<1> DEFINE d == [trade[p] EXCEPT !.accepted = TRUE]
<1>1. /\ d \in TradeDatas /\ d.trader = trade[p].trader
      /\ d.money = trade[p].money /\ d.spell = trade[p].spell /\ d.items = trade[p].items
  BY HandledFacts, WriteAccepted
<1>2. d # None
  BY <1>1, Fields
<1>3. Accepted(p) = [trade EXCEPT ![p] = d]
  BY HandledFacts DEF Accepted
<1> HIDE DEF d
<1>4. p \in Players /\ trade \in Offers /\ trade[p] # None
  BY HandledFacts
<1>5. /\ Accepted(p) \in Offers /\ Accepted(p)[p] = d
      /\ \A x \in Players : x # p => Accepted(p)[x] = trade[x]
  BY <1>1, <1>3, <1>4 DEF Offers
<1> HIDE DEF Accepted
<1>6. SameTrades(trade, Accepted(p))
  BY <1>1, <1>2, <1>4, <1>5 DEF SameTrades
<1>7. \A x \in Players : SameOffer(trade, Accepted(p), x)
  BY <1>1, <1>5 DEF SameOffer
<1>8. ASSUME NEW x \in Players \ {p}, Accepted(p)[x] # None, Accepted(p)[x].accepted
      PROVE  trade[x].accepted /\ trade[x].trader \in Players
  BY <1>4, <1>5, <1>8, InTrade
<1> QED
  BY <1>1, <1>5, <1>6, <1>7, <1>8 DEF Quiet
-----------------------------------------------------------------------------
(* The steps.                                                              *)

\* What a player sees is what both sides offer.
LEMMA SeenKept ==
    ASSUME NEW p \in Players, Trading(p), trade'[p] # None, trade'[p].trader = trade[p].trader,
           SameOffer(trade, trade', p), SameOffer(trade, trade', trade[p].trader)
    PROVE  Seen(p)' = Seen(p)
BY DEF Seen, Trader, SameOffer

\* A quiet change of the offers, with the acceptances it brings noted.
LEMMA QuietStep ==
    ASSUME IInv, UNCHANGED online, NEW A, Quiet(A, trade, trade'), Note(A)
    PROVE  IInv'
<1>1. TradeType'
  BY DEF IInv, TradeType, Quiet
<1>2. SameTrades(trade, trade')
  BY DEF Quiet
<1>3. TradesPaired'
  <2> SUFFICES ASSUME NEW p \in Players, trade'[p] # None
               PROVE  /\ {p, trade'[p].trader} \subseteq online /\ trade'[p].trader # p
                      /\ trade'[trade'[p].trader] # None
                      /\ trade'[trade'[p].trader].trader = p
    BY DEF TradesPaired, Trading, Trader
  <2>1. Trading(p) /\ trade'[p].trader = Trader(p)
    BY <1>2 DEF SameTrades, Trading, Trader
  <2>2. /\ {p, Trader(p)} \subseteq online /\ Trader(p) # p
        /\ Trading(Trader(p)) /\ Trader(Trader(p)) = p
    BY <2>1 DEF IInv, TradesPaired
  <2>3. Trader(p) \in Players
    BY <2>2 DEF IInv, TradeType
  <2>4. trade'[Trader(p)] # None /\ trade'[Trader(p)].trader = p
    BY <1>2, <2>2, <2>3 DEF SameTrades, Trading, Trader
  <2> QED
    BY <2>1, <2>2, <2>4
<1>4. AcceptanceIsCurrent'
  <2> SUFFICES ASSUME NEW p \in Players, trade'[p] # None, trade'[p].accepted
               PROVE  agreed'[p] = Seen(p)'
    BY DEF AcceptanceIsCurrent, Trading
  <2>1. CASE p \in A
    BY <2>1 DEF Note
  <2>2. CASE p \notin A
    <3>1. /\ trade[p].accepted
          /\ SameOffer(trade, trade', p) /\ SameOffer(trade, trade', trade[p].trader)
      BY <2>2 DEF Quiet
    <3>2. Trading(p) /\ trade'[p].trader = trade[p].trader
      BY <1>2 DEF SameTrades, Trading
    <3>3. Seen(p)' = Seen(p)
      BY <3>1, <3>2, SeenKept
    <3>4. agreed[p] = Seen(p)
      BY <3>1, <3>2 DEF IInv, AcceptanceIsCurrent
    <3>5. agreed'[p] = agreed[p]
      BY <2>2 DEF Note
    <3> QED
      BY <3>3, <3>4, <3>5
  <2> QED
    BY <2>1, <2>2
<1> QED
  BY <1>1, <1>3, <1>4 DEF IInv

\* A trade begins between two players who have none.
LEMMA OpenStep ==
    ASSUME IInv, NEW p \in Players, NEW q \in Players, HandleInitiateTradeOpcode(p, q)
    PROVE  IInv'
<1>1. /\ p # q /\ {p, q} \subseteq online /\ trade[p] = None /\ trade[q] = None
      /\ online' = online
  BY DEF HandleInitiateTradeOpcode, Trading
<1>2. \A r \in Players : /\ TradeData(r) \in TradeDatas /\ TradeData(r) # None
                         /\ TradeData(r).trader = r /\ ~TradeData(r).accepted
  <2>1. \A r \in Players : /\ TradeData(r) \in TradeDatas
                           /\ TradeData(r).trader = r /\ ~TradeData(r).accepted
    BY TradeAssumption DEF TradeData, TradeDatas
  <2> QED
    BY <2>1, Fields
<1>3. /\ trade' \in Offers
      /\ trade'[p] = TradeData(q) /\ trade'[q] = TradeData(p)
      /\ \A x \in Players \ {p, q} : trade'[x] = trade[x]
  BY <1>1, <1>2 DEF HandleInitiateTradeOpcode, IInv, TradeType, Offers
\* The partner of a third player is a third player.
<1>4. ASSUME NEW x \in Players \ {p, q}, trade'[x] # None
      PROVE  /\ Trading(x) /\ {x, Trader(x)} \subseteq online /\ Trader(x) # x
             /\ Trader(x) \in Players \ {p, q}
             /\ Trading(Trader(x)) /\ Trader(Trader(x)) = x
  <2>1. Trading(x)
    BY <1>3, <1>4 DEF Trading
  <2>2. /\ {x, Trader(x)} \subseteq online /\ Trader(x) # x
        /\ Trading(Trader(x)) /\ Trader(Trader(x)) = x
    BY <2>1 DEF IInv, TradesPaired
  <2> QED
    BY <1>1, <2>1, <2>2 DEF IInv, TradeType, Trading
<1>5. TradeType'
  BY <1>1, <1>3 DEF IInv, TradeType
<1>6. TradesPaired'
  <2> SUFFICES ASSUME NEW x \in Players, trade'[x] # None
               PROVE  /\ {x, trade'[x].trader} \subseteq online /\ trade'[x].trader # x
                      /\ trade'[trade'[x].trader] # None
                      /\ trade'[trade'[x].trader].trader = x
    BY <1>1 DEF TradesPaired, Trading, Trader
  <2>1. CASE x \in {p, q}
    BY <1>1, <1>2, <1>3, <2>1
  <2>2. CASE x \notin {p, q}
    <3>1. trade'[x] = trade[x] /\ trade'[Trader(x)] = trade[Trader(x)]
      BY <1>3, <1>4, <2>2
    <3> QED
      BY <1>4, <2>2, <3>1 DEF Trading, Trader
  <2> QED
    BY <2>1, <2>2
<1>7. AcceptanceIsCurrent'
  <2> SUFFICES ASSUME NEW x \in Players, trade'[x] # None, trade'[x].accepted
               PROVE  agreed'[x] = Seen(x)'
    BY DEF AcceptanceIsCurrent, Trading
  <2>1. x \notin {p, q}
    BY <1>2, <1>3
  <2>2. trade'[x] = trade[x] /\ trade'[Trader(x)] = trade[Trader(x)] /\ Trading(x)
    BY <1>3, <1>4, <2>1
  <2>3. Seen(x)' = Seen(x)
    BY <2>2, SeenKept DEF SameOffer, Trader
  <2>4. agreed[x] = Seen(x)
    BY <2>2 DEF IInv, AcceptanceIsCurrent
  <2>5. agreed'[x] = agreed[x]
    BY DEF HandleInitiateTradeOpcode, Note
  <2> QED
    BY <2>3, <2>4, <2>5
<1> QED
  BY <1>5, <1>6, <1>7 DEF IInv

\* A trade ends for both; a player who leaves the world has none.
LEMMA CloseStep ==
    ASSUME IInv, NEW p \in Players, CloseTrade(p), online' \in {online, online \ {p}}
    PROVE  IInv'
<1>1. /\ trade' \in Offers /\ trade'[p] = None
      /\ Trading(p) => trade'[Trader(p)] = None
      /\ \A x \in Players : trade'[x] # None => trade'[x] = trade[x]
  <2>1. CASE Trading(p)
    <3>1. Trader(p) \in Players
      BY <2>1, InTrade DEF IInv, TradeType, Trading, Trader
    <3>2. trade' = [trade EXCEPT ![p] = None, ![Trader(p)] = None]
      BY <2>1 DEF CloseTrade
    <3> QED
      BY <3>1, <3>2 DEF IInv, TradeType, Offers
  <2>2. CASE ~Trading(p)
    BY <2>2 DEF CloseTrade, IInv, TradeType, Trading
  <2> QED
    BY <2>1, <2>2
\* Whoever still trades does so with the player he traded with.
<1>2. ASSUME NEW x \in Players, trade'[x] # None
      PROVE  /\ Trading(x) /\ trade'[x] = trade[x] /\ trade'[Trader(x)] = trade[Trader(x)]
             /\ {x, Trader(x)} \subseteq online' /\ Trader(x) # x
             /\ Trading(Trader(x)) /\ Trader(Trader(x)) = x
  <2>1. Trading(x) /\ trade'[x] = trade[x] /\ x # p
    BY <1>1, <1>2 DEF Trading
  <2>2. /\ {x, Trader(x)} \subseteq online /\ Trader(x) # x
        /\ Trading(Trader(x)) /\ Trader(Trader(x)) = x /\ Trader(x) \in Players
    BY <2>1 DEF IInv, TradesPaired, TradeType
  <2>3. Trader(x) # p
    <3>1. Trader(x) = p => Trading(p) /\ Trader(p) = x
      BY <2>2
    <3> QED
      BY <1>1, <1>2, <3>1
  <2>4. trade'[Trader(x)] = trade[Trader(x)]
    <3>1. CASE Trading(p)
      <4>1. Trader(p) # Trader(x)
        <5>1. Trader(Trader(p)) = p
          BY <3>1 DEF IInv, TradesPaired
        <5> QED
          BY <2>1, <2>2, <5>1
      <4>2. trade' = [trade EXCEPT ![p] = None, ![Trader(p)] = None]
        BY <3>1 DEF CloseTrade
      <4> QED
        BY <2>2, <2>3, <4>1, <4>2 DEF IInv, TradeType, Offers
    <3>2. CASE ~Trading(p)
      BY <3>2 DEF CloseTrade
    <3> QED
      BY <3>1, <3>2
  <2>5. {x, Trader(x)} \subseteq online'
    BY <2>1, <2>2, <2>3
  <2> QED
    BY <2>1, <2>2, <2>4, <2>5
<1>3. TradeType'
  BY <1>1 DEF IInv, TradeType
<1>4. TradesPaired'
  <2> SUFFICES ASSUME NEW x \in Players, trade'[x] # None
               PROVE  /\ {x, trade'[x].trader} \subseteq online' /\ trade'[x].trader # x
                      /\ trade'[trade'[x].trader] # None
                      /\ trade'[trade'[x].trader].trader = x
    BY DEF TradesPaired, Trading, Trader
  <2> QED
    BY <1>2 DEF Trading, Trader
<1>5. AcceptanceIsCurrent'
  <2> SUFFICES ASSUME NEW x \in Players, trade'[x] # None, trade'[x].accepted
               PROVE  agreed'[x] = Seen(x)'
    BY DEF AcceptanceIsCurrent, Trading
  <2>1. Seen(x)' = Seen(x)
    BY <1>2, SeenKept DEF SameOffer, Trader
  <2>2. agreed[x] = Seen(x)
    BY <1>2 DEF IInv, AcceptanceIsCurrent
  <2>3. agreed'[x] = agreed[x]
    BY DEF CloseTrade, Note
  <2> QED
    BY <2>1, <2>2, <2>3
<1> QED
  BY <1>3, <1>4, <1>5 DEF IInv

\* What happens beside the trades.
LEMMA OutsideStep ==
    ASSUME IInv, UNCHANGED <<trade, agreed>>, online \subseteq online', online' \subseteq Players
    PROVE  IInv'
<1>1. TradeType'
  BY DEF IInv, TradeType
<1>2. TradesPaired'
  BY DEF IInv, TradesPaired, Trading, Trader
<1>3. AcceptanceIsCurrent'
  BY DEF IInv, AcceptanceIsCurrent, Trading, Seen, Trader
<1> QED
  BY <1>1, <1>2, <1>3 DEF IInv

\* The current offers are where every handler begins.
LEMMA HandledNow ==
    ASSUME IInv, NEW p \in Players, Trading(p)
    PROVE  Handled(p, trade)
BY DEF IInv, TradeType, Handled, SameTrades

\* The handlers that change an offer.
LEMMA OfferStep ==
    ASSUME IInv, NEW p \in Players,
           \/ \E s \in AllSlots, i \in Items : HandleSetTradeItemOpcode(p, s, i)
           \/ \E s \in AllSlots : HandleClearTradeItemOpcode(p, s)
           \/ \E money \in 0..MaxMoney : HandleSetTradeGoldOpcode(p, money)
           \/ CheckCast(p) \/ HandleUnacceptTradeOpcode(p)
    PROVE  IInv'
<1>1. Trading(p) /\ UNCHANGED online /\ Note({})
  BY DEF HandleSetTradeItemOpcode, HandleClearTradeItemOpcode, HandleSetTradeGoldOpcode,
         CheckCast, HandleUnacceptTradeOpcode
<1>2. Handled(p, trade)
  BY <1>1, HandledNow
<1>3. trade \in Offers /\ Paired(trade, Players)
  BY <1>2, HandledFacts
<1>4. Quiet({}, trade, trade')
  <2>1. CASE \E s \in AllSlots, i \in Items : HandleSetTradeItemOpcode(p, s, i)
    BY <1>2, <2>1, SetItemIsQuiet DEF HandleSetTradeItemOpcode
  <2>2. CASE \E s \in AllSlots : HandleClearTradeItemOpcode(p, s)
    BY <1>2, <2>2, SetItemIsQuiet DEF HandleClearTradeItemOpcode
  <2>3. CASE \E money \in 0..MaxMoney : HandleSetTradeGoldOpcode(p, money)
    BY <1>2, <2>3, SetMoneyIsQuiet DEF HandleSetTradeGoldOpcode
  <2>4. CASE CheckCast(p)
    BY <1>2, <2>4, SetSpellIsQuiet DEF CheckCast
  <2>5. CASE HandleUnacceptTradeOpcode(p)
    BY <1>3, <2>5, UnacceptIsQuiet DEF HandleUnacceptTradeOpcode
  <2> QED
    BY <2>1, <2>2, <2>3, <2>4, <2>5
<1> QED
  BY <1>1, <1>4, QuietStep

\* A quiet change after p has pressed accept is quiet if his acceptance is
\* withdrawn with it.
LEMMA WithdrawnIsQuiet ==
    ASSUME NEW p, NEW u, Quiet({p}, trade, u), ~u[p].accepted
    PROVE  Quiet({}, trade, u)
BY DEF Quiet

\* The outcomes of HandleAcceptTradeOpcode.
LEMMA AcceptStep ==
    ASSUME IInv, NEW p \in Players, HandleAcceptTradeOpcode(p)
    PROVE  IInv'
<1>1. Trading(p) /\ UNCHANGED online
  BY DEF HandleAcceptTradeOpcode, AcceptRefused, TraderCannotPay, AcceptAlone, SpellFails,
         NoSpace, ExecuteTrade, BothAccept, Payable
<1>2. Handled(p, trade) /\ trade \in Offers /\ Paired(trade, Players)
  <2>1. Handled(p, trade)
    BY <1>1, HandledNow
  <2> QED
    BY <2>1, HandledFacts
<1>3. /\ Quiet({p}, trade, Accepted(p)) /\ Accepted(p)[p].spell = trade[p].spell
      /\ Handled(p, Accepted(p)) /\ Handled(Trader(p), Accepted(p))
      /\ Accepted(p) \in Offers /\ Paired(Accepted(p), Players)
  <2>1. Quiet({p}, trade, Accepted(p)) /\ Accepted(p)[p].spell = trade[p].spell
    BY <1>2, AcceptedIsQuiet
  <2>2. Handled(p, Accepted(p))
    BY <1>2, <2>1, QuietKeepsHandled
  <2> QED
    BY <2>1, <2>2, HandledFacts
<1>4. CASE AcceptRefused(p)
  <2>1. Quiet({}, trade, trade') /\ Note({})
    BY <1>2, <1>4, UnacceptIsQuiet DEF AcceptRefused
  <2> QED
    BY <1>1, <2>1, QuietStep
<1>5. CASE TraderCannotPay(p)
  <2>1. Quiet({p}, Accepted(p), trade') /\ Note({p})
    BY <1>3, <1>5, UnacceptIsQuiet DEF TraderCannotPay
  <2>2. Quiet({p}, trade, trade')
    BY <1>2, <1>3, <2>1, QuietTwice
  <2> QED
    BY <1>1, <2>1, <2>2, QuietStep
<1>6. CASE AcceptAlone(p)
  BY <1>1, <1>3, <1>6, QuietStep DEF AcceptAlone
<1>7. CASE SpellFails(p)
  <2>1. Note({})
    BY <1>7 DEF SpellFails
  <2>2. Quiet({p}, Accepted(p), trade') /\ ~trade'[p].accepted
    <3>1. CASE trade[p].spell /\ trade' = SetSpell(p, FALSE, Accepted(p))
      <4>1. Quiet({p}, Accepted(p), SetSpell(p, FALSE, Accepted(p)))
        BY <1>3, SetSpellIsQuiet
      <4>2. Accepted(p)[p].spell # FALSE
        BY <1>3, <3>1
      <4>3. ~SetSpell(p, FALSE, Accepted(p))[p].accepted
        BY <1>3, <4>2, SetSpellIsQuiet
      <4> QED
        BY <3>1, <4>1, <4>3
    <3>2. CASE trade[Trader(p)].spell /\ trade' = SetSpell(Trader(p), FALSE, Accepted(p))
      <4> DEFINE q == Trader(p)
      <4>1. q # p /\ q \in Players /\ Trader(q) = p
        BY <1>1, <1>2, HandledFacts DEF IInv, TradesPaired
      <4>2. Accepted(p)[q].spell = trade[q].spell
        BY <1>2, <4>1 DEF Accepted, Offers
      <4> HIDE DEF q
      <4>3. Quiet({p}, Accepted(p), SetSpell(q, FALSE, Accepted(p)))
        BY <1>3, SetSpellIsQuiet DEF q
      <4>4. Accepted(p)[q].spell # FALSE
        BY <3>2, <4>2 DEF q
      <4>5. ~SetSpell(q, FALSE, Accepted(p))[Trader(q)].accepted
        BY <1>3, <4>4, SetSpellIsQuiet DEF q
      <4> QED
        BY <3>2, <4>1, <4>3, <4>5 DEF q
    <3> QED
      BY <1>7, <3>1, <3>2 DEF SpellFails
  <2>3. Quiet({p}, trade, trade')
    BY <1>2, <1>3, <2>2, QuietTwice
  <2>4. Quiet({}, trade, trade')
    BY <2>2, <2>3, WithdrawnIsQuiet
  <2> QED
    BY <1>1, <2>1, <2>4, QuietStep
<1>8. CASE NoSpace(p)
  <2>1. Quiet({}, trade, trade') /\ Note({})
    BY <1>2, <1>8, UnacceptIsQuiet DEF NoSpace
  <2> QED
    BY <1>1, <2>1, QuietStep
<1>9. CASE ExecuteTrade(p)
  BY <1>9, CloseStep DEF ExecuteTrade
<1> QED
  BY <1>4, <1>5, <1>6, <1>7, <1>8, <1>9 DEF HandleAcceptTradeOpcode
-----------------------------------------------------------------------------
\* Nobody trades at first, and every step keeps the invariant.
LEMMA InitIInv == Init => IInv
<1> SUFFICES ASSUME Init PROVE IInv
  OBVIOUS
<1>1. \A p \in Players : trade[p] = None
  BY DEF Init
<1>2. TradeType
  BY DEF Init, TradeType, Offers
<1> QED
  BY <1>1, <1>2 DEF IInv, TradesPaired, AcceptanceIsCurrent, Trading

LEMMA NextIInv == IInv /\ [Next]_vars => IInv'
<1> SUFFICES ASSUME IInv, [Next]_vars PROVE IInv'
  OBVIOUS
<1>1. ASSUME NEW p \in Players, NEW q \in Players, HandleInitiateTradeOpcode(p, q) PROVE IInv'
  BY <1>1, OpenStep
<1>2. ASSUME NEW p \in Players,
             \/ \E s \in AllSlots, i \in Items : HandleSetTradeItemOpcode(p, s, i)
             \/ \E s \in AllSlots : HandleClearTradeItemOpcode(p, s)
             \/ \E money \in 0..MaxMoney : HandleSetTradeGoldOpcode(p, money)
             \/ CheckCast(p) \/ HandleUnacceptTradeOpcode(p)
      PROVE IInv'
  BY <1>2, OfferStep
<1>3. ASSUME NEW p \in Players, HandleAcceptTradeOpcode(p) PROVE IInv'
  BY <1>3, AcceptStep
<1>4. ASSUME NEW p \in Players, TradeCancel(p) \/ CleanupsBeforeDelete(p) PROVE IInv'
  BY <1>4, CloseStep DEF TradeCancel, CleanupsBeforeDelete
<1>5. ASSUME NEW p \in Players, Return(p) \/ MoneyChanges(p) PROVE IInv'
  BY <1>5, OutsideStep DEF Return, MoneyChanges, IInv, TradeType
<1>6. ASSUME NEW i \in Items, UseUp(i) \/ Bind(i) \/ \E p \in Players : Find(p, i) PROVE IInv'
  BY <1>6, OutsideStep DEF UseUp, Bind, Find, IInv, TradeType
<1>7. CASE UNCHANGED vars
  BY <1>7, OutsideStep DEF vars, IInv, TradeType
<1> QED
  BY <1>1, <1>2, <1>3, <1>4, <1>5, <1>6, <1>7 DEF Next

LEMMA InductiveInvariant == Spec => []IInv
BY InitIInv, NextIInv, PTL DEF Spec

\* Whatever the players do, both sides of a trade exist while one does, and
\* point at each other: GetTraderData() needs no test.
THEOREM TradesStayPaired == Spec => []TradesPaired
<1>1. IInv => TradesPaired
  BY DEF IInv
<1> QED
  BY <1>1, InductiveInvariant, PTL

\* No change of either window, by any handler and in any order, leaves an
\* acceptance standing that was given to something else: TradeData::SetItem,
\* SetMoney and SetSpell withdraw enough.
THEOREM AcceptancesStayCurrent == Spec => []AcceptanceIsCurrent
<1>1. IInv => AcceptanceIsCurrent
  BY DEF IInv
<1> QED
  BY <1>1, InductiveInvariant, PTL
-----------------------------------------------------------------------------
(* The exchange: moveItems goes through the slots, one after the other.    *)

Owners == [Items -> Players \cup {Gone}]

\* What the exchange needs to know of the types.
GoodsType ==
    /\ owner \in Owners
    /\ bound \in SUBSET Items /\ lost \in SUBSET Items
    /\ gold \in [Players -> 0..MaxMoney]
    /\ events \in 0..MaxEvents

\* The owners when all that is offered has been removed.
Removed(p) ==
    [i \in Items |-> IF i \in Offered(p) \cup Offered(Trader(p)) THEN Gone ELSE owner[i]]

LEMMA ItemsOffered ==
    ASSUME NEW p
    PROVE  /\ \A s : GetItem(p, s) \in Items \cup {None}
           /\ Offered(p) \subseteq Has(p, owner) /\ Has(p, owner) \subseteq Items
<1>1. Has(p, owner) \subseteq Items
  BY DEF Has
<1>2. \A s : GetItem(p, s) \in Has(p, owner) \cup {None}
  BY DEF GetItem
<1> QED
  BY <1>1, <1>2 DEF Offered

LEMMA SlotMovesItems ==
    ASSUME NEW p \in Players, Trader(p) \in Players, NEW own \in Owners,
           NEW x \in Items \cup {None}, NEW y \in Items \cup {None}
    PROVE  MoveSlot(p, x, y, own) \in Owners
<1>1. ASSUME NEW i \in Items \cup {None}, NEW r \in Players, NEW o \in Owners
      PROVE  Put(i, r, o) \in Owners
  BY TradeAssumption DEF Put, Owners
<1>2. ASSUME NEW i \in Items \cup {None}, NEW r \in Players, NEW o \in Owners
      PROVE  CloneItem(i, r, o) \in Owners
  <2>1. CASE Fresh(i, o) = {}
    BY <2>1 DEF CloneItem
  <2>2. CASE Fresh(i, o) # {}
    <3>1. (CHOOSE j \in Fresh(i, o) : TRUE) \in Items
      BY <2>2 DEF Fresh
    <3> QED
      BY <1>1, <2>2, <3>1 DEF CloneItem
  <2> QED
    BY <2>1, <2>2
<1>3. ASSUME NEW i \in Items \cup {None}, NEW r \in Players, NEW o \in Owners, NEW noted
      PROVE  GiveBack(i, r, noted, o) \in Owners
  <2>1. (IF noted THEN CloneItem(i, r, o) ELSE o) \in Owners
    BY <1>2
  <2> QED
    BY <1>1, <2>1 DEF GiveBack
<1> QED
  BY <1>1, <1>3 DEF MoveSlot

LEMMA MovedEquation ==
    ASSUME GoodsType, NEW p \in Players, Trader(p) \in Players
    PROVE  /\ Moved(p)[0] = Removed(p)
           /\ \A s \in Slots : Moved(p)[s] =
                 MoveSlot(p, GetItem(p, s), GetItem(Trader(p), s), Moved(p)[s - 1])
           /\ \A s \in 0..NumSlots : Moved(p)[s] \in Owners
<1> DEFINE step(own, s) == MoveSlot(p, GetItem(p, s), GetItem(Trader(p), s), own)
           G == [a \in Owners \X (1..NumSlots) |-> step(a[1], a[2])]
           body(f) == [s \in 0..NumSlots |-> IF s = 0 THEN Removed(p) ELSE step(f[s - 1], s)]
<1>1. NumSlots \in Nat /\ Removed(p) \in Owners
  BY TradeAssumption DEF GoodsType, Removed, Owners
<1>2. \A own \in Owners : \A s : step(own, s) \in Owners
  BY SlotMovesItems, ItemsOffered
<1>3. Moved(p) = CHOOSE f : f = body(f)
  BY DEF Moved, Removed
<1> HIDE DEF step
<1>4. G \in [Owners \X (1..NumSlots) -> Owners]
  BY <1>2
<1>5. \E f : f = body(f)
  <2>1. PICK f \in [0..NumSlots -> Owners] :
            f[0] = Removed(p) /\ \A s \in 1..NumSlots : f[s] = G[<<f[s - 1], s>>]
    <3> DEFINE b == Removed(p)
               V == Owners
               N == NumSlots
    <3>1. N \in Nat /\ b \in V /\ G \in Steps(V, N)
      BY <1>1, <1>4 DEF Steps
    <3> HIDE DEF G, b, V, N
    <3>2. \E f : Follows(f, V, b, N, G)
      BY <3>1, RecursionExists
    <3>3. \E f \in [0..N -> V] : f[0] = b /\ \A s \in 1..N : f[s] = G[<<f[s - 1], s>>]
      BY <3>2 DEF Follows
    <3> QED
      BY <3>3 DEF b, V, N
  <2>2. \A s \in 1..NumSlots : f[s] = step(f[s - 1], s)
    <3> SUFFICES ASSUME NEW s \in 1..NumSlots PROVE f[s] = step(f[s - 1], s)
      OBVIOUS
    <3>1. f[s - 1] \in Owners
      <4>1. s - 1 \in 0..NumSlots
        BY <1>1
      <4> QED
        BY <4>1
    <3>2. G[<<f[s - 1], s>>] = step(f[s - 1], s)
      BY <3>1
    <3> QED
      BY <2>1, <3>2
  <2>3. \A s \in 0..NumSlots : f[s] = IF s = 0 THEN Removed(p) ELSE step(f[s - 1], s)
    BY <1>1, <2>1, <2>2
  <2>4. f = body(f)
    BY <2>3
  <2> QED
    BY <2>4
<1>6. Moved(p) = body(Moved(p))
  <2> DEFINE m == Moved(p)
  <2> HIDE DEF body
  <2> QED
    BY <1>3, <1>5, Zenon
<1>7. /\ Moved(p)[0] = Removed(p)
      /\ \A s \in 1..NumSlots : Moved(p)[s] = step(Moved(p)[s - 1], s)
  <2> DEFINE m == Moved(p)
  <2>1. m = body(m)
    BY <1>6
  <2> HIDE DEF m
  <2>2. m[0] = Removed(p) /\ \A s \in 1..NumSlots : m[s] = step(m[s - 1], s)
    BY <1>1, <2>1
  <2> QED
    BY <2>2 DEF m
<1>8. \A s \in 0..NumSlots : Moved(p)[s] \in Owners
  <2> DEFINE T == {s \in 0..NumSlots : Moved(p)[s] \in Owners}
  <2>1. 0 \in T
    BY <1>1, <1>7
  <2>2. ASSUME NEW s \in 1..NumSlots, s - 1 \in T PROVE s \in T
    BY <1>1, <1>2, <1>7, <2>2
  <2> HIDE DEF T
  <2>3. 0..NumSlots \subseteq T
    BY <1>1, <2>1, <2>2, BoundedInduction
  <2> QED
    BY <2>3 DEF T
<1> QED
  BY <1>7, <1>8 DEF step, Slots
-----------------------------------------------------------------------------
(* Types.                                                                  *)

LEMMA PurseIsBounded ==
    ASSUME NEW money \in 0..MaxMoney, NEW d \in Int
    PROVE  ModifyMoney(money, d) \in 0..MaxMoney
BY TradeAssumption DEF ModifyMoney

\* A handler of a trade leaves the goods alone, or is the exchange.
LEMMA AcceptLeavesGoods ==
    ASSUME NEW p, HandleAcceptTradeOpcode(p), ~ExecuteTrade(p)
    PROVE  UNCHANGED <<goods, events>>
BY DEF HandleAcceptTradeOpcode, AcceptRefused, TraderCannotPay, AcceptAlone, SpellFails, NoSpace

\* Of a trade between p and q that both have accepted.
LEMMA InExchange ==
    ASSUME IInv, NEW p \in Players, ExecuteTrade(p)
    PROVE  /\ Trading(p) /\ Trader(p) \in Players /\ Trader(p) # p
           /\ Trading(Trader(p)) /\ Trader(Trader(p)) = p
           /\ trade[p] \in TradeDatas /\ trade[Trader(p)] \in TradeDatas
           /\ trade[p].money \in 0..MaxMoney /\ trade[Trader(p)].money \in 0..MaxMoney
<1>1. Trading(p)
  BY DEF ExecuteTrade, BothAccept, Payable
<1>2. trade[p] \in TradeDatas /\ Trader(p) \in Players
  BY <1>1, InTrade DEF IInv, TradeType, Trading, Trader
<1>3. Trader(p) # p /\ Trading(Trader(p)) /\ Trader(Trader(p)) = p
  BY <1>1 DEF IInv, TradesPaired
<1>4. trade[Trader(p)] \in TradeDatas
  BY <1>2, <1>3, InTrade DEF IInv, TradeType, Trading
<1> QED
  BY <1>1, <1>2, <1>3, <1>4, Fields

LEMMA ExchangeKeepsGoodsType ==
    ASSUME IInv, GoodsType, NEW p \in Players, ExecuteTrade(p)
    PROVE  GoodsType'
<1> DEFINE q == Trader(p)
           give == trade[p].money
           get == trade[q].money
<1>1. /\ q \in Players /\ q # p
      /\ give \in 0..MaxMoney /\ get \in 0..MaxMoney
  BY InExchange
<1>2. /\ gold' = [gold EXCEPT ![p] = ModifyMoney(ModifyMoney(@, -give), get),
                              ![q] = ModifyMoney(ModifyMoney(@, -get), give)]
      /\ owner' = MoveItems(p)
      /\ lost' = lost \cup {i \in Offered(p) \cup Offered(q) : owner'[i] = Gone}
      /\ UNCHANGED <<bound, events>>
  BY DEF ExecuteTrade
<1>3. gold[p] \in 0..MaxMoney /\ gold[q] \in 0..MaxMoney /\ gold \in [Players -> 0..MaxMoney]
  BY <1>1 DEF GoodsType
<1>4. /\ -give \in Int /\ -get \in Int /\ give \in Int /\ get \in Int
  BY <1>1, TradeAssumption
<1> HIDE DEF q, give, get
<1>5. /\ ModifyMoney(ModifyMoney(gold[p], -give), get) \in 0..MaxMoney
      /\ ModifyMoney(ModifyMoney(gold[q], -get), give) \in 0..MaxMoney
  BY <1>3, <1>4, PurseIsBounded
<1>6. gold' \in [Players -> 0..MaxMoney]
  BY <1>1, <1>2, <1>3, <1>5
<1>7. owner' \in Owners
  <2>1. NumSlots \in 0..NumSlots
    BY TradeAssumption
  <2> QED
    BY <1>1, <1>2, <2>1, MovedEquation DEF MoveItems, q
<1>8. lost' \in SUBSET Items
  <2>1. Offered(p) \subseteq Items /\ Offered(q) \subseteq Items
    BY ItemsOffered
  <2> QED
    BY <1>2, <2>1 DEF GoodsType
<1> QED
  BY <1>2, <1>6, <1>7, <1>8 DEF GoodsType

LEMMA GoodsUntouched ==
    ASSUME GoodsType, UNCHANGED <<goods, events>>
    PROVE  GoodsType'
BY DEF GoodsType, goods

LEMMA NextGoods == IInv /\ GoodsType /\ [Next]_vars => GoodsType'
<1> SUFFICES ASSUME IInv, GoodsType, [Next]_vars PROVE GoodsType'
  OBVIOUS
<1>1. ASSUME NEW p \in Players, NEW q \in Players, HandleInitiateTradeOpcode(p, q) PROVE GoodsType'
  BY <1>1, GoodsUntouched DEF HandleInitiateTradeOpcode
<1>2. ASSUME NEW p \in Players,
             \/ \E s \in AllSlots, i \in Items : HandleSetTradeItemOpcode(p, s, i)
             \/ \E s \in AllSlots : HandleClearTradeItemOpcode(p, s)
             \/ \E money \in 0..MaxMoney : HandleSetTradeGoldOpcode(p, money)
             \/ CheckCast(p) \/ HandleUnacceptTradeOpcode(p)
      PROVE GoodsType'
  BY <1>2, GoodsUntouched DEF HandleSetTradeItemOpcode, HandleClearTradeItemOpcode,
     HandleSetTradeGoldOpcode, CheckCast, HandleUnacceptTradeOpcode
<1>3. ASSUME NEW p \in Players, HandleAcceptTradeOpcode(p) PROVE GoodsType'
  BY <1>3, ExchangeKeepsGoodsType, AcceptLeavesGoods, GoodsUntouched
<1>4. ASSUME NEW p \in Players, TradeCancel(p) \/ CleanupsBeforeDelete(p) \/ Return(p)
      PROVE GoodsType'
  BY <1>4, GoodsUntouched DEF TradeCancel, CleanupsBeforeDelete, Return
<1>5. ASSUME NEW p \in Players, MoneyChanges(p) PROVE GoodsType'
  BY <1>5, TradeAssumption DEF MoneyChanges, Event, GoodsType
<1>6. ASSUME NEW i \in Items, UseUp(i) \/ Bind(i) \/ \E p \in Players : Find(p, i) PROVE GoodsType'
  BY <1>6, TradeAssumption DEF UseUp, Bind, Find, Event, GoodsType, Owners
<1>7. CASE UNCHANGED vars
  BY <1>7 DEF vars, GoodsType
<1> QED
  BY <1>1, <1>2, <1>3, <1>4, <1>5, <1>6, <1>7 DEF Next

LEMMA GoodsInvariant == Spec => [](IInv /\ GoodsType)
<1>1. Init => IInv /\ GoodsType
  BY InitIInv, TradeAssumption DEF Init, GoodsType, Owners
<1>2. IInv /\ GoodsType /\ [Next]_vars => (IInv /\ GoodsType)'
  BY NextIInv, NextGoods
<1> QED
  BY <1>1, <1>2, PTL DEF Spec

\* Every variable keeps its type: a purse never holds more than its limit, a
\* money field of a window neither, and an item has one owner or none.
THEOREM TypesStayCorrect == Spec => []TypeOK
<1>1. IInv /\ GoodsType => TypeOK
  BY DEF IInv, TradeType, Offers, GoodsType, Owners, TypeOK
<1> QED
  BY <1>1, GoodsInvariant, PTL
-----------------------------------------------------------------------------
(* No item is offered twice.                                               *)

Once(t) ==
    \A p \in Players : t[p] # None => \A r, s \in AllSlots :
        r # s /\ t[p].items[r] = t[p].items[s] => t[p].items[r] = None

OfferedOnce == Once(trade)

\* In u, whoever trades did in t, and offers at most what he did there.
NoMore(t, u) ==
    \A p \in Players : u[p] # None =>
        /\ t[p] # None
        /\ \A s \in AllSlots : u[p].items[s] \in {t[p].items[s], None}

\* In u everybody offers what he did in t.
SameItems(t, u) ==
    \A p \in Players : /\ u[p] = None <=> t[p] = None
                       /\ t[p] # None => u[p].items = t[p].items

LEMMA SameIsNoMore ==
    ASSUME NEW t, NEW u, SameItems(t, u)
    PROVE  NoMore(t, u)
BY DEF SameItems, NoMore

LEMMA NoMoreOnce ==
    ASSUME NEW t, NEW u, Once(t), NoMore(t, u)
    PROVE  Once(u)
<1> SUFFICES ASSUME NEW p \in Players, u[p] # None, NEW r \in AllSlots, NEW s \in AllSlots,
                    r # s, u[p].items[r] = u[p].items[s], u[p].items[r] # None
             PROVE  FALSE
  BY DEF Once
<1>1. t[p] # None /\ u[p].items[r] = t[p].items[r] /\ u[p].items[s] = t[p].items[s]
  BY DEF NoMore
<1> QED
  BY <1>1 DEF Once

LEMMA UnacceptItems ==
    ASSUME NEW t \in Offers, NEW S
    PROVE  SameItems(t, Unaccept(S, t))
BY UnacceptField DEF SameItems, SameOffer

LEMMA WriteKeepsItems ==
    ASSUME NEW p, NEW t, Handled(p, t), NEW d \in TradeDatas, d.items = t[p].items, NEW S
    PROVE  SameItems(t, Unaccept(S, [t EXCEPT ![p] = d]))
<1> DEFINE w == [t EXCEPT ![p] = d]
<1>1. p \in Players /\ t \in Offers /\ t[p] # None /\ d # None
  BY HandledFacts, Fields
<1>2. /\ w \in Offers /\ w[p] = d
      /\ \A x \in Players : x # p => w[x] = t[x]
  BY <1>1 DEF Offers
<1> HIDE DEF w
<1>3. SameItems(t, w)
  BY <1>1, <1>2 DEF SameItems
<1>4. SameItems(w, Unaccept(S, w))
  BY <1>2, UnacceptItems
<1>5. SameItems(t, Unaccept(S, w))
  BY <1>3, <1>4 DEF SameItems
<1> QED
  BY <1>5 DEF w

LEMMA SetSpellItems ==
    ASSUME NEW p, NEW t, NEW spell \in BOOLEAN, Handled(p, t)
    PROVE  SameItems(t, SetSpell(p, spell, t))
<1>1. CASE t[p].spell = spell
  BY <1>1 DEF SetSpell, SameItems
<1>2. CASE t[p].spell # spell
  <2> DEFINE d == [t[p] EXCEPT !.spell = spell]
  <2>1. d \in TradeDatas /\ d.items = t[p].items
    BY HandledFacts, WriteSpell
  <2>2. SetSpell(p, spell, t) = Unaccept({p, Trader(p)}, [t EXCEPT ![p] = d])
    BY <1>2, HandledFacts DEF SetSpell
  <2> HIDE DEF d
  <2> QED
    BY <2>1, <2>2, WriteKeepsItems
<1> QED
  BY <1>1, <1>2

LEMMA SetMoneyItems ==
    ASSUME NEW p, NEW t, NEW money \in 0..MaxMoney, Handled(p, t)
    PROVE  SameItems(t, SetMoney(p, money, t))
<1>1. CASE t[p].money = money \/ money > gold[p]
  BY <1>1 DEF SetMoney, SameItems
<1>2. CASE ~(t[p].money = money \/ money > gold[p])
  <2> DEFINE d == [t[p] EXCEPT !.money = money]
  <2>1. d \in TradeDatas /\ d.items = t[p].items
    BY HandledFacts, WriteMoney
  <2>2. SetMoney(p, money, t) = Unaccept({p, Trader(p)}, [t EXCEPT ![p] = d])
    BY <1>2, HandledFacts DEF SetMoney
  <2> HIDE DEF d
  <2> QED
    BY <2>1, <2>2, WriteKeepsItems
<1> QED
  BY <1>1, <1>2

\* SetItem changes the one slot.
LEMMA SetItemItems ==
    ASSUME NEW p, NEW t, NEW s \in AllSlots, NEW i \in Items \cup {None}, Handled(p, t)
    PROVE  LET u == SetItem(p, s, i, t) IN
           \A x \in Players :
             /\ u[x] = None <=> t[x] = None
             /\ t[x] # None => u[x].items = IF x = p THEN [t[p].items EXCEPT ![s] = i] ELSE t[x].items
<1>0. /\ p \in Players /\ t \in Offers /\ t[p] # None /\ t[p] \in TradeDatas
      /\ t[p].items \in [AllSlots -> Items \cup {None}]
  BY HandledFacts, Fields
<1>1. CASE t[p].items[s] = i
  <2>1. [t[p].items EXCEPT ![s] = i] = t[p].items
    BY <1>0, <1>1
  <2> QED
    BY <1>1, <2>1 DEF SetItem
<1>2. CASE t[p].items[s] # i
  <2> DEFINE d == [t[p] EXCEPT !.items[s] = i]
             w == [t EXCEPT ![p] = d]
             placed == Unaccept({p, Trader(p)}, [t EXCEPT ![p].items[s] = i])
             kept == IF s = NonTraded THEN SetSpell(Trader(p), FALSE, placed) ELSE placed
             done == SetSpell(p, FALSE, kept)
  <2>1. /\ d \in TradeDatas /\ d.trader = t[p].trader /\ d # None
        /\ d.items = [t[p].items EXCEPT ![s] = i]
    <3>1. d \in TradeDatas /\ d.trader = t[p].trader
      BY <1>0, WriteItem
    <3>2. d.items = [t[p].items EXCEPT ![s] = i]
      BY <1>0 DEF TradeDatas
    <3> QED
      BY <3>1, <3>2, Fields
  <2>2. placed = Unaccept({p, Trader(p)}, w)
    BY <1>0
  <2>3. SetItem(p, s, i, t) = done
    BY <1>2 DEF SetItem
  <2> HIDE DEF d
  <2>4. /\ w \in Offers /\ w[p] = d
        /\ \A x \in Players : x # p => w[x] = t[x]
    BY <1>0, <2>1 DEF Offers
  <2>5. Quiet({}, t, placed) /\ Handled(p, placed) /\ Handled(Trader(p), placed)
    <3>1. Quiet({}, t, placed)
      <4> HIDE DEF placed
      <4> QED
        BY <2>1, <2>2, OfferChanged
    <3> HIDE DEF placed
    <3>2. Handled(p, placed)
      BY <3>1, QuietKeepsHandled
    <3> QED
      BY <3>1, <3>2, HandledFacts
  <2>6. SameItems(w, placed)
    BY <2>2, <2>4, UnacceptItems
  <2> HIDE DEF placed, w
  <2>7. SameItems(placed, kept) /\ Handled(p, kept)
    <3>1. CASE s = NonTraded
      <4>1. SameItems(placed, SetSpell(Trader(p), FALSE, placed))
        BY <2>5, SetSpellItems
      <4>2. Quiet({}, placed, SetSpell(Trader(p), FALSE, placed))
        BY <2>5, SetSpellIsQuiet
      <4>3. Handled(p, SetSpell(Trader(p), FALSE, placed))
        BY <2>5, <4>2, QuietKeepsHandled
      <4> QED
        BY <3>1, <4>1, <4>3
    <3>2. CASE s # NonTraded
      BY <2>5, <3>2 DEF SameItems
    <3> QED
      BY <3>1, <3>2
  <2> HIDE DEF kept
  <2>8. SameItems(kept, done)
    BY <2>7, SetSpellItems
  <2> HIDE DEF done
  <2>9. SameItems(w, done)
    BY <2>6, <2>7, <2>8 DEF SameItems
  <2> QED
    BY <1>0, <2>1, <2>3, <2>4, <2>9 DEF SameItems
<1> QED
  BY <1>1, <1>2
\* One item more, of those not offered so far.
LEMMA OfferMore ==
    ASSUME IInv, OfferedOnce, NEW p \in Players, NEW s \in AllSlots, NEW i \in Items,
           HandleSetTradeItemOpcode(p, s, i)
    PROVE  OfferedOnce'
<1>1. Handled(p, trade) /\ \A r \in AllSlots : trade[p].items[r] # i
  BY HandledNow DEF HandleSetTradeItemOpcode
<1>2. \A x \in Players :
        /\ trade'[x] = None <=> trade[x] = None
        /\ trade[x] # None => trade'[x].items = IF x = p THEN [trade[p].items EXCEPT ![s] = i]
                                                         ELSE trade[x].items
  BY <1>1, SetItemItems DEF HandleSetTradeItemOpcode
<1>3. trade[p] # None /\ trade[p].items \in [AllSlots -> Items \cup {None}]
  BY <1>1, HandledFacts, Fields
<1> SUFFICES ASSUME NEW x \in Players, trade'[x] # None, NEW r \in AllSlots, NEW k \in AllSlots,
                    r # k, trade'[x].items[r] = trade'[x].items[k]
             PROVE  trade'[x].items[r] = None
  BY DEF OfferedOnce, Once
<1>4. CASE x = p
  <2>1. \A j \in AllSlots : trade'[p].items[j] = IF j = s THEN i ELSE trade[p].items[j]
    BY <1>2, <1>3
  <2> QED
    BY <1>1, <1>3, <1>4, <2>1 DEF OfferedOnce, Once
<1>5. CASE x # p
  BY <1>2, <1>5 DEF OfferedOnce, Once
<1> QED
  BY <1>4, <1>5

LEMMA OfferLess ==
    ASSUME IInv, NEW p \in Players, NEW s \in AllSlots, HandleClearTradeItemOpcode(p, s)
    PROVE  NoMore(trade, trade')
<1>1. Handled(p, trade)
  BY HandledNow DEF HandleClearTradeItemOpcode
<1>2. \A x \in Players :
        /\ trade'[x] = None <=> trade[x] = None
        /\ trade[x] # None => trade'[x].items = IF x = p THEN [trade[p].items EXCEPT ![s] = None]
                                                         ELSE trade[x].items
  <2> DEFINE n == None
             u == SetItem(p, s, n, trade)
  <2>1. n \in Items \cup {None} /\ trade' = u
    BY DEF HandleClearTradeItemOpcode
  <2> HIDE DEF n
  <2>2. \A x \in Players :
          /\ u[x] = None <=> trade[x] = None
          /\ trade[x] # None => u[x].items = IF x = p THEN [trade[p].items EXCEPT ![s] = n]
                                                       ELSE trade[x].items
    BY <1>1, <2>1, SetItemItems
  <2> HIDE DEF u
  <2> QED
    BY <2>1, <2>2 DEF n
<1>3. trade[p] # None /\ trade[p].items \in [AllSlots -> Items \cup {None}]
  BY <1>1, HandledFacts, Fields
<1> QED
  BY <1>2, <1>3 DEF NoMore

\* To close a trade is to offer nothing any more.
LEMMA CloseOffersNoMore ==
    ASSUME IInv, NEW p \in Players, CloseTrade(p)
    PROVE  NoMore(trade, trade') /\ \A x \in Players : trade'[x] # None => trade'[x] = trade[x]
<1>1. CASE Trading(p)
  <2>1. Trader(p) \in Players /\ trade \in Offers
    BY <1>1, InTrade DEF IInv, TradeType, Trading, Trader
  <2>2. trade' = [trade EXCEPT ![p] = None, ![Trader(p)] = None]
    BY <1>1 DEF CloseTrade
  <2>3. \A x \in Players : trade'[x] \in {None, trade[x]}
    BY <2>1, <2>2 DEF Offers
  <2> QED
    BY <2>3 DEF NoMore
<1>2. CASE ~Trading(p)
  BY <1>2 DEF CloseTrade, NoMore
<1> QED
  BY <1>1, <1>2

\* The outcomes of HandleAcceptTradeOpcode leave the items offered alone.
LEMMA AcceptOffersNoMore ==
    ASSUME IInv, NEW p \in Players, HandleAcceptTradeOpcode(p)
    PROVE  NoMore(trade, trade')
<1>1. Trading(p)
  BY DEF HandleAcceptTradeOpcode, AcceptRefused, TraderCannotPay, AcceptAlone, SpellFails,
         NoSpace, ExecuteTrade, BothAccept, Payable
<1>2. Handled(p, trade) /\ trade \in Offers
  BY <1>1, HandledNow, HandledFacts
<1>3. SameItems(trade, Accepted(p)) /\ Handled(p, Accepted(p)) /\ Accepted(p) \in Offers
  <2> DEFINE d == [trade[p] EXCEPT !.accepted = TRUE]
  <2>1. d \in TradeDatas /\ d.items = trade[p].items /\ d # None
    BY <1>2, HandledFacts, WriteAccepted, Fields
  <2>2. Accepted(p) = [trade EXCEPT ![p] = d]
    BY <1>2, HandledFacts DEF Accepted
  <2> HIDE DEF d
  <2>3. SameItems(trade, Accepted(p))
    BY <1>1, <1>2, <2>1, <2>2 DEF SameItems, Offers, Trading
  <2>4. Quiet({p}, trade, Accepted(p))
    BY <1>2, AcceptedIsQuiet
  <2>5. Handled(p, Accepted(p))
    BY <1>2, <2>4, QuietKeepsHandled
  <2> QED
    BY <2>3, <2>5, HandledFacts
<1>4. Handled(Trader(p), Accepted(p))
  BY <1>3, HandledFacts
<1>5. \A S : /\ SameItems(trade, Unaccept(S, trade))
             /\ SameItems(Accepted(p), Unaccept(S, Accepted(p)))
  BY <1>2, <1>3, UnacceptItems
<1>6. /\ SameItems(Accepted(p), SetSpell(p, FALSE, Accepted(p)))
      /\ SameItems(Accepted(p), SetSpell(Trader(p), FALSE, Accepted(p)))
  BY <1>3, <1>4, SetSpellItems
<1>7. \/ trade' = Accepted(p)
      \/ \E S : trade' \in {Unaccept(S, trade), Unaccept(S, Accepted(p))}
      \/ trade' \in {SetSpell(p, FALSE, Accepted(p)), SetSpell(Trader(p), FALSE, Accepted(p))}
      \/ CloseTrade(p)
  BY DEF HandleAcceptTradeOpcode, AcceptRefused, TraderCannotPay, AcceptAlone, SpellFails,
         NoSpace, ExecuteTrade
<1>8. ASSUME NEW u, SameItems(Accepted(p), u) PROVE SameItems(trade, u)
  BY <1>3, <1>8 DEF SameItems
<1>9. CASE CloseTrade(p)
  BY <1>9, CloseOffersNoMore
<1> QED
  BY <1>3, <1>5, <1>6, <1>7, <1>8, <1>9, SameIsNoMore

LEMMA NextOnce == IInv /\ OfferedOnce /\ [Next]_vars => OfferedOnce'
<1> SUFFICES ASSUME IInv, OfferedOnce, [Next]_vars PROVE OfferedOnce'
  OBVIOUS
<1>0. ASSUME NoMore(trade, trade') PROVE OfferedOnce'
  BY <1>0, NoMoreOnce DEF OfferedOnce
<1>1. ASSUME NEW p \in Players, NEW q \in Players, HandleInitiateTradeOpcode(p, q)
      PROVE OfferedOnce'
  <2>1. trade' = [trade EXCEPT ![p] = TradeData(q), ![q] = TradeData(p)] /\ trade \in Offers
    BY <1>1 DEF HandleInitiateTradeOpcode, IInv, TradeType
  <2>2. \A r \in Players, s \in AllSlots : TradeData(r).items[s] = None
    BY DEF TradeData
  <2>3. ASSUME NEW x \in Players, trade'[x] # None
        PROVE  trade'[x] \in {TradeData(p), TradeData(q), trade[x]}
    BY <2>1, <2>3 DEF Offers
  <2> QED
    BY <2>2, <2>3 DEF OfferedOnce, Once
<1>2. ASSUME NEW p \in Players, NEW s \in AllSlots, NEW i \in Items,
             HandleSetTradeItemOpcode(p, s, i)
      PROVE OfferedOnce'
  BY <1>2, OfferMore
<1>3. ASSUME NEW p \in Players, NEW s \in AllSlots, HandleClearTradeItemOpcode(p, s)
      PROVE OfferedOnce'
  BY <1>0, <1>3, OfferLess
<1>4. ASSUME NEW p \in Players, NEW money \in 0..MaxMoney, HandleSetTradeGoldOpcode(p, money)
      PROVE OfferedOnce'
  <2>1. Handled(p, trade)
    BY <1>4, HandledNow DEF HandleSetTradeGoldOpcode
  <2> QED
    BY <1>0, <1>4, <2>1, SetMoneyItems, SameIsNoMore DEF HandleSetTradeGoldOpcode
<1>5. ASSUME NEW p \in Players, CheckCast(p) \/ HandleUnacceptTradeOpcode(p)
      PROVE OfferedOnce'
  <2>1. Handled(p, trade) /\ trade \in Offers
    BY <1>5, HandledNow, HandledFacts DEF CheckCast, HandleUnacceptTradeOpcode
  <2>2. CASE CheckCast(p)
    BY <1>0, <2>1, <2>2, SetSpellItems, SameIsNoMore DEF CheckCast
  <2>3. CASE HandleUnacceptTradeOpcode(p)
    BY <1>0, <2>1, <2>3, UnacceptItems, SameIsNoMore DEF HandleUnacceptTradeOpcode
  <2> QED
    BY <1>5, <2>2, <2>3
<1>6. ASSUME NEW p \in Players, HandleAcceptTradeOpcode(p) PROVE OfferedOnce'
  BY <1>0, <1>6, AcceptOffersNoMore
<1>7. ASSUME NEW p \in Players, TradeCancel(p) \/ CleanupsBeforeDelete(p) PROVE OfferedOnce'
  BY <1>0, <1>7, CloseOffersNoMore DEF TradeCancel, CleanupsBeforeDelete
<1>8. ASSUME UNCHANGED trade PROVE OfferedOnce'
  BY <1>8 DEF OfferedOnce, Once
<1>9. ASSUME NEW p \in Players, Return(p) \/ MoneyChanges(p) PROVE OfferedOnce'
  BY <1>8, <1>9 DEF Return, MoneyChanges
<1>10. ASSUME NEW i \in Items, UseUp(i) \/ Bind(i) \/ \E p \in Players : Find(p, i)
       PROVE OfferedOnce'
  BY <1>8, <1>10 DEF UseUp, Bind, Find
<1>11. CASE UNCHANGED vars
  BY <1>8, <1>11 DEF vars
<1> QED
  BY <1>1, <1>2, <1>3, <1>4, <1>5, <1>6, <1>7, <1>9, <1>10, <1>11 DEF Next
-----------------------------------------------------------------------------
(* What moveItems comes to.                                                *)

\* No item is of a kind of which a player may have only so many; where one is,
\* the exchange may lose items.
NoLimits == IsFiniteSet(Items) /\ \A i \in Items : MaxCount[Kind[i]] = 0

\* What p has given when the first s slots have been moved.
Given(p, s) == {GetItem(p, r) : r \in 1..s} \ {None}

\* The owners then.
HandedOver(p, s) ==
    [i \in Items |-> IF i \in Given(p, s) THEN Trader(p)
                     ELSE IF i \in Given(Trader(p), s) THEN p ELSE Removed(p)[i]]

\* The two of a trade whose windows show no item twice.
Pair(p, q) ==
    /\ p \in Players /\ q \in Players /\ p # q
    /\ Trading(p) /\ Trading(q) /\ Trader(p) = q /\ Trader(q) = p

LEMMA GivenOnce ==
    ASSUME OfferedOnce, NEW p \in Players, Trading(p), NEW s \in Slots, GetItem(p, s) # None
    PROVE  GetItem(p, s) \notin Given(p, s - 1) /\ GetItem(p, s) \in Offered(p)
<1>1. ASSUME NEW r \in 1..(s - 1), GetItem(p, r) = GetItem(p, s) PROVE FALSE
  <2>1. r \in AllSlots /\ s \in AllSlots /\ r # s
    BY TradeAssumption DEF Slots, AllSlots, NonTraded
  <2>2. trade[p].items[r] = trade[p].items[s] /\ trade[p].items[s] # None
    BY <1>1 DEF GetItem
  <2> QED
    BY <2>1, <2>2 DEF OfferedOnce, Once, Trading
<1>2. GetItem(p, s) \notin Given(p, s - 1)
  BY <1>1 DEF Given
<1> QED
  BY <1>2 DEF Offered

LEMMA GivenGrows ==
    ASSUME NEW p, NEW s \in Slots
    PROVE  /\ Given(p, s) = Given(p, s - 1) \cup ({GetItem(p, s)} \ {None})
           /\ Given(p, s) \subseteq Offered(p)
<1>1. 1..s = 1..(s - 1) \cup {s} /\ 1..s \subseteq Slots
  BY TradeAssumption DEF Slots
<1> QED
  BY <1>1 DEF Given, Offered

\* In the end all has been given that was offered, and at first nothing.
LEMMA GivenEnds ==
    ASSUME NEW p
    PROVE  Given(p, 0) = {} /\ Given(p, NumSlots) = Offered(p)
<1>1. 1..0 = {}
  OBVIOUS
<1> QED
  BY <1>1 DEF Given, Offered, Slots

\* CanStoreItems counted the item that is now put into the bags of q, and the
\* others he has by now.
LEMMA SlotFits ==
    ASSUME NoLimits, GoodsType, NEW p, NEW q, Pair(p, q), CanStoreItems(q),
           NEW own \in Owners, NEW x \in Offered(p), NEW G, G \subseteq Offered(p), x \notin G,
           own[x] = Gone,
           \A i \in Items : own[i] = q => i \in G \/ i \in Has(q, owner) \ Offered(q)
    PROVE  CanStoreItem(q, x, own)
<1> DEFINE A == Has(q, owner) \ Offered(q)
           B == Offered(p)
           H == Has(q, own)
<1>1. x \in Items /\ A \subseteq Items /\ B \subseteq Items
  BY ItemsOffered
<1>2. IsFiniteSet(Items) /\ IsFiniteSet(A) /\ IsFiniteSet(B)
  BY <1>1, FS_Subset DEF NoLimits
<1>3. H \subseteq A \cup (B \ {x}) /\ x \notin H /\ H \subseteq Items
  BY <1>1, TradeAssumption DEF Has, Pair
<1>4. Cardinality(A) + Cardinality(B) <= Capacity[q]
  BY DEF CanStoreItems, Pair
<1> HIDE DEF A, B, H
<1>5. Cardinality(H) < Capacity[q]
  <2>1. /\ IsFiniteSet(B \ {x}) /\ Cardinality(B \ {x}) = Cardinality(B) - 1
        /\ Cardinality(B) \in Nat /\ Cardinality(A) \in Nat
    BY <1>2, FS_RemoveElement, FS_CardinalityType DEF B
  <2>2. /\ IsFiniteSet(A \cup (B \ {x}))
        /\ Cardinality(A \cup (B \ {x})) =
              Cardinality(A) + Cardinality(B \ {x}) - Cardinality(A \cap (B \ {x}))
    BY <1>2, <2>1, FS_Union
  <2>3. Cardinality(A \cap (B \ {x})) \in Nat
    <3>1. IsFiniteSet(A \cap (B \ {x}))
      BY <1>2, FS_Subset, A \cap (B \ {x}) \subseteq A
    <3> QED
      BY <3>1, FS_CardinalityType
  <2>4. Cardinality(H) <= Cardinality(A \cup (B \ {x})) /\ Cardinality(H) \in Nat
    BY <1>3, <2>2, FS_Subset, FS_CardinalityType
  <2>5. Capacity[q] \in Nat
    BY TradeAssumption DEF Pair
  <2> QED
    BY <1>4, <2>1, <2>2, <2>3, <2>4, <2>5
<1>6. CanTakeMore(q, x, own)
  <2> DEFINE K == {j \in H : Kind[j] = Kind[x]}
  <2>1. K \subseteq Items \ {x}
    BY <1>3
  <2>2. /\ IsFiniteSet(Items \ {x}) /\ Cardinality(Items \ {x}) = Cardinality(Items) - 1
        /\ Cardinality(Items) \in Nat
    BY <1>1, <1>2, FS_RemoveElement, FS_CardinalityType
  <2>3. Cardinality(K) <= Cardinality(Items \ {x}) /\ Cardinality(K) \in Nat
    BY <2>1, <2>2, FS_Subset, FS_CardinalityType
  <2>4. Cardinality(K) < Cardinality(Items)
    BY <2>2, <2>3
  <2>5. Limit(x) = Cardinality(Items)
    BY <1>1 DEF Limit, NoLimits
  <2> QED
    BY <2>4, <2>5 DEF CanTakeMore, Alike, H
<1> QED
  BY <1>5, <1>6 DEF CanStoreItem, H
LEMMA HandedOverFacts ==
    ASSUME GoodsType, NEW p, NEW q, Pair(p, q), NEW s \in 0..NumSlots
    PROVE  LET own == HandedOver(p, s) IN
           /\ own \in Owners
           /\ \A i \in Items :
                /\ own[i] = q => i \in Given(p, s) \/ i \in Has(q, owner) \ Offered(q)
                /\ own[i] = p => i \in Given(q, s) \/ i \in Has(p, owner) \ Offered(p)
                /\ i \in Offered(p) /\ i \notin Given(p, s) => own[i] = Gone
                /\ i \in Offered(q) /\ i \notin Given(q, s) => own[i] = Gone
<1> DEFINE own == HandedOver(p, s)
<1>1. Given(p, s) \subseteq Offered(p) /\ Given(q, s) \subseteq Offered(q)
  <2>1. 1..s \subseteq Slots
    BY TradeAssumption DEF Slots
  <2> QED
    BY <2>1 DEF Given, Offered
<1>2. /\ Offered(p) \subseteq Has(p, owner) /\ Offered(q) \subseteq Has(q, owner)
      /\ \A i \in Has(p, owner) : owner[i] = p
      /\ \A i \in Has(q, owner) : owner[i] = q
  BY ItemsOffered DEF Has
<1>3. p # q /\ p \in Players /\ q \in Players /\ Trader(p) = q /\ p # Gone /\ q # Gone
  BY TradeAssumption DEF Pair
<1>4. \A i \in Items : own[i] = IF i \in Given(p, s) THEN q
                                ELSE IF i \in Given(q, s) THEN p
                                ELSE IF i \in Offered(p) \cup Offered(q) THEN Gone ELSE owner[i]
  BY <1>3 DEF HandedOver, Removed
<1>5. own \in Owners
  BY <1>3 DEF HandedOver, Removed, Owners, GoodsType
<1>6. \A i \in Items : owner[i] = q <=> i \in Has(q, owner)
  BY DEF Has
<1>7. \A i \in Items : owner[i] = p <=> i \in Has(p, owner)
  BY DEF Has
<1> HIDE DEF own
<1>8. ASSUME NEW i \in Items
      PROVE  /\ own[i] = q => i \in Given(p, s) \/ i \in Has(q, owner) \ Offered(q)
             /\ own[i] = p => i \in Given(q, s) \/ i \in Has(p, owner) \ Offered(p)
             /\ i \in Offered(p) /\ i \notin Given(p, s) => own[i] = Gone
             /\ i \in Offered(q) /\ i \notin Given(q, s) => own[i] = Gone
  BY <1>1, <1>2, <1>3, <1>4, <1>6, <1>7
<1> QED
  BY <1>5, <1>8 DEF own

\* Each slot hands both of its items over.
LEMMA SlotHandsOver ==
    ASSUME NoLimits, GoodsType, OfferedOnce, NEW p, NEW q, Pair(p, q),
           CanStoreItems(p), CanStoreItems(q), NEW s \in Slots
    PROVE  MoveSlot(p, GetItem(p, s), GetItem(q, s), HandedOver(p, s - 1)) = HandedOver(p, s)
<1> DEFINE own == HandedOver(p, s - 1)
           x == GetItem(p, s)
           y == GetItem(q, s)
<1>1. Pair(q, p) /\ Trader(p) = q /\ p # q /\ p \in Players /\ q \in Players
  BY DEF Pair
<1>2. s - 1 \in 0..NumSlots
  BY TradeAssumption DEF Slots
<1>3. /\ own \in Owners
      /\ \A i \in Items :
           /\ own[i] = q => i \in Given(p, s - 1) \/ i \in Has(q, owner) \ Offered(q)
           /\ own[i] = p => i \in Given(q, s - 1) \/ i \in Has(p, owner) \ Offered(p)
           /\ i \in Offered(p) /\ i \notin Given(p, s - 1) => own[i] = Gone
           /\ i \in Offered(q) /\ i \notin Given(q, s - 1) => own[i] = Gone
  BY <1>2, HandedOverFacts
<1>4. /\ x # None => x \in Offered(p) /\ x \notin Given(p, s - 1)
      /\ y # None => y \in Offered(q) /\ y \notin Given(q, s - 1)
  BY GivenOnce DEF Pair
<1>5. /\ Given(p, s) = Given(p, s - 1) \cup ({x} \ {None}) /\ Given(p, s) \subseteq Offered(p)
      /\ Given(q, s) = Given(q, s - 1) \cup ({y} \ {None}) /\ Given(q, s) \subseteq Offered(q)
  BY GivenGrows
<1>6. /\ Offered(p) \subseteq Has(p, owner) /\ Offered(q) \subseteq Has(q, owner)
      /\ Has(p, owner) \subseteq Items /\ Has(q, owner) \subseteq Items
      /\ Offered(p) \cap Offered(q) = {}
  BY <1>1, ItemsOffered DEF Has
<1>7. own = [i \in Items |-> IF i \in Given(p, s - 1) THEN q
                             ELSE IF i \in Given(q, s - 1) THEN p ELSE Removed(p)[i]]
  BY <1>1 DEF HandedOver
<1>8. HandedOver(p, s) = [i \in Items |-> IF i \in Given(p, s) THEN q
                                          ELSE IF i \in Given(q, s) THEN p ELSE Removed(p)[i]]
  BY <1>1 DEF HandedOver
<1> HIDE DEF own, x, y
<1>9. x # None => CanStoreItem(q, x, own)
  <2> SUFFICES ASSUME x # None PROVE CanStoreItem(q, x, own)
    OBVIOUS
  <2> DEFINE G == Given(p, s - 1)
  <2>1. /\ x \in Offered(p) /\ G \subseteq Offered(p) /\ x \notin G /\ own[x] = Gone
        /\ \A i \in Items : own[i] = q => i \in G \/ i \in Has(q, owner) \ Offered(q)
    BY <1>3, <1>4, <1>5, <1>6
  <2> HIDE DEF G
  <2> QED
    BY <1>3, <2>1, SlotFits
<1>10. y # None => CanStoreItem(p, y, own)
  <2> SUFFICES ASSUME y # None PROVE CanStoreItem(p, y, own)
    OBVIOUS
  <2> DEFINE G == Given(q, s - 1)
  <2>1. /\ y \in Offered(q) /\ G \subseteq Offered(q) /\ y \notin G /\ own[y] = Gone
        /\ \A i \in Items : own[i] = p => i \in G \/ i \in Has(p, owner) \ Offered(p)
    BY <1>3, <1>4, <1>5, <1>6
  <2> HIDE DEF G
  <2> QED
    BY <1>1, <1>3, <2>1, SlotFits
<1>11. MoveSlot(p, x, y, own) = Put(y, p, Put(x, q, own))
  BY <1>1, <1>9, <1>10 DEF MoveSlot
<1>12. Put(y, p, Put(x, q, own)) \in Owners /\ HandedOver(p, s) \in Owners
  <2>1. x \in Items \cup {None} /\ y \in Items \cup {None}
    BY ItemsOffered DEF x, y
  <2>2. Put(x, q, own) \in Owners
    BY <1>1, <1>3, <2>1 DEF Put, Owners
  <2>3. Put(y, p, Put(x, q, own)) \in Owners
    BY <1>1, <2>1, <2>2 DEF Put, Owners
  <2>4. HandedOver(p, s) \in Owners
    BY <1>1, HandedOverFacts, TradeAssumption DEF Slots
  <2> QED
    BY <2>3, <2>4
<1>13. ASSUME NEW i \in Items PROVE Put(y, p, Put(x, q, own))[i] = HandedOver(p, s)[i]
  <2>1. Put(y, p, Put(x, q, own))[i] = IF i = y THEN p ELSE IF i = x THEN q ELSE own[i]
    <3>1. Put(x, q, own)[i] = IF i = x THEN q ELSE own[i]
      BY <1>3, TradeAssumption DEF Put, Owners
    <3>2. Put(x, q, own) \in Owners
      BY <1>1, <1>3 DEF Put, Owners
    <3> QED
      BY <3>1, <3>2, TradeAssumption DEF Put, Owners
  <2>2. own[i] = IF i \in Given(p, s - 1) THEN q
                 ELSE IF i \in Given(q, s - 1) THEN p ELSE Removed(p)[i]
    BY <1>7
  <2>3. HandedOver(p, s)[i] = IF i \in Given(p, s) THEN q
                              ELSE IF i \in Given(q, s) THEN p ELSE Removed(p)[i]
    BY <1>8
  <2>4. i # None
    BY TradeAssumption
  <2> QED
    BY <1>4, <1>5, <1>6, <2>1, <2>2, <2>3, <2>4
<1>14. Put(y, p, Put(x, q, own)) = HandedOver(p, s)
  <2> DEFINE a == Put(y, p, Put(x, q, own))
             b == HandedOver(p, s)
  <2> HIDE DEF a, b
  <2>1. a \in Owners /\ b \in Owners /\ \A i \in Items : a[i] = b[i]
    BY <1>12, <1>13 DEF a, b
  <2>2. a = b
    BY <2>1 DEF Owners
  <2> QED
    BY <2>2 DEF a, b
<1> QED
  BY <1>11, <1>14 DEF own, x, y

LEMMA AllHandedOver ==
    ASSUME NoLimits, GoodsType, OfferedOnce, NEW p, NEW q, Pair(p, q),
           CanStoreItems(p), CanStoreItems(q)
    PROVE  MoveItems(p) = HandedOver(p, NumSlots)
<1> DEFINE T == {s \in 0..NumSlots : Moved(p)[s] = HandedOver(p, s)}
<1>1. p \in Players /\ Trader(p) \in Players /\ Trader(p) = q /\ NumSlots \in Nat
  BY TradeAssumption DEF Pair
<1>2. /\ Moved(p)[0] = Removed(p)
      /\ \A s \in Slots : Moved(p)[s] =
            MoveSlot(p, GetItem(p, s), GetItem(q, s), Moved(p)[s - 1])
  BY <1>1, MovedEquation
<1>3. 0 \in T
  <2>1. Given(p, 0) = {} /\ Given(q, 0) = {}
    BY GivenEnds
  <2>2. HandedOver(p, 0) = Removed(p)
    BY <1>1, <2>1 DEF HandedOver, Removed
  <2> QED
    BY <1>1, <1>2, <2>2
<1>4. ASSUME NEW s \in 1..NumSlots, s - 1 \in T PROVE s \in T
  <2>1. s \in Slots /\ Moved(p)[s - 1] = HandedOver(p, s - 1)
    BY <1>4 DEF Slots
  <2>2. Moved(p)[s] = HandedOver(p, s)
    BY <1>2, <2>1, SlotHandsOver
  <2> QED
    BY <1>1, <2>2
<1> HIDE DEF T
<1>5. 0..NumSlots \subseteq T
  BY <1>1, <1>3, <1>4, BoundedInduction
<1> QED
  BY <1>1, <1>5 DEF MoveItems, T
-----------------------------------------------------------------------------
(* The exchange is whole.                                                  *)

\* What the exchange means to p.
Whole(p) ==
    /\ trade[p].accepted \/ trade[Trader(p)].accepted
    /\ \A i \in Items : owner'[i] = IF i \in Offered(p) THEN Trader(p)
                                    ELSE IF i \in Offered(Trader(p)) THEN p ELSE owner[i]
    /\ LET sum == gold[p] - trade[p].money + trade[Trader(p)].money
       IN gold'[p] = IF sum < MaxMoney THEN sum ELSE MaxMoney

\* Who has the money he gives pays all of it, and gets what his purse can hold.
LEMMA PaidInFull ==
    ASSUME NEW money \in 0..MaxMoney, NEW give \in 0..MaxMoney, NEW get \in 0..MaxMoney,
           give <= money
    PROVE  ModifyMoney(ModifyMoney(money, -give), get) =
              IF money - give + get < MaxMoney THEN money - give + get ELSE MaxMoney
<1>1. ModifyMoney(money, -give) = money - give
  BY TradeAssumption DEF ModifyMoney
<1>2. money - give \in 0..MaxMoney
  BY TradeAssumption
<1>3. ModifyMoney(money - give, get) =
        IF money - give + get < MaxMoney THEN money - give + get ELSE MaxMoney
  BY <1>2, TradeAssumption DEF ModifyMoney
<1> QED
  BY <1>1, <1>3

LEMMA ExchangeIsWholeForBoth ==
    ASSUME NoLimits, IInv, GoodsType, OfferedOnce, NEW p \in Players, ExecuteTrade(p)
    PROVE  Whole(p) /\ Whole(Trader(p))
<1> DEFINE q == Trader(p)
           give == trade[p].money
           get == trade[q].money
<1>1. /\ Pair(p, q)
      /\ give \in 0..MaxMoney /\ get \in 0..MaxMoney
  BY InExchange DEF Pair
<1>2. /\ CanPay(p) /\ CanPay(q) /\ trade[q].accepted
      /\ CanStoreItems(p) /\ CanStoreItems(q)
      /\ gold' = [gold EXCEPT ![p] = ModifyMoney(ModifyMoney(@, -give), get),
                              ![q] = ModifyMoney(ModifyMoney(@, -get), give)]
      /\ owner' = MoveItems(p)
  BY DEF ExecuteTrade, BothAccept, Payable, Fits
<1>3. give <= gold[p] /\ get <= gold[q]
  BY <1>2 DEF CanPay
<1>4. p # q /\ p \in Players /\ q \in Players /\ Trader(p) = q /\ Trader(q) = p
  BY <1>1 DEF Pair
<1>5. /\ gold \in [Players -> 0..MaxMoney]
      /\ gold[p] \in 0..MaxMoney /\ gold[q] \in 0..MaxMoney
  BY <1>4 DEF GoodsType
<1> HIDE DEF q, give, get
<1>6. /\ gold'[p] = ModifyMoney(ModifyMoney(gold[p], -give), get)
      /\ gold'[q] = ModifyMoney(ModifyMoney(gold[q], -get), give)
  BY <1>2, <1>4, <1>5
<1>7. /\ gold'[p] = IF gold[p] - give + get < MaxMoney THEN gold[p] - give + get ELSE MaxMoney
      /\ gold'[q] = IF gold[q] - get + give < MaxMoney THEN gold[q] - get + give ELSE MaxMoney
  BY <1>1, <1>3, <1>5, <1>6, PaidInFull
<1>8. owner' = HandedOver(p, NumSlots)
  BY <1>1, <1>2, AllHandedOver
<1>9. ASSUME NEW i \in Items
      PROVE owner'[i] = IF i \in Offered(p) THEN q ELSE IF i \in Offered(q) THEN p ELSE owner[i]
  <2>1. /\ Given(p, NumSlots) = Offered(p) /\ Given(q, NumSlots) = Offered(q)
        /\ Trader(p) = q
    BY <1>4, GivenEnds
  <2> QED
    BY <1>8, <2>1 DEF HandedOver, Removed
<1>10. Offered(p) \cap Offered(q) = {}
  BY <1>4, ItemsOffered DEF Has
<1>11. Whole(p)
  <2>1. gold[p] - trade[p].money + trade[Trader(p)].money = gold[p] - give + get
    BY <1>4 DEF give, get
  <2> QED
    BY <1>2, <1>4, <1>7, <1>9, <2>1 DEF Whole
<1>12. Whole(q)
  <2>1. gold[q] - trade[q].money + trade[Trader(q)].money = gold[q] - get + give
    BY <1>4 DEF give, get
  <2>2. \A i \in Items : owner'[i] = IF i \in Offered(q) THEN p
                                     ELSE IF i \in Offered(p) THEN q ELSE owner[i]
    BY <1>9, <1>10
  <2> QED
    BY <1>2, <1>4, <1>7, <2>1, <2>2 DEF Whole
<1> QED
  BY <1>11, <1>12 DEF q

\* A step that closes a trade and moves goods is the exchange of that trade.
LEMMA GoodsMoveInExchange ==
    ASSUME IInv, [Next]_vars, NEW p \in Players, Trading(p), trade'[p] = None, goods' # goods
    PROVE  \E x \in Players : ExecuteTrade(x) /\ p \in {x, Trader(x)}
<1>1. PICK x \in Players : HandleAcceptTradeOpcode(x)
  <2>1. UNCHANGED trade => FALSE
    BY DEF Trading
  <2>2. ~UNCHANGED goods
    OBVIOUS
  <2> QED
    BY <2>1, <2>2 DEF Next, vars, HandleInitiateTradeOpcode, HandleSetTradeItemOpcode,
       HandleClearTradeItemOpcode, HandleSetTradeGoldOpcode, CheckCast, HandleUnacceptTradeOpcode,
       TradeCancel, CleanupsBeforeDelete, Return, MoneyChanges, UseUp, Bind, Find
<1>2. ExecuteTrade(x)
  BY <1>1, AcceptLeavesGoods
<1>3. trade' = [trade EXCEPT ![x] = None, ![Trader(x)] = None]
  <2>1. Trading(x) /\ CloseTrade(x)
    BY <1>2 DEF ExecuteTrade, BothAccept, Payable
  <2> QED
    BY <2>1 DEF CloseTrade
<1>4. p \notin {x, Trader(x)} => trade'[p] = trade[p]
  BY <1>3 DEF IInv, TradeType, Offers
<1> QED
  BY <1>2, <1>4 DEF Trading

\* Where no item is of a kind of which a player may have only so many, an
\* exchange needs both acceptances and is whole: moveItems finds a place for
\* every item, for canStoreItemsInTrade has counted them all, and each side
\* pays and gets what the windows show.
THEOREM ExchangesAreWhole ==
    ASSUME NoLimits
    PROVE  Spec => ExchangeIsWhole
<1>1. Init => OfferedOnce
  BY DEF Init, OfferedOnce, Once
<1>2. Spec => []OfferedOnce
  BY <1>1, InductiveInvariant, NextOnce, PTL DEF Spec
<1>3. ASSUME IInv, GoodsType, OfferedOnce, [Next]_vars
      PROVE  [\A p \in Players : Trading(p) /\ trade'[p] = None /\ goods' # goods => Whole(p)]_vars
  <2>1. ASSUME NEW p \in Players, Trading(p), trade'[p] = None, goods' # goods PROVE Whole(p)
    <3>1. PICK x \in Players : ExecuteTrade(x) /\ p \in {x, Trader(x)}
      BY <1>3, <2>1, GoodsMoveInExchange
    <3> QED
      BY <1>3, <3>1, ExchangeIsWholeForBoth
  <2> QED
    BY <2>1
<1>4. Spec => [][\A p \in Players : Trading(p) /\ trade'[p] = None /\ goods' # goods => Whole(p)]_vars
  BY <1>2, <1>3, GoodsInvariant, PTL DEF Spec
<1> QED
  BY <1>4 DEF ExchangeIsWhole, Whole
=============================================================================
