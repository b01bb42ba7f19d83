----------------------------- MODULE AuctionMail -----------------------------
(***************************************************************************)
(* The auction house and the mail, with the login and logout of the        *)
(* characters and the requests to the character database.                  *)
(*                                                                         *)
(* All handlers and the world update run on the world thread.  What they   *)
(* save is queued and executed in order by the delay thread; the query for *)
(* old mails is sent directly and sees what has been executed so far.  The *)
(* time a mail takes and the time an auction lasts are left open: any step *)
(* that a time only delays may be taken.                                   *)
(***************************************************************************)
EXTENDS CharacterTables, FiniteSetsExt

CONSTANTS
    Starts,         \* bound: who has which gold and items at first
    Half,           \* 2^31: money is kept in a uint32 and changed by an int32
    Postage,        \* the fee of a mail
    Deposit,        \* the deposit for each item
    CutShare,       \* the house takes one part in CutShare of the price
    StartBids,      \* bound: the start bids and
    Buyouts,        \* the buyout prices a seller may ask, 0 for none
    Amounts,        \* bound: the money a packet says a mail carries and
    Prices,         \* bound: the money it asks for on delivery, 0 for none
    MaxQueue,       \* bound: handlers wait while more requests are queued
    MaxEvents       \* bound: events, and mails marked, returned or swept

ASSUME AuctionMailAssumption ==
    /\ Half \in Nat \ {0, 1}
    /\ Starts \subseteq [gold : [Players -> 0..(Half - 2)], holder : [Items -> Players \cup {None}]]
    /\ Postage \in Nat /\ Deposit \in [Items -> Nat] /\ CutShare \in Nat \ {0}
    /\ StartBids \subseteq Nat \ {0} /\ Buyouts \subseteq Nat /\ Amounts \subseteq Nat
    /\ Prices \subseteq Nat
    /\ MaxQueue \in Nat /\ MaxEvents \in Nat
    /\ MaxMails \in Nat
    /\ None \notin Players \cup Items \cup MailIds \cup MailRow \cup Link \cup Auction

VARIABLES
    phase,      \* "offline", "loading" or "online"
    loaded,     \* the result of a login's queries, None until they are done
    gold,       \* PLAYER_FIELD_COINAGE of the characters online
    bags,       \* their items
    mails,      \* Player::m_mail with the items of mMitems
    dirty,      \* Player::m_mailsUpdated
    house,      \* the auctions, by item
    db,         \* the tables
    queue,      \* the requests of the delay thread
    lastMail,   \* ObjectMgr::m_MailIds, the last id given out
    settled,    \* the tables once all requests are done: Settled(db, queue) (history)
    events,     \* logouts, and mails marked, returned or swept, so far
    thrown,     \* the items of mails of the auction house that were "returned" (history)
    swept       \* a mail was returned or deleted under its receiver's hands (history)

vars == <<phase, loaded, gold, bags, mails, dirty, house, db, queue, settled, lastMail, events, thrown,
          swept>>
characters == <<phase, loaded>>
world == <<phase, loaded, events>>
history == <<thrown, swept>>
requests == <<queue, settled>>

online(p) == phase[p] = "online"
ready(p) == online(p) /\ Len(queue) <= MaxQueue

Init ==
    /\ \E start \in Starts :
          db = [money |-> start.gold,
                character_inventory |-> start.holder,
                item_instance |-> [i \in Items |-> IF start.holder[i] # None THEN i ELSE None],
                mail |-> [id \in MailIds |-> None],
                mail_items |-> [i \in Items |-> None],
                auction |-> [i \in Items |-> None]]
    /\ phase = [p \in Players |-> "online"]
    /\ loaded = [p \in Players |-> None]
    /\ gold = db.money
    /\ bags = [p \in Players |-> LoadInventory(db, p)]
    /\ mails = [p \in Players |-> {}]
    /\ dirty = [p \in Players |-> FALSE]
    /\ house = db.auction
    /\ queue = <<>>
    /\ settled = db
    /\ lastMail = 0
    /\ events = 0
    /\ thrown = {}
    /\ swept = FALSE
-----------------------------------------------------------------------------
\* Something that is bounded happens.
Event == events < MaxEvents /\ events' = events + 1

Request(reqs) == /\ queue' = queue \o reqs
                 /\ settled' = Settled(settled, reqs)

\* Mails.

\* GenerateMailID: the ids of n mails.
NewId(n) == lastMail + n

GenerateMailID(n) == /\ lastMail + n <= MaxMails
                     /\ lastMail' = lastMail + n

Draft(id, type, from, to, money, cod, item) ==
    [id |-> id, messageType |-> type, sender |-> from, receiver |-> to, money |-> money,
     cod |-> cod, returned |-> FALSE, item |-> item, state |-> "unchanged"]

\* What SendMailTo does for receivers online; the mail itself is queued.
Received(drafts) == [p \in Players |-> mails[p] \cup
                       {d \in drafts : d.receiver = p /\ online(p)}]

\* The requests of a set of at most one draft.
Sent(drafts) == IF drafts = {} THEN <<>> ELSE <<InsertMail(CHOOSE d \in drafts : TRUE)>>

GetMail(p, m) == m \in mails[p]

\* Neither deleted nor still on its way.
Usable(p, m) == GetMail(p, m) /\ m.state # "deleted"

SaveGold(p, amount) == Put("money", p, amount)

\* Player::_SaveMail: the statements, and the mails that stay in memory.
MailStatements(m) ==
    CASE m.state = "changed" ->
            {Update("mail", m.id, [money |-> m.money, cod |-> m.cod, returned |-> m.returned])}
      [] m.state = "deleted" ->
            {Delete("mail", m.id), Unlink(m.id)} \cup
            IF m.item = None THEN {} ELSE {Delete("item_instance", m.item)}
      [] OTHER -> {}

SaveMail(box) == UNION {MailStatements(m) : m \in box}

Saved(box) == {[m EXCEPT !.state = "unchanged"] : m \in {x \in box : x.state # "deleted"}}

\* Mutant: the row of the inventory stays.
MoveItemInMemory(item) == <<>>

\* The item leaves the inventory in a transaction of its own.
MoveItemFromInventory(item) ==
    IF item = None THEN <<>> ELSE <<Txn({Delete("character_inventory", item)})>>

\* Mutant: the mail is saved in a transaction of its own.
SaveTakenInTwo(p, m, left, box) ==
    <<Txn({Put("item_instance", m.item, m.item), Put("character_inventory", m.item, p),
           SaveGold(p, left)}),
      Txn(SaveMail(box) \cup {Delete("mail_items", m.item)})>>

\* What taking the item out of mail m saves, with the purse and the box that are left.
SaveTaken(p, m, left, box) ==
    <<Txn({Put("item_instance", m.item, m.item), Put("character_inventory", m.item, p),
           SaveGold(p, left), Delete("mail_items", m.item)} \cup SaveMail(box))>>
-----------------------------------------------------------------------------
\* The mail handlers.

uint32(x) == x % (2 * Half)

int32(x) == IF x < Half THEN x ELSE x - 2 * Half

\* MAX_MONEY_AMOUNT
MaxMoney == Half - 2

\* Mutant: whatever its sign, the amount is added.
ModifyMoneyUnsigned(purse, d) == purse + uint32(d)

\* Player::ModifyMoney: what a purse holds after d.
ModifyMoney(purse, d) ==
    IF d < 0 THEN IF purse > -d THEN purse + d ELSE 0
    ELSE IF purse < uint32(MaxMoney - d) THEN purse + d ELSE MaxMoney

\* Mutant: no test.
CanPayAnything(p, amount) == TRUE

CanPay(p, amount) == gold[p] >= amount

\* The sum of the money and the postage may wrap: then only the rest is asked for.
HandleSendMail(p, to, item, money, cod) ==
    LET d == Draft(NewId(1), "normal", p, to, money, cod, item)
        reqmoney == uint32(money + Postage)
        left == gold[p] - reqmoney
    IN /\ ready(p) /\ to # p
       /\ ~(money > 0 /\ cod > 0)
       /\ CanPay(p, reqmoney)
       /\ item \in bags[p] \cup {None}
       /\ GenerateMailID(1)
       /\ gold' = [gold EXCEPT ![p] = left]
       /\ bags' = [bags EXCEPT ![p] = @ \ {item}]
       /\ mails' = Received({d})
       /\ Request(MoveItemFromInventory(item) \o <<InsertMail(d), Txn({SaveGold(p, left)})>>)
       /\ UNCHANGED <<world, dirty, house, db, history>>

\* A sum of Half or more is taken away instead of given.
HandleMailTakeMoney(p, m) ==
    LET box == (mails[p] \ {m}) \cup {[m EXCEPT !.money = 0, !.state = "changed"]}
        purse == ModifyMoney(gold[p], int32(m.money))
    IN /\ ready(p) /\ Usable(p, m)
       /\ gold' = [gold EXCEPT ![p] = purse]
       /\ mails' = [mails EXCEPT ![p] = Saved(box)]
       /\ dirty' = [dirty EXCEPT ![p] = FALSE]
       /\ Request(<<Txn({SaveGold(p, purse)} \cup SaveMail(box))>>)
       /\ UNCHANGED <<world, bags, house, db, lastMail, history>>

\* Nothing tests that the mail has an item; the one read from a mail without is taken to be
\* no item of the player's mails, for which CanStoreItem refuses.
HandleMailTakeItem(p, m) ==
    LET box == (mails[p] \ {m})
                 \cup {[m EXCEPT !.item = None, !.cod = 0, !.state = "changed"]}
        left == gold[p] - m.cod
        payment == IF m.cod = 0 THEN {}
                   ELSE {Draft(NewId(1), "normal", p, m.sender, m.cod, 0, None)}
    IN /\ ready(p) /\ Usable(p, m)
       /\ m.item # None
       /\ CanPay(p, m.cod)
       /\ GenerateMailID(Cardinality(payment))
       /\ gold' = [gold EXCEPT ![p] = left]
       /\ bags' = [bags EXCEPT ![p] = @ \cup {m.item}]
       /\ mails' = [Received(payment) EXCEPT ![p] = Saved(box)]
       /\ dirty' = [dirty EXCEPT ![p] = FALSE]
       /\ Request(Sent(payment) \o SaveTaken(p, m, left, box))
       /\ UNCHANGED <<world, house, db, history>>

HandleMailReturnToSender(p, m) ==
    LET d == Draft(NewId(1), "normal", p, m.sender, m.money, 0, m.item)
        back == [d EXCEPT !.returned = TRUE]
        sent == IF m.messageType = "normal" THEN {back} ELSE {}
    IN /\ ready(p) /\ Event /\ Usable(p, m)
       /\ GenerateMailID(Cardinality(sent))
       /\ mails' = [Received(sent) EXCEPT ![p] = @ \ {m}]
       /\ Request(<<Txn({Delete("mail", m.id), Unlink(m.id)})>> \o Sent(sent))
       /\ thrown' = IF sent = {} THEN thrown \cup {m.item} ELSE thrown
       /\ UNCHANGED <<characters, gold, bags, dirty, house, db, swept>>

HandleMailMarkAsRead(p, m) ==
    /\ ready(p) /\ Event /\ GetMail(p, m)
    /\ mails' = [mails EXCEPT ![p] = (@ \ {m}) \cup {[m EXCEPT !.state = "changed"]}]
    /\ dirty' = [dirty EXCEPT ![p] = TRUE]
    /\ UNCHANGED <<characters, gold, bags, house, db, requests, lastMail, history>>

HandleMailDelete(p, m) ==
    /\ ready(p) /\ Event /\ GetMail(p, m)
    /\ mails' = IF m.cod > 0 THEN mails
                ELSE [mails EXCEPT ![p] = (@ \ {m}) \cup {[m EXCEPT !.state = "deleted"]}]
    /\ dirty' = [dirty EXCEPT ![p] = TRUE]
    /\ UNCHANGED <<characters, gold, bags, house, db, requests, lastMail, history>>
-----------------------------------------------------------------------------
\* Auctions.

GetAuctionCut(price) == price \div CutShare

GetAuctionOutBid(bid) == IF (bid \div 100) * 5 = 0 THEN 1 ELSE (bid \div 100) * 5

AuctionLetter(id, to, money, item) == Draft(id, "auction", None, to, money, 0, item)

HandleAuctionSellItem(p, i, startbid, buyout) ==
    LET a == [owner |-> p, startbid |-> startbid, buyout |-> buyout, bid |-> 0, bidder |-> None]
    IN /\ ready(p)
       /\ i \in bags[p]
       /\ house[i] = None
       /\ CanPay(p, Deposit[i])
       /\ gold' = [gold EXCEPT ![p] = @ - Deposit[i]]
       /\ bags' = [bags EXCEPT ![p] = @ \ {i}]
       /\ house' = [house EXCEPT ![i] = a]
       /\ Request(<<Txn({Delete("character_inventory", i), Put("auction", i, a),
                         SaveGold(p, gold[p] - Deposit[i])})>>)
       /\ UNCHANGED <<world, mails, dirty, db, lastMail, history>>

\* AuctionBidWinning of auction a of item i, after k other mails; save is what a bidder who buys
\* saves.
BidWinning(i, a, k, save) ==
    LET profit == a.bid + Deposit[i] - GetAuctionCut(a.bid)
        successful == AuctionLetter(NewId(k + 1), a.owner, profit, None)
        won == AuctionLetter(NewId(k + 2), a.bidder, 0, i)
    IN [drafts |-> {successful, won},
        requests |-> <<InsertMail(successful), InsertMail(won),
                       Txn({Delete("auction", i)} \cup save)>>]

\* Mutant: the mail is sent after the new bid is entered.
OutbiddedMailLate(a, b) == AuctionLetter(NewId(1), b.bidder, b.bid, None)

\* The old bidder of a gets his money back when a becomes b.
OutbiddedMail(a, b) == AuctionLetter(NewId(1), a.bidder, a.bid, None)

\* Mutant: only the auction is saved.
SaveBidOnly(i, b, left) == Txn({Update("auction", i, [bidder |-> b.bidder, bid |-> b.bid])})

SaveBid(i, b, left) ==
    Txn({Update("auction", i, [bidder |-> b.bidder, bid |-> b.bid]), SaveGold(b.bidder, left)})

\* HandleAuctionPlaceBid and UpdateBid; every character has an account of its own.
HandleAuctionPlaceBid(p, i, price) ==
    LET a == house[i]
        newbid == IF a.buyout # 0 /\ price > a.buyout THEN a.buyout ELSE price
        left == gold[p] - (IF a.bidder = p THEN newbid - a.bid ELSE newbid)
        b == [a EXCEPT !.bidder = p, !.bid = newbid]
        wins == ~(newbid < a.buyout \/ a.buyout = 0)
        outbid == IF a.bidder \in {p, None} THEN {}
                  ELSE {OutbiddedMail(a, b)}
        win == BidWinning(i, b, Cardinality(outbid), {SaveGold(p, left)})
    IN /\ ready(p)
       /\ a # None /\ a.owner # p
       /\ price > a.bid
       /\ a.buyout = 0 \/ price < a.buyout => price >= a.bid + GetAuctionOutBid(a.bid)
       /\ CanPay(p, price)
       /\ price >= a.startbid
       /\ gold' = [gold EXCEPT ![p] = left]
       /\ GenerateMailID(Cardinality(outbid) + IF wins THEN 2 ELSE 0)
       /\ IF ~wins
          THEN /\ house' = [house EXCEPT ![i] = b]
               /\ mails' = Received(outbid)
               /\ Request(Append(Sent(outbid), SaveBid(i, b, left)))
          ELSE /\ house' = [house EXCEPT ![i] = None]
               /\ mails' = Received(outbid \cup win.drafts)
               /\ Request(Sent(outbid) \o win.requests)
       /\ UNCHANGED <<world, bags, dirty, db, history>>

HandleAuctionRemoveItem(p, i) ==
    LET a == house[i]
        left == IF a.bid = 0 THEN gold[p] ELSE gold[p] - GetAuctionCut(a.bid)
        cancelled == IF a.bidder = None THEN {}
                     ELSE {AuctionLetter(NewId(1), a.bidder, a.bid, None)}
        back == AuctionLetter(NewId(Cardinality(cancelled) + 1), p, 0, i)
    IN /\ ready(p)
       /\ a # None /\ a.owner = p
       /\ a.bid # 0 => CanPay(p, GetAuctionCut(a.bid))
       /\ GenerateMailID(Cardinality(cancelled) + 1)
       /\ gold' = [gold EXCEPT ![p] = left]
       /\ house' = [house EXCEPT ![i] = None]
       /\ mails' = Received(cancelled \cup {back})
       /\ Request(Sent(cancelled)
            \o <<InsertMail(back), Txn({Delete("auction", i), SaveGold(p, left)})>>)
       /\ UNCHANGED <<world, bags, dirty, db, history>>

\* The auction of item i ends.
AuctionUpdate(i) ==
    LET a == house[i]
        win == BidWinning(i, a, 0, {})
        expired == AuctionLetter(NewId(1), a.owner, 0, i)
    IN /\ a # None
       /\ Len(queue) <= MaxQueue
       /\ GenerateMailID(IF a.bid # 0 THEN 2 ELSE 1)
       /\ house' = [house EXCEPT ![i] = None]
       /\ IF a.bid # 0
          THEN /\ mails' = Received(win.drafts)
               /\ Request(win.requests)
          ELSE /\ mails' = Received({expired})
               /\ Request(<<InsertMail(expired), Txn({Delete("auction", i)})>>)
       /\ UNCHANGED <<world, gold, bags, dirty, db, history>>
-----------------------------------------------------------------------------
\* ReturnOrDeleteOldMails, for one mail that has expired.

\* The item of a mail, which has one at most.
MailItem(id) ==
    LET items == {i \in Items : db.mail_items[i] # None /\ db.mail_items[i].mail_id = id}
    IN IF items = {} THEN None ELSE CHOOSE i \in items : TRUE

LinksOf(t, id) == {<<i, t.mail_items[i]>> : i \in {j \in Items :
                      t.mail_items[j] # None /\ t.mail_items[j].mail_id = id}}

\* The receiver has loaded or loads what is swept, or a request that is still queued changes
\* the mail or what it carries.
InUse(id) == \/ phase[db.mail[id].receiver] # "offline"
             \/ settled.mail[id] # db.mail[id]
             \/ LinksOf(settled, id) # LinksOf(db, id)

\* Spared is a receiver who is in the world; one who is between two maps is not, and any who
\* is online may be there.
ReturnOrDeleteOldMail(id) ==
    LET row == db.mail[id]
        i == MailItem(id)
        returned == i # None /\ row.messageType = "normal" /\ ~row.returned
    IN /\ row # None /\ Event
       /\ Request(
            IF returned
            THEN <<Txn({Update("mail", id, [sender |-> row.receiver, receiver |-> row.sender,
                                            cod |-> 0, returned |-> TRUE])}),
                   Txn({Update("mail_items", i, [receiver |-> row.sender])})>>
            ELSE (IF i = None THEN <<>> ELSE <<Txn({Delete("item_instance", i)})>>)
                 \o <<Txn({Delete("mail", id)})>>)
       /\ swept' = (swept \/ InUse(id))
       /\ UNCHANGED <<characters, gold, bags, mails, dirty, house, db, lastMail, thrown>>
-----------------------------------------------------------------------------
\* Logout, save, login and the delay thread.

\* Player::SaveToDB
SaveToDB(p) == Txn({SaveGold(p, gold[p])} \cup IF dirty[p] THEN SaveMail(mails[p]) ELSE {})

PeriodicSave(p) ==
    /\ ready(p) /\ dirty[p]
    /\ Request(<<SaveToDB(p)>>)
    /\ mails' = [mails EXCEPT ![p] = Saved(@)]
    /\ dirty' = [dirty EXCEPT ![p] = FALSE]
    /\ UNCHANGED <<world, gold, bags, house, db, lastMail, history>>

LogoutPlayer(p) ==
    /\ online(p) /\ Event
    /\ Request(<<SaveToDB(p)>>)
    /\ phase' = [phase EXCEPT ![p] = "offline"]
    /\ gold' = [gold EXCEPT ![p] = 0]
    /\ bags' = [bags EXCEPT ![p] = {}]
    /\ mails' = [mails EXCEPT ![p] = {}]
    /\ dirty' = [dirty EXCEPT ![p] = FALSE]
    /\ UNCHANGED <<loaded, house, db, lastMail, history>>

\* Mutant: the queries overtake what the logout has queued.
LoginAtOnce(p) ==
    /\ phase[p] = "offline"
    /\ phase' = [phase EXCEPT ![p] = "loading"]
    /\ loaded' = [loaded EXCEPT ![p] = Load(db, p)]
    /\ UNCHANGED <<events, gold, bags, mails, dirty, house, db, requests, lastMail, history>>

HandlePlayerLoginOpcode(p) ==
    /\ phase[p] = "offline"
    /\ phase' = [phase EXCEPT ![p] = "loading"]
    /\ Request(<<LoginQuery(p)>>)
    /\ UNCHANGED <<loaded, events, gold, bags, mails, dirty, house, db, lastMail, history>>

\* The delay thread does the next request.
Execute ==
    /\ queue # <<>>
    /\ queue' = Tail(queue)
    /\ db' = Committed(db, Head(queue))
    /\ loaded' = IF Head(queue).player = None THEN loaded
                 ELSE [loaded EXCEPT ![Head(queue).player] = Load(db, Head(queue).player)]
    /\ UNCHANGED <<phase, events, gold, bags, mails, dirty, house, settled, lastMail, history>>

HandlePlayerLogin(p) ==
    /\ loaded[p] # None
    /\ phase' = [phase EXCEPT ![p] = "online"]
    /\ gold' = [gold EXCEPT ![p] = loaded[p].gold]
    /\ bags' = [bags EXCEPT ![p] = loaded[p].bags]
    /\ mails' = [mails EXCEPT ![p] = loaded[p].mails]
    /\ loaded' = [loaded EXCEPT ![p] = None]
    /\ UNCHANGED <<events, dirty, house, db, requests, lastMail, history>>

MailStep(p) ==
    \/ \E to \in Players, item \in Items \cup {None}, money \in Amounts, cod \in Prices :
          HandleSendMail(p, to, item, money, cod)
    \/ \E m \in mails[p] : \/ HandleMailTakeMoney(p, m)
                           \/ HandleMailTakeItem(p, m)
                           \/ HandleMailReturnToSender(p, m)
                           \/ HandleMailMarkAsRead(p, m)
                           \/ HandleMailDelete(p, m)

AuctionStep(p) ==
    \E i \in Items :
       \/ \E startbid \in StartBids, buyout \in Buyouts : HandleAuctionSellItem(p, i, startbid, buyout)
       \/ \E price \in 1..gold[p] : HandleAuctionPlaceBid(p, i, price)
       \/ HandleAuctionRemoveItem(p, i)

Next == \/ \E p \in Players : \/ MailStep(p)
                              \/ AuctionStep(p)
                              \/ PeriodicSave(p)
                              \/ LogoutPlayer(p)
                              \/ HandlePlayerLoginOpcode(p)
                              \/ HandlePlayerLogin(p)
        \/ \E i \in Items : AuctionUpdate(i)
        \/ \E id \in MailIds : ReturnOrDeleteOldMail(id)
        \/ Execute

Spec == Init /\ [][Next]_vars
-----------------------------------------------------------------------------
\* The tables hold what their columns may hold, and memory what its classes may hold: a purse
\* never goes below zero.
TypeOK ==
    /\ phase \in [Players -> {"offline", "loading", "online"}]
    /\ gold \in [Players -> Nat] /\ bags \in [Players -> SUBSET Items]
    /\ \A p \in Players, m \in UNION {mails[q] : q \in Players} :
          /\ Row(m) \in MailRow
          /\ m.id \in MailIds /\ m.item \in Items \cup {None}
          /\ m.state \in {"unchanged", "changed", "deleted"}
    /\ dirty \in [Players -> BOOLEAN] /\ swept \in BOOLEAN
    /\ house \in [Items -> Auction \cup {None}]
    /\ db.money \in [Players -> Nat]
    /\ db.mail \in [MailIds -> MailRow \cup {None}]
    /\ db.auction \in [Items -> Auction \cup {None}]
-----------------------------------------------------------------------------
\* Properties.

\* The mails that have item i in them, for a receiver who logs in on tables t.
Carriers(t, i) == {id \in MailIds : t.mail[id] # None /\ MailedItem(t, id) = i}

Held(t, i) == t.character_inventory[i] # None /\ Exists(t, i)

OnSale(t, i) == t.auction[i] # None /\ Exists(t, i)

\* Once the queue is empty every item is in one place: in an inventory, in a mail or in an auction.
\* Only an old mail that is swept while its receiver uses it can double one; an item whose mail
\* from the auction house is returned is gone.
ItemsInOnePlace ==
    ~swept => \A i \in Items :
        /\ Cardinality(Carriers(settled, i)) <= 1
        /\ ~(Held(settled, i) /\ Carriers(settled, i) # {})
        /\ ~(OnSale(settled, i) /\ (Held(settled, i) \/ Carriers(settled, i) # {}))
        /\ Exists(settled, i) /\ i \notin thrown =>
              Held(settled, i) \/ OnSale(settled, i) \/ Carriers(settled, i) # {}

\* What the world holds in memory has been sent to the database: the purse, the inventory and the
\* mails of every character online, but for mails only marked, and the auctions.  Nothing has to be
\* saved again before the server stops.
MemoryIsSaved ==
    /\ house = settled.auction
    /\ \A p \in Players : online(p) =>
          /\ gold[p] = settled.money[p]
          /\ ~swept => /\ bags[p] = LoadInventory(settled, p)
                       /\ \A m \in mails[p] : /\ settled.mail[m.id] = Row(m)
                                              /\ MailedItem(settled, m.id) = m.item

\* Wherever in the queue a crash stops the delay thread, no item is in two hands after the restart:
\* at most an auction that has ended comes back although its mail has been sent, when the request
\* to delete it was still queued.
CrashLeavesOneHand ==
    ~swept => \A i \in Items :
        /\ Cardinality(Carriers(db, i)) <= 1
        /\ ~(Held(db, i) /\ (OnSale(db, i) \/ Carriers(db, i) # {}))
        /\ OnSale(db, i) /\ Carriers(db, i) # {} =>
              \E n \in DOMAIN queue : Delete("auction", i) \in queue[n].body

\* A login in progress has the purse and the inventory its character left with: nothing changes
\* them until he is in the world.
LoginIsCurrent ==
    \A p \in Players : loaded[p] # None => /\ loaded[p].gold = settled.money[p]
                                           /\ ~swept => loaded[p].bags = LoadInventory(settled, p)
-----------------------------------------------------------------------------
\* The market that the players see.

CarrierOf(i) == CHOOSE id \in Carriers(settled, i) : TRUE

\* A mail that asks for money on delivery is still the sender's.
ownerOf == [i \in Items |->
    CASE Held(settled, i) -> settled.character_inventory[i]
      [] ~Held(settled, i) /\ OnSale(settled, i) -> settled.auction[i].owner
      [] ~Held(settled, i) /\ ~OnSale(settled, i) /\ Carriers(settled, i) # {} ->
            LET row == settled.mail[CarrierOf(i)]
            IN IF row.cod > 0 THEN row.sender ELSE row.receiver
      [] OTHER -> None]

\* What a mail adds to the purse of who takes it.
Yield(money) == IF money < Half THEN money ELSE 0

MailMoney(p) == MapThenSumSet(LAMBDA id : Yield(settled.mail[id].money),
                    {id \in MailIds : settled.mail[id] # None /\ settled.mail[id].receiver = p})

Escrow(p) == MapThenSumSet(LAMBDA i : settled.auction[i].bid,
                 {i \in Items : settled.auction[i] # None /\ settled.auction[i].bidder = p})

Deposits(p) == MapThenSumSet(LAMBDA i : Deposit[i],
                   {i \in Items : settled.auction[i] # None /\ settled.auction[i].owner = p})

wealthOf == [p \in Players |-> settled.money[p] + MailMoney(p) + Escrow(p) + Deposits(p)]

M == INSTANCE Market WITH Nobody <- None, owner <- ownerOf, wealth <- wealthOf

\* Whatever the order of handlers, ends of auctions, events, logins and requests, items and money
\* change hands only as gifts and sales, until an old mail is swept while its receiver uses it.
ImplementsMarket == M!Init /\ [][swept' \/ M!Next]_<<ownerOf, wealthOf, swept>>
=============================================================================
