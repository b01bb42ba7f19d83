-------------------------- MODULE CharacterTables --------------------------
(***************************************************************************)
(* The tables of the character database in which items and money are, and  *)
(* the statements that the auction house and the mail send to them.        *)
(*                                                                         *)
(* A row that is absent is None.  The owner column of item_instance serves *)
(* only the deletion of characters and is left out.                        *)
(***************************************************************************)
EXTENDS Integers, Sequences, FiniteSets

CONSTANTS
    Players,    \* the characters
    Items,      \* the items, full stacks that are never split
    MaxMails,   \* bound: mails ever sent
    None        \* no row, no player, no item

MailIds == 1..MaxMails

\* The rows of the tables that have several columns.
MailRow == [messageType : {"normal", "auction"}, sender : Players \cup {None},
            receiver : Players, money : Nat, cod : Nat, returned : BOOLEAN]

Link == [mail_id : MailIds, receiver : Players]

Auction == [owner : Players, startbid : Nat, buyout : Nat, bid : Nat, bidder : Players \cup {None}]

\* A statement on one row of a table: all of it, some columns of a row that exists, or its deletion.
Put(table, key, row) == <<table, key, "put", row>>
Update(table, key, cols) == <<table, key, "update", cols>>
Delete(table, key) == <<table, key, "delete", None>>

\* DELETE FROM mail_items WHERE mail_id = id
Unlink(id) == Delete("mail_items_of", id)

\* A request of the delay thread: the statements of a transaction, or the queries of a login.
\* No two statements of a transaction put the same row, and a row that is deleted is deleted last.
Txn(body) == [player |-> None, body |-> body]
LoginQuery(p) == [player |-> p, body |-> {}]

\* The row after statements sts on it.
Written(row, sts) ==
    LET st == CHOOSE x \in sts : TRUE
    IN CASE sts = {} -> row
         [] \E x \in sts : x[3] = "delete" -> None
         [] OTHER -> IF st[3] = "put" THEN st[4]
                     ELSE IF row = None THEN None
                     ELSE [c \in DOMAIN row |-> IF c \in DOMAIN st[4] THEN st[4][c] ELSE row[c]]

On(sts, table, key) == {st \in sts : st[1] = table /\ st[2] = key}

\* A table, and the links of the mails, after statements sts.
After(rows, table, sts) == [key \in DOMAIN rows |-> Written(rows[key], On(sts, table, key))]

Unlinks(sts, link) == link # None /\ On(sts, "mail_items_of", link.mail_id) # {}

Unlinked(links, sts) ==
    [i \in DOMAIN links |-> IF Unlinks(sts, links[i]) THEN None ELSE links[i]]

Committed(db, request) ==
    LET sts == request.body
    IN [money |-> After(db.money, "money", sts),
        character_inventory |-> After(db.character_inventory, "character_inventory", sts),
        item_instance |-> After(db.item_instance, "item_instance", sts),
        mail |-> After(db.mail, "mail", sts),
        auction |-> After(db.auction, "auction", sts),
        mail_items |-> Unlinked(After(db.mail_items, "mail_items", sts), sts)]

\* The tables after each of some requests, and after all of them.
Course(db, requests) ==
    LET after[n \in 0..Len(requests)] ==
            IF n = 0 THEN db ELSE Committed(after[n - 1], requests[n])
    IN after

Settled(db, requests) == Course(db, requests)[Len(requests)]

Row(m) == [messageType |-> m.messageType, sender |-> m.sender, receiver |-> m.receiver,
           money |-> m.money, cod |-> m.cod, returned |-> m.returned]

InsertMail(m) ==
    Txn({Put("mail", m.id, Row(m))} \cup
        IF m.item = None THEN {}
        ELSE {Put("mail_items", m.item, [mail_id |-> m.id, receiver |-> m.receiver])})

Exists(db, i) == db.item_instance[i] # None

\* The item a login of the receiver finds in a mail: the rows of both tables must name him.
MailedItem(db, id) ==
    LET found == {i \in Items : /\ Exists(db, i)
                                /\ db.mail_items[i] # None
                                /\ db.mail_items[i].mail_id = id
                                /\ db.mail_items[i].receiver = db.mail[id].receiver}
    IN IF found = {} THEN None ELSE CHOOSE i \in found : TRUE

LoadMail(db, id) ==
    LET row == db.mail[id]
    IN [id |-> id, messageType |-> row.messageType, sender |-> row.sender,
        receiver |-> row.receiver, money |-> row.money, cod |-> row.cod,
        returned |-> row.returned, item |-> MailedItem(db, id), state |-> "unchanged"]

LoadMails(db, p) ==
    {LoadMail(db, id) : id \in {n \in MailIds : db.mail[n] # None /\ db.mail[n].receiver = p}}

LoadInventory(db, p) ==
    {i \in Items : db.character_inventory[i] = p /\ Exists(db, i)}

\* The result of a login's queries.
Load(db, p) == [gold |-> db.money[p], bags |-> LoadInventory(db, p), mails |-> LoadMails(db, p)]
=============================================================================
