-------------------------- MODULE AuctionMailProofs --------------------------
(***************************************************************************)
(* Theorems about AuctionMail.  First what its requests do to the tables   *)
(* and to the places of the items, the invariant, and how a handler,       *)
(* request by request, leads from tables that satisfy it to tables that    *)
(* do; then that every action keeps the invariant.                         *)
(***************************************************************************)
EXTENDS AuctionMail, FiniteSetTheorems, Recursion, TLAPS

\* The mails of a type: only players send normal ones, and only those ask for money on delivery.
Rows(type) == {row \in MailRow : /\ row.messageType = type
                                 /\ type = "normal" => row.sender \in Players
                                 /\ row.cod > 0 => type = "normal"}

Kinds == [MailIds -> {"normal", "auction"}]

\* The tables when n mails have been sent, with the type of each.
Tables(kind, n) ==
    {t \in [money : [Players -> Nat],
            character_inventory : [Items -> Players \cup {None}],
            item_instance : [Items -> Items \cup {None}],
            mail : [MailIds -> MailRow \cup {None}],
            auction : [Items -> Auction \cup {None}],
            mail_items : [Items -> Link \cup {None}]] :
        /\ \A id \in MailIds : t.mail[id] # None => id <= n /\ t.mail[id] \in Rows(kind[id])
        /\ \A i \in Items : t.mail_items[i] # None => t.mail_items[i].mail_id <= n}

\* The statements that keep them so.
Sound(st, kind, n) ==
    \/ st[1] = "money" /\ st[3] = "put" /\ st[4] \in Nat
    \/ st[1] = "character_inventory" /\ (st[3] = "delete" \/ (st[3] = "put" /\ st[4] \in Players))
    \/ st[1] = "item_instance" /\ (st[3] = "delete" \/ (st[3] = "put" /\ st[4] \in Items))
    \/ /\ st[1] = "mail"
       /\ \/ st[3] = "delete"
          \/ st[3] = "put" /\ st[2] \in 1..n /\ st[4] \in Rows(kind[st[2]])
          \/ /\ st[3] = "update"
             /\ \/ /\ st[4] \in [money : Nat, cod : Nat, returned : BOOLEAN]
                   /\ st[4].cod > 0 => kind[st[2]] = "normal"
                \/ st[4] \in [sender : Players, receiver : Players, cod : {0}, returned : BOOLEAN]
    \/ /\ st[1] = "mail_items"
       /\ \/ st[3] = "delete"
          \/ st[3] = "put" /\ st[4] \in Link /\ st[4].mail_id <= n
          \/ st[3] = "update" /\ st[4] \in [receiver : Players]
    \/ /\ st[1] = "auction"
       /\ \/ st[3] = "delete"
          \/ st[3] = "put" /\ st[4] \in Auction
          \/ st[3] = "update" /\ st[4] \in [bidder : Players, bid : Nat]
    \/ st[1] = "mail_items_of"

\* What an update makes of a row.
Updated(row, cols) == [c \in DOMAIN row |-> IF c \in DOMAIN cols THEN cols[c] ELSE row[c]]

\* The three things a set of statements on one row can do to it.
LEMMA WrittenNothing == \A row : Written(row, {}) = row
BY DEF Written

LEMMA WrittenDelete ==
    ASSUME NEW row, NEW sts, NEW st \in sts, st[3] = "delete"
    PROVE  Written(row, sts) = None
BY DEF Written

LEMMA WrittenOne ==
    ASSUME NEW row, NEW st, st[3] # "delete"
    PROVE  Written(row, {st}) = IF st[3] = "put" THEN st[4]
                                ELSE IF row = None THEN None ELSE Updated(row, st[4])
BY DEF Written, Updated

LEMMA WrittenSome ==
    ASSUME NEW row, NEW sts
    PROVE  \/ sts = {} /\ Written(row, sts) = row
           \/ \E st \in sts : st[3] = "delete" /\ Written(row, sts) = None
           \/ \E st \in sts : /\ st[3] # "delete"
                              /\ Written(row, sts) =
                                    IF st[3] = "put" THEN st[4]
                                    ELSE IF row = None THEN None ELSE Updated(row, st[4])
BY DEF Written, Updated

LEMMA UpdatedMail ==
    ASSUME NEW type, NEW row \in Rows(type), NEW cols,
           \/ cols \in [money : Nat, cod : Nat, returned : BOOLEAN] /\ (cols.cod > 0 => type = "normal")
           \/ cols \in [sender : Players, receiver : Players, cod : {0}, returned : BOOLEAN]
    PROVE  Updated(row, cols) \in Rows(type)
BY DEF Updated, Rows, MailRow

LEMMA UpdatedLink ==
    ASSUME NEW row \in Link, NEW cols \in [receiver : Players]
    PROVE  Updated(row, cols) \in Link /\ Updated(row, cols).mail_id = row.mail_id
           /\ Updated(row, cols).receiver = cols.receiver
BY DEF Updated, Link

LEMMA UpdatedAuction ==
    ASSUME NEW row \in Auction, NEW cols \in [bidder : Players, bid : Nat]
    PROVE  Updated(row, cols) \in Auction
BY DEF Updated, Auction

\* The link of item i after the statements on its own row.
LinkAfter(t, body, i) == Written(t.mail_items[i], On(body, "mail_items", i))

\* The columns of the tables.
LEMMA Columns ==
    ASSUME NEW kind, NEW n, NEW t \in Tables(kind, n)
    PROVE  /\ t.money \in [Players -> Nat]
           /\ t.character_inventory \in [Items -> Players \cup {None}]
           /\ t.item_instance \in [Items -> Items \cup {None}]
           /\ t.mail \in [MailIds -> MailRow \cup {None}]
           /\ t.auction \in [Items -> Auction \cup {None}]
           /\ t.mail_items \in [Items -> Link \cup {None}]
           /\ \A id \in MailIds : t.mail[id] # None => id <= n /\ t.mail[id] \in Rows(kind[id])
           /\ \A i \in Items : t.mail_items[i] # None => /\ t.mail_items[i].mail_id <= n
                                                         /\ t.mail_items[i] \in Link
BY DEF Tables

\* What statements do to each row of a table.
LEMMA AfterRows ==
    ASSUME NEW rows, NEW table, NEW sts
    PROVE  /\ DOMAIN After(rows, table, sts) = DOMAIN rows
           /\ \A key \in DOMAIN rows :
                 After(rows, table, sts)[key] = Written(rows[key], On(sts, table, key))
BY DEF After

LEMMA UnlinkedRows ==
    ASSUME NEW links, NEW sts
    PROVE  /\ DOMAIN Unlinked(links, sts) = DOMAIN links
           /\ \A i \in DOMAIN links :
                 Unlinked(links, sts)[i] = IF Unlinks(sts, links[i]) THEN None ELSE links[i]
BY DEF Unlinked

\* A table is a function, so that the types of its rows are its type.
Maps(D, S) == [D -> S]

LEMMA AfterTyped ==
    ASSUME NEW rows, NEW table, NEW sts, NEW S,
           \A key \in DOMAIN rows : After(rows, table, sts)[key] \in S
    PROVE  After(rows, table, sts) \in Maps(DOMAIN rows, S)
BY DEF After, Maps

LEMMA UnlinkedTyped ==
    ASSUME NEW links, NEW sts, NEW S, \A i \in DOMAIN links : Unlinked(links, sts)[i] \in S
    PROVE  Unlinked(links, sts) \in Maps(DOMAIN links, S)
BY DEF Unlinked, Maps

LEMMA CommittedTables ==
    ASSUME NEW t, NEW body, NEW p, NEW u, u = Committed(t, [player |-> p, body |-> body])
    PROVE  /\ u.money = After(t.money, "money", body)
           /\ u.character_inventory = After(t.character_inventory, "character_inventory", body)
           /\ u.item_instance = After(t.item_instance, "item_instance", body)
           /\ u.mail = After(t.mail, "mail", body)
           /\ u.auction = After(t.auction, "auction", body)
           /\ u.mail_items = Unlinked(After(t.mail_items, "mail_items", body), body)
           /\ u = [money |-> u.money, character_inventory |-> u.character_inventory,
                   item_instance |-> u.item_instance, mail |-> u.mail, auction |-> u.auction,
                   mail_items |-> u.mail_items]
BY DEF Committed

\* What a request does to each row.
LEMMA CommittedRows ==
    ASSUME NEW kind, NEW n, NEW t \in Tables(kind, n), NEW body, NEW p,
           NEW u, u = Committed(t, [player |-> p, body |-> body])
    PROVE  /\ \A q \in Players : u.money[q] = Written(t.money[q], On(body, "money", q))
           /\ \A i \in Items :
                 /\ u.character_inventory[i] =
                       Written(t.character_inventory[i], On(body, "character_inventory", i))
                 /\ u.item_instance[i] = Written(t.item_instance[i], On(body, "item_instance", i))
                 /\ u.auction[i] = Written(t.auction[i], On(body, "auction", i))
                 /\ u.mail_items[i] =
                       IF Unlinks(body, LinkAfter(t, body, i)) THEN None ELSE LinkAfter(t, body, i)
           /\ \A id \in MailIds : u.mail[id] = Written(t.mail[id], On(body, "mail", id))
<1>1. /\ u.money = After(t.money, "money", body)
      /\ u.character_inventory = After(t.character_inventory, "character_inventory", body)
      /\ u.item_instance = After(t.item_instance, "item_instance", body)
      /\ u.mail = After(t.mail, "mail", body)
      /\ u.auction = After(t.auction, "auction", body)
      /\ u.mail_items = Unlinked(After(t.mail_items, "mail_items", body), body)
  BY CommittedTables
<1>2. \A q \in Players : u.money[q] = Written(t.money[q], On(body, "money", q))
  BY <1>1, Columns, AfterRows
<1>3. \A i \in Items : u.character_inventory[i] =
         Written(t.character_inventory[i], On(body, "character_inventory", i))
  BY <1>1, Columns, AfterRows
<1>4. \A i \in Items : u.item_instance[i] =
         Written(t.item_instance[i], On(body, "item_instance", i))
  BY <1>1, Columns, AfterRows
<1>5. \A i \in Items : u.auction[i] = Written(t.auction[i], On(body, "auction", i))
  BY <1>1, Columns, AfterRows
<1>6. \A id \in MailIds : u.mail[id] = Written(t.mail[id], On(body, "mail", id))
  BY <1>1, Columns, AfterRows
<1>7. ASSUME NEW i \in Items
      PROVE  u.mail_items[i] =
                IF Unlinks(body, LinkAfter(t, body, i)) THEN None ELSE LinkAfter(t, body, i)
  <2> DEFINE links == After(t.mail_items, "mail_items", body)
  <2>1. links[i] = LinkAfter(t, body, i) /\ DOMAIN links = Items
    BY Columns, AfterRows DEF LinkAfter
  <2>2. u.mail_items[i] = Unlinked(links, body)[i]
    BY <1>1
  <2> HIDE DEF links
  <2> QED
    BY <2>1, <2>2, UnlinkedRows
<1> QED
  BY <1>2, <1>3, <1>4, <1>5, <1>6, <1>7

\* The tables of an outcome have the columns that their rows have.
LEMMA CommittedColumns ==
    ASSUME NEW kind, NEW n, NEW t \in Tables(kind, n), NEW body, NEW p,
           NEW u, u = Committed(t, [player |-> p, body |-> body]), NEW S
    PROVE  /\ (\A q \in Players : u.money[q] \in S) => u.money \in Maps(Players, S)
           /\ (\A i \in Items : u.character_inventory[i] \in S)
                => u.character_inventory \in Maps(Items, S)
           /\ (\A i \in Items : u.item_instance[i] \in S) => u.item_instance \in Maps(Items, S)
           /\ (\A i \in Items : u.auction[i] \in S) => u.auction \in Maps(Items, S)
           /\ (\A id \in MailIds : u.mail[id] \in S) => u.mail \in Maps(MailIds, S)
           /\ (\A i \in Items : u.mail_items[i] \in S) => u.mail_items \in Maps(Items, S)
<1>1. (\A q \in Players : u.money[q] \in S) => u.money \in Maps(Players, S)
  BY CommittedTables, Columns, AfterTyped
<1>2. (\A i \in Items : u.character_inventory[i] \in S) => u.character_inventory \in Maps(Items, S)
  BY CommittedTables, Columns, AfterTyped
<1>3. (\A i \in Items : u.item_instance[i] \in S) => u.item_instance \in Maps(Items, S)
  BY CommittedTables, Columns, AfterTyped
<1>4. (\A i \in Items : u.auction[i] \in S) => u.auction \in Maps(Items, S)
  BY CommittedTables, Columns, AfterTyped
<1>5. (\A id \in MailIds : u.mail[id] \in S) => u.mail \in Maps(MailIds, S)
  BY CommittedTables, Columns, AfterTyped
<1>6. (\A i \in Items : u.mail_items[i] \in S) => u.mail_items \in Maps(Items, S)
  <2> DEFINE links == After(t.mail_items, "mail_items", body)
  <2>1. DOMAIN links = Items
    BY Columns, AfterRows
  <2>2. u.mail_items = Unlinked(links, body)
    BY CommittedTables
  <2> HIDE DEF links
  <2> QED
    BY <2>1, <2>2, UnlinkedTyped
<1> QED
  BY <1>1, <1>2, <1>3, <1>4, <1>5, <1>6

\* Sound statements keep the tables what they are.
LEMMA CommittedTyped ==
    ASSUME NEW kind, NEW n, NEW t \in Tables(kind, n), NEW body, NEW p,
           n \in Nat, \A st \in body : Sound(st, kind, n)
    PROVE  Committed(t, [player |-> p, body |-> body]) \in Tables(kind, n)
<1> DEFINE u == Committed(t, [player |-> p, body |-> body])
<1> HIDE DEF u
<1>0. u = Committed(t, [player |-> p, body |-> body])
  BY DEF u
<1>2. ASSUME NEW q \in Players PROVE u.money[q] \in Nat
  <2> DEFINE sts == On(body, "money", q)
  <2>1. u.money[q] = Written(t.money[q], sts) /\ t.money[q] \in Nat
    BY <1>0, CommittedRows, Columns
  <2>2. \A st \in sts : st[3] = "put" /\ st[4] \in Nat
    BY DEF On, Sound
  <2> HIDE DEF sts
  <2> QED
    BY <2>1, <2>2, WrittenSome
<1>3. ASSUME NEW i \in Items PROVE u.character_inventory[i] \in Players \cup {None}
  <2> DEFINE sts == On(body, "character_inventory", i)
  <2>1. u.character_inventory[i] = Written(t.character_inventory[i], sts)
        /\ t.character_inventory[i] \in Players \cup {None}
    BY <1>0, CommittedRows, Columns
  <2>2. \A st \in sts : st[3] = "delete" \/ (st[3] = "put" /\ st[4] \in Players)
    BY DEF On, Sound
  <2> HIDE DEF sts
  <2> QED
    BY <2>1, <2>2, WrittenSome
<1>4. ASSUME NEW i \in Items PROVE u.item_instance[i] \in Items \cup {None}
  <2> DEFINE sts == On(body, "item_instance", i)
  <2>1. u.item_instance[i] = Written(t.item_instance[i], sts)
        /\ t.item_instance[i] \in Items \cup {None}
    BY <1>0, CommittedRows, Columns
  <2>2. \A st \in sts : st[3] = "delete" \/ (st[3] = "put" /\ st[4] \in Items)
    BY DEF On, Sound
  <2> HIDE DEF sts
  <2> QED
    BY <2>1, <2>2, WrittenSome
<1>5. ASSUME NEW id \in MailIds
      PROVE  u.mail[id] = None \/ (id <= n /\ u.mail[id] \in Rows(kind[id]))
  <2> DEFINE sts == On(body, "mail", id)
  <2>1. /\ u.mail[id] = Written(t.mail[id], sts)
        /\ t.mail[id] = None \/ (id <= n /\ t.mail[id] \in Rows(kind[id]))
    BY <1>0, CommittedRows, Columns
  <2>2. \A st \in sts :
           \/ st[3] = "delete"
           \/ st[3] = "put" /\ id <= n /\ st[4] \in Rows(kind[id])
           \/ /\ st[3] # "put"
              /\ \/ /\ st[4] \in [money : Nat, cod : Nat, returned : BOOLEAN]
                    /\ st[4].cod > 0 => kind[id] = "normal"
                 \/ st[4] \in [sender : Players, receiver : Players, cod : {0}, returned : BOOLEAN]
    BY DEF On, Sound
  <2> HIDE DEF sts
  <2>3. CASE t.mail[id] = None
    BY <2>1, <2>2, <2>3, WrittenSome
  <2>4. CASE id <= n /\ t.mail[id] \in Rows(kind[id])
    BY <2>1, <2>2, <2>4, WrittenSome, UpdatedMail
  <2> QED
    BY <2>1, <2>3, <2>4
<1>6. ASSUME NEW i \in Items PROVE u.auction[i] \in Auction \cup {None}
  <2> DEFINE sts == On(body, "auction", i)
  <2>1. u.auction[i] = Written(t.auction[i], sts) /\ t.auction[i] \in Auction \cup {None}
    BY <1>0, CommittedRows, Columns
  <2>2. \A st \in sts : \/ st[3] = "delete"
                        \/ st[3] = "put" /\ st[4] \in Auction
                        \/ st[3] # "put" /\ st[4] \in [bidder : Players, bid : Nat]
    BY DEF On, Sound
  <2> HIDE DEF sts
  <2> QED
    BY <2>1, <2>2, WrittenSome, UpdatedAuction
<1>7. ASSUME NEW i \in Items
      PROVE  u.mail_items[i] = None \/ (u.mail_items[i] \in Link /\ u.mail_items[i].mail_id <= n)
  <2> DEFINE sts == On(body, "mail_items", i)
             linked == LinkAfter(t, body, i)
  <2>1. /\ u.mail_items[i] = None \/ u.mail_items[i] = linked
        /\ linked = Written(t.mail_items[i], sts)
        /\ t.mail_items[i] = None \/ (t.mail_items[i] \in Link /\ t.mail_items[i].mail_id <= n)
    BY <1>0, CommittedRows, Columns DEF LinkAfter
  <2>2. \A st \in sts : \/ st[3] = "delete"
                        \/ st[3] = "put" /\ st[4] \in Link /\ st[4].mail_id <= n
                        \/ st[3] # "put" /\ st[4] \in [receiver : Players]
    BY DEF On, Sound
  <2> HIDE DEF sts, linked
  <2>3. linked = None \/ (linked \in Link /\ linked.mail_id <= n)
    BY <2>1, <2>2, WrittenSome, UpdatedLink
  <2> QED
    BY <2>1, <2>3
<1>8. \A type : Rows(type) \subseteq MailRow
  BY DEF Rows
<1>9. u.money \in Maps(Players, Nat)
  BY <1>0, <1>2, CommittedColumns
<1>10. u.character_inventory \in Maps(Items, Players \cup {None})
  BY <1>0, <1>3, CommittedColumns
<1>11. u.item_instance \in Maps(Items, Items \cup {None})
  BY <1>0, <1>4, CommittedColumns
<1>12. u.auction \in Maps(Items, Auction \cup {None})
  BY <1>0, <1>6, CommittedColumns
<1>13. u.mail \in Maps(MailIds, MailRow \cup {None})
  <2>1. \A id \in MailIds : u.mail[id] \in MailRow \cup {None}
    BY <1>5, <1>8
  <2> QED
    BY <1>0, <2>1, CommittedColumns
<1>14. u.mail_items \in Maps(Items, Link \cup {None})
  <2>1. \A i \in Items : u.mail_items[i] \in Link \cup {None}
    BY <1>7
  <2> QED
    BY <1>0, <2>1, CommittedColumns
<1>15. u = [money |-> u.money, character_inventory |-> u.character_inventory,
            item_instance |-> u.item_instance, mail |-> u.mail, auction |-> u.auction,
            mail_items |-> u.mail_items]
  BY <1>0, CommittedTables
<1>16. u \in Tables(kind, n)
  BY <1>5, <1>7, <1>9, <1>10, <1>11, <1>12, <1>13, <1>14, <1>15 DEF Tables, Maps
<1> QED
  BY <1>16 DEF u

\* Requests of sound statements.
SoundRequest(r, kind, n) ==
    /\ r = [player |-> r.player, body |-> r.body]
    /\ \A st \in r.body : Sound(st, kind, n)

LEMMA SoundCommitted ==
    ASSUME NEW kind, NEW n \in Nat, NEW t \in Tables(kind, n), NEW r, SoundRequest(r, kind, n)
    PROVE  Committed(t, r) \in Tables(kind, n)
<1> DEFINE p == r.player
           body == r.body
<1>1. r = [player |-> p, body |-> body] /\ \A st \in body : Sound(st, kind, n)
  BY DEF SoundRequest
<1> HIDE DEF p, body
<1>2. Committed(t, [player |-> p, body |-> body]) \in Tables(kind, n)
  BY <1>1, CommittedTyped
<1> QED
  BY <1>1, <1>2

\* c are the tables t after each of the requests.
Passes(c, t, reqs) ==
    /\ c[0] = t
    /\ \A k \in 1..Len(reqs) : c[k] = Committed(c[k - 1], reqs[k])

\* Course is what its recursive definition says.
LEMMA CourseFollows ==
    ASSUME NEW kind, NEW n \in Nat, NEW t \in Tables(kind, n), NEW reqs, Len(reqs) \in Nat,
           \A k \in 1..Len(reqs) : SoundRequest(reqs[k], kind, n)
    PROVE  /\ Passes(Course(t, reqs), t, reqs)
           /\ \A k \in 0..Len(reqs) : Course(t, reqs)[k] \in Tables(kind, n)
<1> DEFINE N == Len(reqs)
           V == Tables(kind, n)
           G == [a \in V \X (1..N) |-> Committed(a[1], reqs[a[2]])]
           body(f) == [k \in 0..N |-> IF k = 0 THEN t ELSE Committed(f[k - 1], reqs[k])]
<1>1. N \in Nat /\ t \in V
  OBVIOUS
<1>2. \A k \in 1..N : \A u \in V : Committed(u, reqs[k]) \in V
  BY SoundCommitted
<1>3. Course(t, reqs) = CHOOSE f : f = body(f)
  BY DEF Course
<1> HIDE DEF N, V
<1>4. G \in Steps(V, N)
  BY <1>2 DEF Steps
<1>5. PICK f : Follows(f, V, t, N, G)
  <2> HIDE DEF G
  <2> QED
    BY <1>1, <1>4, RecursionExists
<1>6. f \in [0..N -> V] /\ f[0] = t /\ \A k \in 1..N : f[k] = G[<<f[k - 1], k>>]
  BY <1>5 DEF Follows
<1>7. \A k \in 1..N : f[k] = Committed(f[k - 1], reqs[k])
  <2> SUFFICES ASSUME NEW k \in 1..N PROVE f[k] = Committed(f[k - 1], reqs[k])
    OBVIOUS
  <2>1. k - 1 \in 0..N
    BY <1>1
  <2>2. f[k - 1] \in V
    BY <1>6, <2>1
  <2>3. G[<<f[k - 1], k>>] = Committed(f[k - 1], reqs[k])
    BY <2>2
  <2> QED
    BY <1>6, <2>3
<1>8. f = body(f)
  <2>1. \A k \in 0..N : f[k] = IF k = 0 THEN t ELSE Committed(f[k - 1], reqs[k])
    BY <1>1, <1>6, <1>7
  <2> QED
    BY <1>6, <2>1
<1>9. Course(t, reqs) = body(Course(t, reqs))
  <2> HIDE DEF body
  <2> QED
    BY <1>3, <1>8, Zenon
<1> DEFINE c == Course(t, reqs)
<1>10. c = body(c)
  BY <1>9
<1> HIDE DEF c
<1>11. c[0] = t /\ \A k \in 1..N : c[k] = Committed(c[k - 1], reqs[k])
  BY <1>1, <1>10
<1>12. \A k \in 0..N : c[k] \in V
  <2> DEFINE S == {k \in 0..N : c[k] \in V}
  <2>1. 0 \in S
    BY <1>1, <1>11
  <2>2. \A k \in 1..N : k - 1 \in S => k \in S
    BY <1>1, <1>2, <1>11
  <2> HIDE DEF S
  <2>3. 0..N \subseteq S
    BY <1>1, <2>1, <2>2, BoundedInduction
  <2> QED
    BY <2>3 DEF S
<1> QED
  BY <1>11, <1>12 DEF c, N, V, Passes

IsSeq(q) == \E R : q \in Seq(R)

LEMMA Appended ==
    ASSUME NEW q, NEW reqs, IsSeq(q), IsSeq(reqs)
    PROVE  /\ IsSeq(q \o reqs)
           /\ Len(q) \in Nat /\ Len(reqs) \in Nat
           /\ Len(q \o reqs) = Len(q) + Len(reqs)
           /\ \A k \in 1..Len(q) : (q \o reqs)[k] = q[k]
           /\ \A k \in 1..Len(reqs) : (q \o reqs)[Len(q) + k] = reqs[k]
<1>1. PICK R1, R2 : q \in Seq(R1) /\ reqs \in Seq(R2)
  BY DEF IsSeq
<1> DEFINE R == R1 \cup R2
<1>2. q \in Seq(R) /\ reqs \in Seq(R)
  BY <1>1
<1> HIDE DEF R
<1>3. q \o reqs \in Seq(R)
  BY <1>2
<1> QED
  BY <1>2, <1>3 DEF IsSeq

LEMMA TailIs ==
    ASSUME NEW q, IsSeq(q), q # <<>>
    PROVE  /\ IsSeq(Tail(q)) /\ Len(q) \in Nat /\ Len(q) > 0 /\ Len(Tail(q)) = Len(q) - 1
           /\ Head(q) = q[1]
           /\ \A k \in 1..(Len(q) - 1) : Tail(q)[k] = q[k + 1]
<1>1. PICK R : q \in Seq(R)
  BY DEF IsSeq
<1> QED
  BY <1>1 DEF IsSeq

\* The tables that N requests and then others lead to.
Joined(ds, N, cs, K) == [k \in 0..(N + K) |-> IF k <= N THEN ds[k] ELSE cs[k - N]]

Spans(es, ds, N, cs, K) == /\ \A k \in 0..N : es[k] = ds[k]
                           /\ \A k \in 0..K : es[N + k] = cs[k]

LEMMA PassesOn ==
    ASSUME NEW q, NEW reqs, IsSeq(q), IsSeq(reqs), NEW ds, NEW t, Passes(ds, t, q),
           NEW cs, Passes(cs, ds[Len(q)], reqs),
           NEW es, es = Joined(ds, Len(q), cs, Len(reqs))
    PROVE  Passes(es, t, q \o reqs) /\ Spans(es, ds, Len(q), cs, Len(reqs))
<1> DEFINE N == Len(q)
           K == Len(reqs)
<1>1. /\ N \in Nat /\ K \in Nat /\ Len(q \o reqs) = N + K
      /\ \A k \in 1..N : (q \o reqs)[k] = q[k]
      /\ \A k \in 1..K : (q \o reqs)[N + k] = reqs[k]
  BY Appended
<1>2. /\ ds[0] = t /\ \A k \in 1..N : ds[k] = Committed(ds[k - 1], q[k])
      /\ cs[0] = ds[N] /\ \A k \in 1..K : cs[k] = Committed(cs[k - 1], reqs[k])
  BY DEF Passes
<1> HIDE DEF N, K
<1>3. es = [k \in 0..(N + K) |-> IF k <= N THEN ds[k] ELSE cs[k - N]]
  BY DEF N, K, Joined
<1>4. \A k \in 0..N : es[k] = ds[k]
  BY <1>1, <1>3
<1>5. ASSUME NEW k \in 0..K PROVE es[N + k] = cs[k]
  <2>1. CASE k = 0
    BY <1>1, <1>2, <1>4, <2>1
  <2>2. CASE k # 0
    <3>1. N + k \in 0..(N + K) /\ ~(N + k <= N) /\ (N + k) - N = k
      BY <1>1, <2>2
    <3> QED
      BY <1>3, <3>1
  <2> QED
    BY <2>1, <2>2
<1>6. es[0] = t
  BY <1>1, <1>2, <1>4
<1>7. ASSUME NEW k \in 1..(N + K) PROVE es[k] = Committed(es[k - 1], (q \o reqs)[k])
  <2>1. CASE k <= N
    <3>1. k \in 1..N /\ k \in 0..N /\ k - 1 \in 0..N
      BY <1>1, <2>1
    <3>2. es[k] = ds[k] /\ es[k - 1] = ds[k - 1] /\ ds[k] = Committed(ds[k - 1], q[k])
      BY <1>2, <1>4, <3>1
    <3>3. (q \o reqs)[k] = q[k]
      BY <1>1, <3>1
    <3> QED
      BY <3>2, <3>3
  <2>2. CASE ~(k <= N)
    <3> DEFINE j == k - N
    <3>1. j \in 1..K /\ j \in 0..K /\ j - 1 \in 0..K /\ k = N + j /\ k - 1 = N + (j - 1)
      BY <1>1, <2>2
    <3> HIDE DEF j
    <3>2. es[k] = cs[j] /\ es[k - 1] = cs[j - 1] /\ cs[j] = Committed(cs[j - 1], reqs[j])
      BY <1>2, <1>5, <3>1
    <3>3. (q \o reqs)[k] = reqs[j]
      BY <1>1, <3>1
    <3> QED
      BY <3>2, <3>3
  <2> QED
    BY <2>1, <2>2
<1>8. Passes(es, t, q \o reqs)
  BY <1>1, <1>6, <1>7 DEF Passes
<1> QED
  BY <1>4, <1>5, <1>8 DEF N, K, Spans

LEMMA PassesTail ==
    ASSUME NEW q, IsSeq(q), q # <<>>, NEW ds, NEW t, Passes(ds, t, q),
           NEW es, es = [k \in 0..(Len(q) - 1) |-> ds[k + 1]]
    PROVE  /\ ds[1] = Committed(t, Head(q))
           /\ Passes(es, ds[1], Tail(q))
           /\ \A k \in 0..(Len(q) - 1) : es[k] = ds[k + 1]
<1>1. /\ Len(q) \in Nat /\ Len(q) > 0 /\ Len(Tail(q)) = Len(q) - 1 /\ Head(q) = q[1]
      /\ \A k \in 1..(Len(q) - 1) : Tail(q)[k] = q[k + 1]
  BY TailIs
<1>2. ds[0] = t /\ \A k \in 1..Len(q) : ds[k] = Committed(ds[k - 1], q[k])
  BY DEF Passes
<1>3. ds[1] = Committed(t, Head(q))
  <2>1. 1 \in 1..Len(q) /\ 1 - 1 = 0
    BY <1>1
  <2> QED
    BY <1>1, <1>2, <2>1
<1>4. \A k \in 0..(Len(q) - 1) : es[k] = ds[k + 1]
  OBVIOUS
<1>5. es[0] = ds[1]
  BY <1>1, <1>4
<1>6. ASSUME NEW k \in 1..Len(Tail(q)) PROVE es[k] = Committed(es[k - 1], Tail(q)[k])
  <2>1. k \in 0..(Len(q) - 1) /\ k - 1 \in 0..(Len(q) - 1) /\ k + 1 \in 1..Len(q)
        /\ (k + 1) - 1 = k /\ (k - 1) + 1 = k /\ k \in 1..(Len(q) - 1)
    BY <1>1
  <2>2. es[k] = ds[k + 1] /\ es[k - 1] = ds[k] /\ Tail(q)[k] = q[k + 1]
    BY <1>1, <1>4, <2>1
  <2>3. ds[k + 1] = Committed(ds[k], q[k + 1])
    BY <1>2, <2>1
  <2> QED
    BY <2>2, <2>3
<1> QED
  BY <1>3, <1>4, <1>5, <1>6 DEF Passes
-----------------------------------------------------------------------------
\* What the requests of the handlers do to the tables.

\* Rows by key.
IsTable(rows, D) == rows = [key \in D |-> rows[key]]

LEMMA AreTables ==
    ASSUME NEW kind, NEW n, NEW t \in Tables(kind, n)
    PROVE  /\ IsTable(t.money, Players)
           /\ IsTable(t.character_inventory, Items)
           /\ IsTable(t.item_instance, Items)
           /\ IsTable(t.mail, MailIds)
           /\ IsTable(t.auction, Items)
           /\ IsTable(t.mail_items, Items)
BY DEF Tables, IsTable

\* A table with one row changed.
With(rows, key, row) == [rows EXCEPT ![key] = row]

LEMMA WithRows ==
    ASSUME NEW D, NEW rows, IsTable(rows, D), NEW key \in D, NEW row
    PROVE  /\ With(rows, key, row)[key] = row
           /\ \A k \in D : k # key => With(rows, key, row)[k] = rows[k]
           /\ IsTable(With(rows, key, row), D)
BY DEF With, IsTable

\* No statement is on the table, or only one.
Spares(sts, table) == \A st \in sts : st[1] # table

Touches(sts, table, st) == st \in sts /\ \A x \in sts : x[1] = table => x = st

LEMMA AfterNothing ==
    ASSUME NEW D, NEW rows, IsTable(rows, D), NEW table, NEW sts,
           Spares(sts, table)
    PROVE  After(rows, table, sts) = rows
<1>1. \A key : On(sts, table, key) = {}
  BY DEF On, Spares, Touches
<1>2. rows = [key \in DOMAIN rows |-> rows[key]]
  BY DEF IsTable
<1> QED
  BY <1>1, <1>2, WrittenNothing DEF After

LEMMA AfterOne ==
    ASSUME NEW D, NEW rows, IsTable(rows, D), NEW table, NEW sts, NEW st,
           NEW key \in D, st[1] = table, st[2] = key, Touches(sts, table, st),
           NEW new, new = Written(rows[key], {st})
    PROVE  After(rows, table, sts) = With(rows, key, new)
<1>1. On(sts, table, key) = {st}
  BY DEF On, Spares, Touches
<1>2. \A k : k # key => On(sts, table, k) = {}
  BY DEF On, Spares, Touches
<1>3. rows = [k \in D |-> rows[k]] /\ DOMAIN rows = D
  BY DEF IsTable
<1>4. \A k \in D : Written(rows[k], On(sts, table, k)) = IF k = key THEN new ELSE rows[k]
  BY <1>1, <1>2, WrittenNothing
<1> QED
  BY <1>3, <1>4 DEF After, With

LEMMA AfterPut ==
    ASSUME NEW D, NEW rows, IsTable(rows, D), NEW table, NEW sts, NEW key \in D, NEW row,
           Touches(sts, table, Put(table, key, row))
    PROVE  After(rows, table, sts) = With(rows, key, row)
<1> DEFINE st == Put(table, key, row)
<1>1. st[1] = table /\ st[2] = key /\ st[3] = "put" /\ st[4] = row
  BY DEF Put
<1> HIDE DEF st
<1>2. row = Written(rows[key], {st})
  BY <1>1, WrittenOne
<1> QED
  BY <1>1, <1>2, AfterOne DEF st

LEMMA AfterDelete ==
    ASSUME NEW D, NEW rows, IsTable(rows, D), NEW table, NEW sts, NEW key \in D,
           Touches(sts, table, Delete(table, key))
    PROVE  After(rows, table, sts) = With(rows, key, None)
<1> DEFINE st == Delete(table, key)
<1>1. st[1] = table /\ st[2] = key /\ st[3] = "delete"
  BY DEF Delete
<1> HIDE DEF st
<1>2. None = Written(rows[key], {st})
  BY <1>1, WrittenDelete
<1> QED
  BY <1>1, <1>2, AfterOne DEF st

LEMMA AfterUpdate ==
    ASSUME NEW D, NEW rows, IsTable(rows, D), NEW table, NEW sts, NEW key \in D, NEW cols,
           Touches(sts, table, Update(table, key, cols)), rows[key] # None
    PROVE  After(rows, table, sts) = With(rows, key, Updated(rows[key], cols))
<1> DEFINE st == Update(table, key, cols)
<1>1. st[1] = table /\ st[2] = key /\ st[3] = "update" /\ st[4] = cols
  BY DEF Update
<1> HIDE DEF st
<1>2. Updated(rows[key], cols) = Written(rows[key], {st})
  BY <1>1, WrittenOne
<1> QED
  BY <1>1, <1>2, AfterOne DEF st

LEMMA UnlinkedNothing ==
    ASSUME NEW D, NEW links, IsTable(links, D), NEW sts, Spares(sts, "mail_items_of")
    PROVE  Unlinked(links, sts) = links
<1>1. \A key : On(sts, "mail_items_of", key) = {}
  BY DEF On, Spares, Touches
<1>2. \A link : ~Unlinks(sts, link)
  BY <1>1 DEF Unlinks
<1>3. links = [i \in DOMAIN links |-> links[i]]
  BY DEF IsTable
<1> QED
  BY <1>2, <1>3 DEF Unlinked

LEMMA EffectOfMove ==
    ASSUME NEW kind, NEW n, NEW t \in Tables(kind, n), NEW i \in Items,
           NEW u, u = Committed(t, Txn({Delete("character_inventory", i)}))
    PROVE  /\ u.money = t.money
           /\ u.character_inventory = With(t.character_inventory, i, None)
           /\ u.item_instance = t.item_instance
           /\ u.mail = t.mail
           /\ u.auction = t.auction
           /\ u.mail_items = t.mail_items
<1> DEFINE sts == {Delete("character_inventory", i)}
<1>1. u = Committed(t, [player |-> None, body |-> sts])
  BY DEF Txn
<1>2. /\ Spares(sts, "mail_items_of")
      /\ Spares(sts, "money")
      /\ Touches(sts, "character_inventory", Delete("character_inventory", i))
      /\ Spares(sts, "item_instance")
      /\ Spares(sts, "mail")
      /\ Spares(sts, "auction")
      /\ Spares(sts, "mail_items")
  BY DEF Spares, Touches, Put, Update, Delete, SaveGold
<1> HIDE DEF sts
<1>3. After(t.mail_items, "mail_items", sts) = t.mail_items
  BY <1>2, AreTables, AfterNothing, AfterDelete
<1> QED
  BY <1>1, <1>2, <1>3, CommittedTables, AreTables, UnlinkedNothing, AfterNothing, AfterDelete

LEMMA EffectOfSaveGold ==
    ASSUME NEW kind, NEW n, NEW t \in Tables(kind, n), NEW p \in Players, NEW g \in Nat,
           NEW u, u = Committed(t, Txn({SaveGold(p, g)}))
    PROVE  /\ u.money = With(t.money, p, g)
           /\ u.character_inventory = t.character_inventory
           /\ u.item_instance = t.item_instance
           /\ u.mail = t.mail
           /\ u.auction = t.auction
           /\ u.mail_items = t.mail_items
<1> DEFINE sts == {SaveGold(p, g)}
<1>1. u = Committed(t, [player |-> None, body |-> sts])
  BY DEF Txn
<1>2. /\ Spares(sts, "mail_items_of")
      /\ Touches(sts, "money", Put("money", p, g))
      /\ Spares(sts, "character_inventory")
      /\ Spares(sts, "item_instance")
      /\ Spares(sts, "mail")
      /\ Spares(sts, "auction")
      /\ Spares(sts, "mail_items")
  BY DEF Spares, Touches, Put, Update, Delete, SaveGold
<1> HIDE DEF sts
<1>3. After(t.mail_items, "mail_items", sts) = t.mail_items
  BY <1>2, AreTables, AfterNothing, AfterPut
<1> QED
  BY <1>1, <1>2, <1>3, CommittedTables, AreTables, UnlinkedNothing, AfterNothing, AfterPut

LEMMA EffectOfSell ==
    ASSUME NEW kind, NEW n, NEW t \in Tables(kind, n), NEW p \in Players, NEW g \in Nat,
           NEW i \in Items, NEW a,
           NEW u, u = Committed(t, Txn({Delete("character_inventory", i), Put("auction", i, a), SaveGold(p, g)}))
    PROVE  /\ u.money = With(t.money, p, g)
           /\ u.character_inventory = With(t.character_inventory, i, None)
           /\ u.item_instance = t.item_instance
           /\ u.mail = t.mail
           /\ u.auction = With(t.auction, i, a)
           /\ u.mail_items = t.mail_items
<1> DEFINE sts == {Delete("character_inventory", i), Put("auction", i, a), SaveGold(p, g)}
<1>1. u = Committed(t, [player |-> None, body |-> sts])
  BY DEF Txn
<1>2. /\ Spares(sts, "mail_items_of")
      /\ Touches(sts, "money", Put("money", p, g))
      /\ Touches(sts, "character_inventory", Delete("character_inventory", i))
      /\ Spares(sts, "item_instance")
      /\ Spares(sts, "mail")
      /\ Touches(sts, "auction", Put("auction", i, a))
      /\ Spares(sts, "mail_items")
  BY DEF Spares, Touches, Put, Update, Delete, SaveGold
<1> HIDE DEF sts
<1>3. After(t.mail_items, "mail_items", sts) = t.mail_items
  BY <1>2, AreTables, AfterNothing, AfterPut, AfterDelete
<1> QED
  BY <1>1, <1>2, <1>3, CommittedTables, AreTables, UnlinkedNothing, AfterNothing, AfterPut, AfterDelete

LEMMA EffectOfBid ==
    ASSUME NEW kind, NEW n, NEW t \in Tables(kind, n), NEW p \in Players, NEW g \in Nat,
           NEW i \in Items, t.auction[i] # None, NEW cols,
           NEW u, u = Committed(t, Txn({Update("auction", i, cols), SaveGold(p, g)}))
    PROVE  /\ u.money = With(t.money, p, g)
           /\ u.character_inventory = t.character_inventory
           /\ u.item_instance = t.item_instance
           /\ u.mail = t.mail
           /\ u.auction = With(t.auction, i, Updated(t.auction[i], cols))
           /\ u.mail_items = t.mail_items
<1> DEFINE sts == {Update("auction", i, cols), SaveGold(p, g)}
<1>1. u = Committed(t, [player |-> None, body |-> sts])
  BY DEF Txn
<1>2. /\ Spares(sts, "mail_items_of")
      /\ Touches(sts, "money", Put("money", p, g))
      /\ Spares(sts, "character_inventory")
      /\ Spares(sts, "item_instance")
      /\ Spares(sts, "mail")
      /\ Touches(sts, "auction", Update("auction", i, cols))
      /\ Spares(sts, "mail_items")
  BY DEF Spares, Touches, Put, Update, Delete, SaveGold
<1> HIDE DEF sts
<1>3. After(t.mail_items, "mail_items", sts) = t.mail_items
  BY <1>2, AreTables, AfterNothing, AfterPut, AfterUpdate
<1> QED
  BY <1>1, <1>2, <1>3, CommittedTables, AreTables, UnlinkedNothing, AfterNothing, AfterPut, AfterUpdate

LEMMA EffectOfEnd ==
    ASSUME NEW kind, NEW n, NEW t \in Tables(kind, n), NEW i \in Items,
           NEW u, u = Committed(t, Txn({Delete("auction", i)}))
    PROVE  /\ u.money = t.money
           /\ u.character_inventory = t.character_inventory
           /\ u.item_instance = t.item_instance
           /\ u.mail = t.mail
           /\ u.auction = With(t.auction, i, None)
           /\ u.mail_items = t.mail_items
<1> DEFINE sts == {Delete("auction", i)}
<1>1. u = Committed(t, [player |-> None, body |-> sts])
  BY DEF Txn
<1>2. /\ Spares(sts, "mail_items_of")
      /\ Spares(sts, "money")
      /\ Spares(sts, "character_inventory")
      /\ Spares(sts, "item_instance")
      /\ Spares(sts, "mail")
      /\ Touches(sts, "auction", Delete("auction", i))
      /\ Spares(sts, "mail_items")
  BY DEF Spares, Touches, Put, Update, Delete, SaveGold
<1> HIDE DEF sts
<1>3. After(t.mail_items, "mail_items", sts) = t.mail_items
  BY <1>2, AreTables, AfterNothing, AfterDelete
<1> QED
  BY <1>1, <1>2, <1>3, CommittedTables, AreTables, UnlinkedNothing, AfterNothing, AfterDelete

LEMMA EffectOfEndAndGold ==
    ASSUME NEW kind, NEW n, NEW t \in Tables(kind, n), NEW i \in Items, NEW p \in Players, NEW g \in Nat,
           NEW u, u = Committed(t, Txn({Delete("auction", i), SaveGold(p, g)}))
    PROVE  /\ u.money = With(t.money, p, g)
           /\ u.character_inventory = t.character_inventory
           /\ u.item_instance = t.item_instance
           /\ u.mail = t.mail
           /\ u.auction = With(t.auction, i, None)
           /\ u.mail_items = t.mail_items
<1> DEFINE sts == {Delete("auction", i), SaveGold(p, g)}
<1>1. u = Committed(t, [player |-> None, body |-> sts])
  BY DEF Txn
<1>2. /\ Spares(sts, "mail_items_of")
      /\ Touches(sts, "money", Put("money", p, g))
      /\ Spares(sts, "character_inventory")
      /\ Spares(sts, "item_instance")
      /\ Spares(sts, "mail")
      /\ Touches(sts, "auction", Delete("auction", i))
      /\ Spares(sts, "mail_items")
  BY DEF Spares, Touches, Put, Update, Delete, SaveGold
<1> HIDE DEF sts
<1>3. After(t.mail_items, "mail_items", sts) = t.mail_items
  BY <1>2, AreTables, AfterNothing, AfterPut, AfterDelete
<1> QED
  BY <1>1, <1>2, <1>3, CommittedTables, AreTables, UnlinkedNothing, AfterNothing, AfterPut, AfterDelete

LEMMA EffectOfLetter ==
    ASSUME NEW kind, NEW n, NEW t \in Tables(kind, n), NEW d,
           d.id \in MailIds, d.item = None,
           NEW u, u = Committed(t, InsertMail(d))
    PROVE  /\ u.money = t.money
           /\ u.character_inventory = t.character_inventory
           /\ u.item_instance = t.item_instance
           /\ u.mail = With(t.mail, d.id, Row(d))
           /\ u.auction = t.auction
           /\ u.mail_items = t.mail_items
<1> DEFINE sts == {Put("mail", d.id, Row(d))}
<1>1. u = Committed(t, [player |-> None, body |-> sts])
  BY DEF InsertMail, Txn
<1>2. /\ Spares(sts, "mail_items_of")
      /\ Spares(sts, "money")
      /\ Spares(sts, "character_inventory")
      /\ Spares(sts, "item_instance")
      /\ Touches(sts, "mail", Put("mail", d.id, Row(d)))
      /\ Spares(sts, "auction")
      /\ Spares(sts, "mail_items")
  BY DEF Spares, Touches, Put, Update, Delete, SaveGold
<1> HIDE DEF sts
<1>3. After(t.mail_items, "mail_items", sts) = t.mail_items
  BY <1>2, AreTables, AfterNothing, AfterPut
<1> QED
  BY <1>1, <1>2, <1>3, CommittedTables, AreTables, UnlinkedNothing, AfterNothing, AfterPut

LEMMA EffectOfParcel ==
    ASSUME NEW kind, NEW n, NEW t \in Tables(kind, n), NEW d,
           d.id \in MailIds, d.item \in Items, d.receiver \in Players,
           NEW u, u = Committed(t, InsertMail(d))
    PROVE  /\ u.money = t.money
           /\ u.character_inventory = t.character_inventory
           /\ u.item_instance = t.item_instance
           /\ u.mail = With(t.mail, d.id, Row(d))
           /\ u.auction = t.auction
           /\ u.mail_items = With(t.mail_items, d.item, [mail_id |-> d.id, receiver |-> d.receiver])
<1> DEFINE sts == {Put("mail", d.id, Row(d)),
                   Put("mail_items", d.item, [mail_id |-> d.id, receiver |-> d.receiver])}
<1>1. u = Committed(t, [player |-> None, body |-> sts])
  BY AuctionMailAssumption DEF InsertMail, Txn
<1>2. /\ Spares(sts, "mail_items_of")
      /\ Spares(sts, "money")
      /\ Spares(sts, "character_inventory")
      /\ Spares(sts, "item_instance")
      /\ Touches(sts, "mail", Put("mail", d.id, Row(d)))
      /\ Spares(sts, "auction")
      /\ Touches(sts, "mail_items", Put("mail_items", d.item, [mail_id |-> d.id, receiver |-> d.receiver]))
  BY DEF Spares, Touches, Put, Update, Delete, SaveGold
<1> HIDE DEF sts
<1>3. After(t.mail_items, "mail_items", sts) = With(t.mail_items, d.item, [mail_id |-> d.id, receiver |-> d.receiver])
  BY <1>2, AreTables, AfterNothing, AfterPut
<1>4. IsTable(With(t.mail_items, d.item, [mail_id |-> d.id, receiver |-> d.receiver]), Items)
  BY AreTables, WithRows
<1> QED
  BY <1>1, <1>2, <1>3, <1>4, CommittedTables, AreTables, UnlinkedNothing, AfterNothing, AfterPut

LEMMA EffectOfSweptItem ==
    ASSUME NEW kind, NEW n, NEW t \in Tables(kind, n), NEW i \in Items,
           NEW u, u = Committed(t, Txn({Delete("item_instance", i)}))
    PROVE  /\ u.money = t.money
           /\ u.character_inventory = t.character_inventory
           /\ u.item_instance = With(t.item_instance, i, None)
           /\ u.mail = t.mail
           /\ u.auction = t.auction
           /\ u.mail_items = t.mail_items
<1> DEFINE sts == {Delete("item_instance", i)}
<1>1. u = Committed(t, [player |-> None, body |-> sts])
  BY DEF Txn
<1>2. /\ Spares(sts, "mail_items_of")
      /\ Spares(sts, "money")
      /\ Spares(sts, "character_inventory")
      /\ Touches(sts, "item_instance", Delete("item_instance", i))
      /\ Spares(sts, "mail")
      /\ Spares(sts, "auction")
      /\ Spares(sts, "mail_items")
  BY DEF Spares, Touches, Put, Update, Delete, SaveGold
<1> HIDE DEF sts
<1>3. After(t.mail_items, "mail_items", sts) = t.mail_items
  BY <1>2, AreTables, AfterNothing, AfterDelete
<1> QED
  BY <1>1, <1>2, <1>3, CommittedTables, AreTables, UnlinkedNothing, AfterNothing, AfterDelete

LEMMA EffectOfSweptMail ==
    ASSUME NEW kind, NEW n, NEW t \in Tables(kind, n), NEW id \in MailIds,
           NEW u, u = Committed(t, Txn({Delete("mail", id)}))
    PROVE  /\ u.money = t.money
           /\ u.character_inventory = t.character_inventory
           /\ u.item_instance = t.item_instance
           /\ u.mail = With(t.mail, id, None)
           /\ u.auction = t.auction
           /\ u.mail_items = t.mail_items
<1> DEFINE sts == {Delete("mail", id)}
<1>1. u = Committed(t, [player |-> None, body |-> sts])
  BY DEF Txn
<1>2. /\ Spares(sts, "mail_items_of")
      /\ Spares(sts, "money")
      /\ Spares(sts, "character_inventory")
      /\ Spares(sts, "item_instance")
      /\ Touches(sts, "mail", Delete("mail", id))
      /\ Spares(sts, "auction")
      /\ Spares(sts, "mail_items")
  BY DEF Spares, Touches, Put, Update, Delete, SaveGold
<1> HIDE DEF sts
<1>3. After(t.mail_items, "mail_items", sts) = t.mail_items
  BY <1>2, AreTables, AfterNothing, AfterDelete
<1> QED
  BY <1>1, <1>2, <1>3, CommittedTables, AreTables, UnlinkedNothing, AfterNothing, AfterDelete

LEMMA EffectOfReturnedMail ==
    ASSUME NEW kind, NEW n, NEW t \in Tables(kind, n), NEW id \in MailIds, t.mail[id] # None, NEW cols,
           NEW u, u = Committed(t, Txn({Update("mail", id, cols)}))
    PROVE  /\ u.money = t.money
           /\ u.character_inventory = t.character_inventory
           /\ u.item_instance = t.item_instance
           /\ u.mail = With(t.mail, id, Updated(t.mail[id], cols))
           /\ u.auction = t.auction
           /\ u.mail_items = t.mail_items
<1> DEFINE sts == {Update("mail", id, cols)}
<1>1. u = Committed(t, [player |-> None, body |-> sts])
  BY DEF Txn
<1>2. /\ Spares(sts, "mail_items_of")
      /\ Spares(sts, "money")
      /\ Spares(sts, "character_inventory")
      /\ Spares(sts, "item_instance")
      /\ Touches(sts, "mail", Update("mail", id, cols))
      /\ Spares(sts, "auction")
      /\ Spares(sts, "mail_items")
  BY DEF Spares, Touches, Put, Update, Delete, SaveGold
<1> HIDE DEF sts
<1>3. After(t.mail_items, "mail_items", sts) = t.mail_items
  BY <1>2, AreTables, AfterNothing, AfterUpdate
<1> QED
  BY <1>1, <1>2, <1>3, CommittedTables, AreTables, UnlinkedNothing, AfterNothing, AfterUpdate

LEMMA EffectOfReturnedItem ==
    ASSUME NEW kind, NEW n, NEW t \in Tables(kind, n), NEW i \in Items, t.mail_items[i] # None,
           NEW p \in Players,
           NEW u, u = Committed(t, Txn({Update("mail_items", i, [receiver |-> p])}))
    PROVE  /\ u.money = t.money
           /\ u.character_inventory = t.character_inventory
           /\ u.item_instance = t.item_instance
           /\ u.mail = t.mail
           /\ u.auction = t.auction
           /\ u.mail_items = With(t.mail_items, i, Updated(t.mail_items[i], [receiver |-> p]))
<1> DEFINE sts == {Update("mail_items", i, [receiver |-> p])}
<1>1. u = Committed(t, [player |-> None, body |-> sts])
  BY DEF Txn
<1>2. /\ Spares(sts, "mail_items_of")
      /\ Spares(sts, "money")
      /\ Spares(sts, "character_inventory")
      /\ Spares(sts, "item_instance")
      /\ Spares(sts, "mail")
      /\ Spares(sts, "auction")
      /\ Touches(sts, "mail_items", Update("mail_items", i, [receiver |-> p]))
  BY DEF Spares, Touches, Put, Update, Delete, SaveGold
<1> HIDE DEF sts
<1>3. After(t.mail_items, "mail_items", sts) = With(t.mail_items, i, Updated(t.mail_items[i], [receiver |-> p]))
  BY <1>2, AreTables, AfterNothing, AfterUpdate
<1>4. IsTable(With(t.mail_items, i, Updated(t.mail_items[i], [receiver |-> p])), Items)
  BY AreTables, WithRows
<1> QED
  BY <1>1, <1>2, <1>3, <1>4, CommittedTables, AreTables, UnlinkedNothing, AfterNothing, AfterUpdate

\* A login's queries change nothing.
LEMMA EffectOfLogin ==
    ASSUME NEW kind, NEW n, NEW t \in Tables(kind, n), NEW p, NEW u, u = Committed(t, LoginQuery(p))
    PROVE  u = t
<1>1. u = Committed(t, [player |-> p, body |-> {}])
  BY DEF LoginQuery
<1>2. /\ u.money = t.money /\ u.character_inventory = t.character_inventory
      /\ u.item_instance = t.item_instance /\ u.mail = t.mail /\ u.auction = t.auction
  <2>1. \A table : Spares({}, table)
    BY DEF Spares
  <2> QED
    BY <1>1, <2>1, CommittedTables, AreTables, AfterNothing
<1>3. u.mail_items = t.mail_items
  <2>1. After(t.mail_items, "mail_items", {}) = t.mail_items
    BY AreTables, AfterNothing DEF Spares
  <2>2. Spares({}, "mail_items_of")
    BY DEF Spares
  <2>3. u.mail_items = Unlinked(After(t.mail_items, "mail_items", {}), {})
    BY <1>1, CommittedTables
  <2> QED
    BY <2>1, <2>2, <2>3, AreTables, UnlinkedNothing
<1>4. u = [money |-> u.money, character_inventory |-> u.character_inventory,
           item_instance |-> u.item_instance, mail |-> u.mail, auction |-> u.auction,
           mail_items |-> u.mail_items]
  BY <1>1, CommittedTables
<1>5. t = [money |-> t.money, character_inventory |-> t.character_inventory,
           item_instance |-> t.item_instance, mail |-> t.mail, auction |-> t.auction,
           mail_items |-> t.mail_items]
  BY DEF Tables
<1> QED
  BY <1>2, <1>3, <1>4, <1>5

\* The mails in memory when n mails have been sent.
Mails(kind, n) ==
    {m \in [id : MailIds, messageType : {"normal", "auction"}, sender : Players \cup {None},
            receiver : Players, money : Nat, cod : Nat, returned : BOOLEAN,
            item : Items \cup {None}, state : {"unchanged", "changed", "deleted"}] :
        m.id <= n /\ Row(m) \in Rows(kind[m.id])}

Distinct(box) == \A m1, m2 \in box : m1.id = m2.id => m1 = m2

\* The columns that are saved of a mail.
Saves(m) == [money |-> m.money, cod |-> m.cod, returned |-> m.returned]

\* Mail id, or the mail with item i, is deleted with the box.
Removes(box, id) == \E m \in box : m.state = "deleted" /\ m.id = id

Destroys(box, i) == \E m \in box : m.state = "deleted" /\ m.item = i

\* Every statement of SaveMail is about a mail of the box.
LEMMA InSaveMail ==
    ASSUME NEW box, NEW st
    PROVE  st \in SaveMail(box) <=>
             \/ \E m \in box : m.state = "changed" /\ st = Update("mail", m.id, Saves(m))
             \/ \E m \in box : m.state = "deleted" /\ st = Delete("mail", m.id)
             \/ \E m \in box : m.state = "deleted" /\ st = Unlink(m.id)
             \/ \E m \in box : /\ m.state = "deleted" /\ m.item # None
                               /\ st = Delete("item_instance", m.item)
BY DEF SaveMail, MailStatements, Saves

\* SaveMail has nothing to do with the other tables.
LEMMA SaveMailSpares ==
    ASSUME NEW box
    PROVE  /\ Spares(SaveMail(box), "money") /\ Spares(SaveMail(box), "character_inventory")
           /\ Spares(SaveMail(box), "auction") /\ Spares(SaveMail(box), "mail_items")
BY InSaveMail DEF Spares, Update, Delete, Unlink

\* What becomes of the row of a mail when the box is saved.
MailSaved(box, id, row, new) ==
    /\ Removes(box, id) => new = None
    /\ (\A m \in box : m.id = id => m.state = "unchanged") => new = row
    /\ \A m \in box : Distinct(box) /\ m.id = id /\ m.state = "changed" /\ row # None
                        => new = Updated(row, Saves(m))

LEMMA SavedMailRow ==
    ASSUME NEW box, NEW sts, Spares(sts, "mail"), NEW id, NEW row
    PROVE  MailSaved(box, id, row, Written(row, On(sts \cup SaveMail(box), "mail", id)))
<1> DEFINE on == On(sts \cup SaveMail(box), "mail", id)
<1>1. \A st : st \in on <=> \/ \E m \in box : /\ m.state = "changed" /\ m.id = id
                                              /\ st = Update("mail", id, Saves(m))
                            \/ Removes(box, id) /\ st = Delete("mail", id)
  BY InSaveMail DEF On, Spares, Removes, Update, Delete, Unlink
<1> HIDE DEF on
<1>2. ASSUME Removes(box, id) PROVE Written(row, on) = None
  <2> DEFINE st == Delete("mail", id)
  <2>1. st \in on /\ st[3] = "delete"
    BY <1>1, <1>2 DEF Delete
  <2> HIDE DEF st
  <2> QED
    BY <2>1, WrittenDelete
<1>3. ASSUME \A m \in box : m.id = id => m.state = "unchanged" PROVE Written(row, on) = row
  <2>1. on = {}
    BY <1>1, <1>3 DEF Removes
  <2> QED
    BY <2>1, WrittenNothing
<1>4. ASSUME NEW m \in box, Distinct(box), m.id = id, m.state = "changed", row # None
      PROVE  Written(row, on) = Updated(row, Saves(m))
  <2> DEFINE st == Update("mail", id, Saves(m))
  <2>1. on = {st}
    BY <1>1, <1>4 DEF Distinct, Removes
  <2>2. st[3] = "update" /\ st[4] = Saves(m)
    BY DEF Update
  <2> HIDE DEF st
  <2> QED
    BY <1>4, <2>1, <2>2, WrittenOne
<1> QED
  BY <1>2, <1>3, <1>4 DEF on, MailSaved

\* Which links are cut.
LEMMA SavedLink ==
    ASSUME NEW box, NEW sts, Spares(sts, "mail_items_of"), NEW link
    PROVE  Unlinks(sts \cup SaveMail(box), link) <=> link # None /\ Removes(box, link.mail_id)
<1> DEFINE id == link.mail_id
           on == On(sts \cup SaveMail(box), "mail_items_of", id)
<1>1. \A st : st \in on <=> Removes(box, id) /\ st = Unlink(id)
  BY InSaveMail DEF On, Spares, Removes, Update, Delete, Unlink
<1>2. on # {} <=> Removes(box, id)
  <2> HIDE DEF on, id
  <2> QED
    BY <1>1
<1> QED
  BY <1>2 DEF Unlinks

\* Which items are destroyed.
LEMMA SavedItemRow ==
    ASSUME NEW box, NEW sts, Spares(sts, "item_instance"), NEW i \in Items, NEW row
    PROVE  Written(row, On(sts \cup SaveMail(box), "item_instance", i)) =
              IF Destroys(box, i) THEN None ELSE row
<1> DEFINE on == On(sts \cup SaveMail(box), "item_instance", i)
<1>1. \A st : st \in on <=> Destroys(box, i) /\ st = Delete("item_instance", i)
  BY InSaveMail, AuctionMailAssumption DEF On, Spares, Destroys, Update, Delete, Unlink
<1> HIDE DEF on
<1>2. CASE Destroys(box, i)
  BY <1>1, <1>2, WrittenDelete DEF Delete, on
<1>3. CASE ~Destroys(box, i)
  <2>1. on = {}
    BY <1>1, <1>3
  <2> QED
    BY <1>3, <2>1, WrittenNothing DEF on
<1> QED
  BY <1>2, <1>3

\* What u are when t are saved with the purse and the box of a player.
SavesTo(t, u, p, g, box) ==
    /\ u.money = With(t.money, p, g)
    /\ u.character_inventory = t.character_inventory
    /\ u.auction = t.auction
    /\ \A i \in Items :
          /\ u.item_instance[i] = IF Destroys(box, i) THEN None ELSE t.item_instance[i]
          /\ u.mail_items[i] =
                IF t.mail_items[i] # None /\ Removes(box, t.mail_items[i].mail_id)
                THEN None ELSE t.mail_items[i]
    /\ \A id \in MailIds : MailSaved(box, id, t.mail[id], u.mail[id])

LEMMA EffectOfSave ==
    ASSUME NEW kind, NEW n, NEW t \in Tables(kind, n), NEW p \in Players, NEW g \in Nat, NEW box,
           NEW u, u = Committed(t, Txn({SaveGold(p, g)} \cup SaveMail(box)))
    PROVE  SavesTo(t, u, p, g, box)
<1> DEFINE sts == {SaveGold(p, g)}
           body == sts \cup SaveMail(box)
<1>1. u = Committed(t, [player |-> None, body |-> body])
  BY DEF Txn
<1>2. /\ Touches(body, "money", Put("money", p, g))
      /\ Spares(body, "character_inventory") /\ Spares(body, "auction")
      /\ Spares(body, "mail_items")
      /\ Spares(sts, "mail") /\ Spares(sts, "mail_items_of") /\ Spares(sts, "item_instance")
  BY SaveMailSpares DEF Spares, Touches, Put, SaveGold
<1> HIDE DEF sts
<1>3. \A id \in MailIds : u.mail[id] = Written(t.mail[id], On(body, "mail", id))
  <2> HIDE DEF body
  <2> QED
    BY <1>1, CommittedRows
<1>4. \A id \in MailIds : MailSaved(box, id, t.mail[id], u.mail[id])
  <2> SUFFICES ASSUME NEW id \in MailIds PROVE MailSaved(box, id, t.mail[id], u.mail[id])
    OBVIOUS
  <2> DEFINE row == t.mail[id]
  <2>1. MailSaved(box, id, row, Written(row, On(body, "mail", id)))
    <3> HIDE DEF row
    <3> QED
      BY <1>2, SavedMailRow
  <2> HIDE DEF body
  <2> QED
    BY <1>3, <2>1
<1>5. \A i \in Items : LinkAfter(t, body, i) = t.mail_items[i]
  <2>1. \A key : On(body, "mail_items", key) = {}
    BY <1>2 DEF On, Spares
  <2> HIDE DEF body
  <2> QED
    BY <2>1, WrittenNothing DEF LinkAfter
<1>6. \A link : Unlinks(body, link) <=> link # None /\ Removes(box, link.mail_id)
  BY <1>2, SavedLink
<1>7. \A i \in Items :
         u.item_instance[i] = IF Destroys(box, i) THEN None ELSE t.item_instance[i]
  <2>1. \A i \in Items :
           u.item_instance[i] = Written(t.item_instance[i], On(body, "item_instance", i))
    <3> HIDE DEF body
    <3> QED
      BY <1>1, CommittedRows
  <2> QED
    BY <1>2, <2>1, SavedItemRow
<1> HIDE DEF body
<1>8. \A i \in Items : u.mail_items[i] =
         IF Unlinks(body, LinkAfter(t, body, i)) THEN None ELSE LinkAfter(t, body, i)
  BY <1>1, CommittedRows
<1>9. \A i \in Items : u.mail_items[i] =
         IF t.mail_items[i] # None /\ Removes(box, t.mail_items[i].mail_id)
         THEN None ELSE t.mail_items[i]
  BY <1>5, <1>6, <1>8
<1>10. /\ u.money = With(t.money, p, g)
       /\ u.character_inventory = t.character_inventory
       /\ u.auction = t.auction
  BY <1>1, <1>2, CommittedTables, AreTables, AfterNothing, AfterPut
<1> QED
  BY <1>4, <1>7, <1>9, <1>10 DEF SavesTo

\* Item x is put into the inventory of p and its link is cut.
TakenOut(t, p, x) ==
    [money |-> t.money,
     character_inventory |-> With(t.character_inventory, x, p),
     item_instance |-> With(t.item_instance, x, x),
     mail |-> t.mail,
     auction |-> t.auction,
     mail_items |-> With(t.mail_items, x, None)]

\* Taking item x out of a mail is that, and then saving the box that is left.
LEMMA EffectOfTake ==
    ASSUME NEW kind, NEW n, NEW t \in Tables(kind, n), NEW p \in Players, NEW g \in Nat, NEW box,
           NEW x \in Items, ~Destroys(box, x),
           NEW u, u = Committed(t, Txn({Put("item_instance", x, x), Put("character_inventory", x, p),
                                        SaveGold(p, g), Delete("mail_items", x)} \cup SaveMail(box)))
    PROVE  SavesTo(TakenOut(t, p, x), u, p, g, box)
<1> DEFINE sts == {Put("item_instance", x, x), Put("character_inventory", x, p), SaveGold(p, g),
                   Delete("mail_items", x)}
           body == sts \cup SaveMail(box)
           t1 == TakenOut(t, p, x)
<1>1. u = Committed(t, [player |-> None, body |-> body])
  BY DEF Txn
<1>2. /\ Touches(body, "money", Put("money", p, g))
      /\ Touches(body, "character_inventory", Put("character_inventory", x, p))
      /\ Touches(body, "mail_items", Delete("mail_items", x))
      /\ Spares(body, "auction")
      /\ Spares(sts, "mail") /\ Spares(sts, "mail_items_of")
      /\ Touches(sts, "item_instance", Put("item_instance", x, x))
  BY SaveMailSpares DEF Spares, Touches, Put, Delete, SaveGold
<1>3. /\ t1.money = t.money
      /\ t1.character_inventory = With(t.character_inventory, x, p)
      /\ t1.mail = t.mail
      /\ t1.auction = t.auction
      /\ t1.item_instance[x] = x /\ t1.mail_items[x] = None
      /\ \A i \in Items \ {x} : /\ t1.item_instance[i] = t.item_instance[i]
                                /\ t1.mail_items[i] = t.mail_items[i]
  BY AreTables, WithRows DEF TakenOut
<1> HIDE DEF sts, t1
<1>4. \A id \in MailIds : u.mail[id] = Written(t.mail[id], On(body, "mail", id))
  <2> HIDE DEF body
  <2> QED
    BY <1>1, CommittedRows
<1>5. \A id \in MailIds : MailSaved(box, id, t1.mail[id], u.mail[id])
  <2> SUFFICES ASSUME NEW id \in MailIds PROVE MailSaved(box, id, t1.mail[id], u.mail[id])
    OBVIOUS
  <2> DEFINE row == t.mail[id]
  <2>1. MailSaved(box, id, row, Written(row, On(body, "mail", id)))
    <3> HIDE DEF row
    <3> QED
      BY <1>2, SavedMailRow
  <2> HIDE DEF body
  <2> QED
    BY <1>3, <1>4, <2>1
<1>6. \A i \in Items : LinkAfter(t, body, i) = t1.mail_items[i]
  <2> DEFINE st == Delete("mail_items", x)
  <2>1. /\ st \in On(body, "mail_items", x) /\ st[3] = "delete"
        /\ \A i : i # x => On(body, "mail_items", i) = {}
    BY <1>2 DEF On, Touches, Delete
  <2> HIDE DEF body, st
  <2>2. LinkAfter(t, body, x) = None
    BY <2>1, WrittenDelete DEF LinkAfter
  <2>3. \A i \in Items \ {x} : LinkAfter(t, body, i) = t.mail_items[i]
    BY <2>1, WrittenNothing DEF LinkAfter
  <2> QED
    BY <1>3, <2>2, <2>3
<1>7. \A link : Unlinks(body, link) <=> link # None /\ Removes(box, link.mail_id)
  BY <1>2, SavedLink
<1>8. \A i \in Items :
         u.item_instance[i] = Written(t.item_instance[i], On(body, "item_instance", i))
  <2> HIDE DEF body
  <2> QED
    BY <1>1, CommittedRows
<1>9. u.item_instance[x] = x
  <2> DEFINE st == Put("item_instance", x, x)
  <2>1. \A m \in box : m.state = "deleted" /\ m.item # None => m.item # x
    BY DEF Destroys
  <2>2. \A y \in SaveMail(box) : ~(y[1] = "item_instance" /\ y[2] = x)
    BY <2>1, InSaveMail DEF Update, Delete, Unlink
  <2>3. On(body, "item_instance", x) = {st}
    <3>1. st \in sts /\ st[1] = "item_instance" /\ st[2] = x
          /\ \A y \in sts : y[1] = "item_instance" => y = st
      BY <1>2 DEF Touches, Put
    <3> HIDE DEF st
    <3> QED
      BY <2>2, <3>1 DEF On
  <2>4. st[3] = "put" /\ st[4] = x
    BY DEF Put
  <2>5. u.item_instance[x] = Written(t.item_instance[x], {st})
    BY <1>8, <2>3
  <2> HIDE DEF body, st
  <2> QED
    BY <2>4, <2>5, WrittenOne
<1>10. ASSUME NEW i \in Items \ {x}
       PROVE  u.item_instance[i] = IF Destroys(box, i) THEN None ELSE t.item_instance[i]
  <2>1. On(body, "item_instance", i) = On({} \cup SaveMail(box), "item_instance", i)
    BY <1>2 DEF On, Touches, Put
  <2>2. Spares({}, "item_instance")
    BY DEF Spares
  <2>3. u.item_instance[i] = Written(t.item_instance[i], On({} \cup SaveMail(box), "item_instance", i))
    BY <1>8, <2>1
  <2> QED
    BY <2>2, <2>3, SavedItemRow
<1>11. \A i \in Items :
          u.item_instance[i] = IF Destroys(box, i) THEN None ELSE t1.item_instance[i]
  BY <1>3, <1>9, <1>10
<1> HIDE DEF body
<1>12. \A i \in Items : u.mail_items[i] =
          IF Unlinks(body, LinkAfter(t, body, i)) THEN None ELSE LinkAfter(t, body, i)
  BY <1>1, CommittedRows
<1>13. \A i \in Items : u.mail_items[i] =
          IF t1.mail_items[i] # None /\ Removes(box, t1.mail_items[i].mail_id)
          THEN None ELSE t1.mail_items[i]
  BY <1>6, <1>7, <1>12
<1>14. /\ u.money = With(t1.money, p, g)
       /\ u.character_inventory = t1.character_inventory
       /\ u.auction = t1.auction
  BY <1>1, <1>2, <1>3, CommittedTables, AreTables, AfterNothing, AfterPut
<1> QED
  BY <1>5, <1>11, <1>13, <1>14 DEF SavesTo, t1

\* HandleMailReturnToSender: the mail and the link of what was in it are deleted.
LEMMA EffectOfRemove ==
    ASSUME NEW kind, NEW n, NEW t \in Tables(kind, n), NEW id \in MailIds,
           NEW u, u = Committed(t, Txn({Delete("mail", id), Unlink(id)}))
    PROVE  /\ u.money = t.money
           /\ u.character_inventory = t.character_inventory
           /\ u.item_instance = t.item_instance
           /\ u.auction = t.auction
           /\ u.mail = With(t.mail, id, None)
           /\ \A i \in Items : u.mail_items[i] =
                 IF t.mail_items[i] # None /\ t.mail_items[i].mail_id = id
                 THEN None ELSE t.mail_items[i]
<1> DEFINE sts == {Delete("mail", id), Unlink(id)}
<1>1. u = Committed(t, [player |-> None, body |-> sts])
  BY DEF Txn
<1>2. /\ Touches(sts, "mail", Delete("mail", id))
      /\ Spares(sts, "money") /\ Spares(sts, "character_inventory")
      /\ Spares(sts, "item_instance") /\ Spares(sts, "auction") /\ Spares(sts, "mail_items")
  BY DEF Spares, Touches, Delete, Unlink
<1>3. ASSUME NEW k PROVE On(sts, "mail_items_of", k) # {} <=> k = id
  <2>1. \A st : st \in On(sts, "mail_items_of", k) <=> st = Unlink(id) /\ k = id
    BY DEF On, Delete, Unlink
  <2> HIDE DEF sts
  <2> QED
    BY <2>1
<1> HIDE DEF sts
<1>4. /\ u.money = t.money
      /\ u.character_inventory = t.character_inventory
      /\ u.item_instance = t.item_instance
      /\ u.auction = t.auction
      /\ u.mail = With(t.mail, id, None)
  BY <1>1, <1>2, CommittedTables, AreTables, AfterNothing, AfterDelete
<1>5. ASSUME NEW i \in Items
      PROVE  u.mail_items[i] = IF t.mail_items[i] # None /\ t.mail_items[i].mail_id = id
                               THEN None ELSE t.mail_items[i]
  <2>1. On(sts, "mail_items", i) = {}
    BY <1>2 DEF On, Spares
  <2>2. LinkAfter(t, sts, i) = t.mail_items[i]
    BY <2>1, WrittenNothing DEF LinkAfter
  <2>3. u.mail_items[i] =
          IF Unlinks(sts, LinkAfter(t, sts, i)) THEN None ELSE LinkAfter(t, sts, i)
    BY <1>1, CommittedRows
  <2>4. \A link : Unlinks(sts, link) <=> link # None /\ link.mail_id = id
    BY <1>3 DEF Unlinks
  <2> QED
    BY <2>2, <2>3, <2>4
<1> QED
  BY <1>4, <1>5
-----------------------------------------------------------------------------
\* Where the items are.

\* A login of its receiver finds item i in mail id.
In(t, i, id) == /\ Exists(t, i) /\ t.mail_items[i] # None
                /\ t.mail_items[i].mail_id = id
                /\ t.mail_items[i].receiver = t.mail[id].receiver

\* An item is in one place; only those of C may be in a mail while they are on sale.
OneHand(t, C) ==
    \A i \in Items : Exists(t, i) =>
        /\ t.character_inventory[i] # None => t.auction[i] = None /\ t.mail_items[i] = None
        /\ t.auction[i] # None /\ t.mail_items[i] # None => i \in C

\* An item that is linked to a mail is found in it.
Linked(t) ==
    \A i \in Items : Exists(t, i) /\ t.mail_items[i] # None =>
        /\ t.mail[t.mail_items[i].mail_id] # None
        /\ t.mail[t.mail_items[i].mail_id].receiver = t.mail_items[i].receiver

\* A mail has one item.
OneItem(t) ==
    \A i, j \in Items :
        t.mail_items[i] # None /\ t.mail_items[j] # None /\ i # j
          => t.mail_items[i].mail_id # t.mail_items[j].mail_id

\* What is on sale exists, and what exists is somewhere unless it is among the lost.
Placed(t, lost) ==
    \A i \in Items :
        /\ t.auction[i] # None => Exists(t, i)
        /\ Exists(t, i) /\ i \notin lost =>
              t.character_inventory[i] # None \/ t.auction[i] # None \/ t.mail_items[i] # None

\* Mail m of p is what a login would load.
CurrentMail(t, m, p) == m.receiver = p /\ t.mail[m.id] = Row(m) /\ MailedItem(t, m.id) = m.item

\* The inventories B and the mails X of the characters A are what a login would load.
Views(t, B, X, A) ==
    \A p \in A : /\ B[p] = LoadInventory(t, p)
                 /\ Distinct(X[p])
                 /\ \A m \in X[p] : CurrentMail(t, m, p)

Whole(t, B, X, A, lost, C) ==
    OneHand(t, C) /\ Linked(t) /\ OneItem(t) /\ Placed(t, lost) /\ Views(t, B, X, A)

LEMMA Mailed ==
    ASSUME NEW t, NEW id
    PROVE  /\ MailedItem(t, id) \in Items \cup {None}
           /\ (\A i \in Items : ~In(t, i, id)) => MailedItem(t, id) = None
           /\ MailedItem(t, id) # None => In(t, MailedItem(t, id), id)
           /\ \A i \in Items : In(t, i, id) => /\ MailedItem(t, id) # None
                                               /\ OneItem(t) => MailedItem(t, id) = i
<1> DEFINE found == {i \in Items : In(t, i, id)}
<1>1. MailedItem(t, id) = IF found = {} THEN None ELSE CHOOSE i \in found : TRUE
  BY DEF MailedItem, In
<1>2. found # {} => (CHOOSE i \in found : TRUE) \in found
  OBVIOUS
<1>3. \A i \in Items : i # None
  BY AuctionMailAssumption
<1>4. \A i \in Items : In(t, i, id) => i \in found
  OBVIOUS
<1>5. \A i \in found : i \in Items /\ In(t, i, id)
  OBVIOUS
<1>6. \A i, j \in Items : OneItem(t) /\ In(t, i, id) /\ In(t, j, id) => i = j
  BY DEF OneItem, In
<1> HIDE DEF found
<1> QED
  BY <1>1, <1>2, <1>3, <1>4, <1>5, <1>6

LEMMA MailedSame ==
    ASSUME NEW t, NEW u, NEW id, \A i \in Items : In(t, i, id) <=> In(u, i, id)
    PROVE  MailedItem(u, id) = MailedItem(t, id)
<1> DEFINE found(v) == {i \in Items : In(v, i, id)}
<1>1. \A v : MailedItem(v, id) = IF found(v) = {} THEN None ELSE CHOOSE i \in found(v) : TRUE
  BY DEF MailedItem, In
<1>2. found(t) = found(u)
  OBVIOUS
<1> HIDE DEF found
<1> QED
  BY <1>1, <1>2

LEMMA OneItemLeft ==
    ASSUME NEW t, NEW u, OneItem(t),
           \A i \in Items : u.mail_items[i] # None => u.mail_items[i] = t.mail_items[i]
    PROVE  OneItem(u)
<1> SUFFICES ASSUME NEW i \in Items, NEW j \in Items,
                    u.mail_items[i] # None, u.mail_items[j] # None,
                    u.mail_items[i].mail_id = u.mail_items[j].mail_id
             PROVE  i = j
  BY DEF OneItem
<1>1. u.mail_items[i] = t.mail_items[i] /\ u.mail_items[j] = t.mail_items[j]
  OBVIOUS
<1> QED
  BY <1>1 DEF OneItem

\* The same tables but for the purses hold the same.
LEMMA WholeGold ==
    ASSUME NEW t, NEW u, NEW B, NEW X, NEW A, NEW lost, NEW C, Whole(t, B, X, A, lost, C),
           u.character_inventory = t.character_inventory, u.item_instance = t.item_instance,
           u.mail = t.mail, u.auction = t.auction, u.mail_items = t.mail_items
    PROVE  Whole(u, B, X, A, lost, C)
<1>1. \A i : Exists(u, i) <=> Exists(t, i)
  BY DEF Exists
<1>2. \A p : LoadInventory(u, p) = LoadInventory(t, p)
  BY <1>1 DEF LoadInventory
<1>3. \A id : MailedItem(u, id) = MailedItem(t, id)
  BY MailedSame, <1>1 DEF In
<1>4. Views(u, B, X, A)
  BY <1>2, <1>3 DEF Whole, Views, CurrentMail
<1>5. OneHand(u, C) /\ Linked(u) /\ OneItem(u) /\ Placed(u, lost)
  BY <1>1 DEF Whole, OneHand, Linked, OneItem, Placed
<1> QED
  BY <1>4, <1>5 DEF Whole

LEMMA WholeLess ==
    ASSUME NEW t, NEW B, NEW X, NEW A, NEW lost, NEW C, Whole(t, B, X, A, lost, C),
           NEW B1, NEW X1, NEW A1, A1 \subseteq A,
           \A p \in A1 : B1[p] = B[p] /\ X1[p] \subseteq X[p]
    PROVE  Whole(t, B1, X1, A1, lost, C)
<1>1. Views(t, B1, X1, A1)
  BY DEF Whole, Views, Distinct
<1> QED
  BY <1>1 DEF Whole

\* Item i leaves the inventory of p.
LEMMA WholeMove ==
    ASSUME NEW kind, NEW n, NEW t \in Tables(kind, n), NEW u,
           NEW B, NEW X, NEW A \in SUBSET Players, NEW lost, NEW C, Whole(t, B, X, A, lost, C),
           NEW p \in A, NEW i \in B[p],
           u.character_inventory = With(t.character_inventory, i, None),
           u.item_instance = t.item_instance,
           u.mail = t.mail, u.auction = t.auction, u.mail_items = t.mail_items,
           NEW B1, B1[p] = B[p] \ {i}, \A q \in A : q # p => B1[q] = B[q]
    PROVE  /\ Whole(u, B1, X, A, lost \cup {i}, C)
           /\ i \in Items /\ Exists(t, i)
           /\ t.auction[i] = None /\ t.mail_items[i] = None
<1>1. i \in Items /\ t.character_inventory[i] = p /\ Exists(t, i)
  BY DEF Whole, Views, LoadInventory
<1>2. /\ u.character_inventory[i] = None
      /\ \A j \in Items : j # i => u.character_inventory[j] = t.character_inventory[j]
  BY <1>1, AreTables, WithRows
<1>3. \A j : Exists(u, j) <=> Exists(t, j)
  BY DEF Exists
<1>4. OneHand(u, C) /\ Linked(u) /\ OneItem(u) /\ Placed(u, lost \cup {i})
  <2>1. OneHand(u, C)
    BY <1>2, <1>3 DEF Whole, OneHand
  <2>2. Linked(u) /\ OneItem(u)
    BY <1>3 DEF Whole, Linked, OneItem
  <2>3. Placed(u, lost \cup {i})
    BY <1>2, <1>3 DEF Whole, Placed
  <2> QED
    BY <2>1, <2>2, <2>3
<1>5. \A id : MailedItem(u, id) = MailedItem(t, id)
  BY MailedSame, <1>3 DEF In
<1>6. ASSUME NEW q \in A PROVE B1[q] = LoadInventory(u, q)
  <2>1. \A j : j \in B[q] <=> j \in Items /\ t.character_inventory[j] = q /\ Exists(t, j)
    BY DEF Whole, Views, LoadInventory
  <2>2. \A j : j \in B1[q] <=> j \in B[q] /\ j # i
    <3>1. CASE q = p
      BY <3>1
    <3>2. CASE q # p
      BY <1>1, <2>1, <3>2
    <3> QED
      BY <3>1, <3>2
  <2>3. \A j : j \in LoadInventory(u, q) <=>
               j \in Items /\ u.character_inventory[j] = q /\ Exists(u, j)
    BY DEF LoadInventory
  <2>4. q # None
    BY AuctionMailAssumption
  <2> QED
    BY <1>2, <1>3, <2>1, <2>2, <2>3, <2>4
<1>7. Views(u, B1, X, A)
  BY <1>5, <1>6 DEF Whole, Views, CurrentMail
<1>8. t.auction[i] = None /\ t.mail_items[i] = None
  BY <1>1, AuctionMailAssumption DEF Whole, OneHand
<1> QED
  BY <1>1, <1>4, <1>7, <1>8 DEF Whole

\* The mails of every character.
Boxes(kind, n) == [Players -> SUBSET Mails(kind, n)]

LEMMA BoxMails ==
    ASSUME NEW kind, NEW n, NEW X \in Boxes(kind, n), NEW p \in Players, NEW m \in X[p]
    PROVE  m \in Mails(kind, n) /\ m.id \in MailIds /\ m.id <= n /\ Row(m) \in Rows(kind[m.id])
BY DEF Boxes, Mails

LEMMA RowIsSome ==
    /\ \A row \in MailRow : row # None
    /\ \A link \in Link : link # None
    /\ \A a \in Auction : a # None
    /\ \A p \in Players : p # None
    /\ \A i \in Items : i # None
BY AuctionMailAssumption

\* Item i is nowhere but, when it is in C, on sale.
Loose(t, i, C) == /\ Exists(t, i) /\ t.mail_items[i] = None /\ t.character_inventory[i] = None
                  /\ t.auction[i] # None => i \in C

\* The link of mail d is made, if it has an item.
Carries(t, u, d, C) ==
    \/ d.item = None /\ u.mail_items = t.mail_items
    \/ /\ d.item \in Items /\ Loose(t, d.item, C)
       /\ u.mail_items = With(t.mail_items, d.item, [mail_id |-> d.id, receiver |-> d.receiver])

\* Its receiver may have it in memory.
Gets(X, X1, A, d) == \A q \in A : X1[q] \subseteq X[q] \cup {x \in {d} : x.receiver = q}

\* A new mail d is sent, with an item that was nowhere, or on sale and in C, or with none.
LEMMA WholeDeliver ==
    ASSUME NEW kind, NEW n \in Nat, NEW t \in Tables(kind, n), NEW u,
           NEW B, NEW X \in Boxes(kind, n), NEW A \in SUBSET Players, NEW lost, NEW C,
           Whole(t, B, X, A, lost, C),
           NEW d, d.id \in MailIds, d.id > n, Row(d) \in MailRow, Row(d).receiver = d.receiver,
           u.character_inventory = t.character_inventory,
           u.item_instance = t.item_instance, u.auction = t.auction,
           u.mail = With(t.mail, d.id, Row(d)),
           Carries(t, u, d, C), NEW X1, Gets(X, X1, A, d),
           NEW lost1, lost \ {d.item} \subseteq lost1
    PROVE  Whole(u, B, X1, A, lost1, C)
<1> DEFINE new == [mail_id |-> d.id, receiver |-> d.receiver]
<1>1. /\ u.mail[d.id] = Row(d) /\ u.mail[d.id] # None
      /\ \A id \in MailIds : id # d.id => u.mail[id] = t.mail[id]
  BY AreTables, WithRows, RowIsSome
<1>2. \A i \in Items : t.mail_items[i] # None => /\ t.mail_items[i].mail_id # d.id
                                                 /\ t.mail_items[i].mail_id \in MailIds
  BY Columns DEF Link, MailIds
<1>3. d.item \in Items => /\ u.mail_items[d.item] # None
                          /\ u.mail_items[d.item].mail_id = d.id
                          /\ u.mail_items[d.item].receiver = d.receiver
                          /\ Exists(t, d.item) /\ t.mail_items[d.item] = None
                          /\ t.character_inventory[d.item] = None
                          /\ t.auction[d.item] # None => d.item \in C
  <2>1. ASSUME d.item \in Items
        PROVE  /\ u.mail_items[d.item] = new
               /\ Exists(t, d.item) /\ t.mail_items[d.item] = None
               /\ t.character_inventory[d.item] = None
               /\ t.auction[d.item] # None => d.item \in C
    BY <2>1, AreTables, WithRows, RowIsSome DEF Carries, Loose
  <2>2. Row(d).receiver \in Players
    BY DEF MailRow
  <2>3. new \in Link
    BY <2>2 DEF Link
  <2> QED
    BY <2>1, <2>3, RowIsSome
<1>4. \A i \in Items : i # d.item => u.mail_items[i] = t.mail_items[i]
  BY AreTables, WithRows DEF Carries
<1>5. \A i : Exists(u, i) <=> Exists(t, i)
  BY DEF Exists
<1>6. OneHand(u, C)
  BY <1>3, <1>4, <1>5 DEF Whole, OneHand
<1>7. Linked(u)
  BY <1>1, <1>2, <1>3, <1>4, <1>5 DEF Whole, Linked
<1>8. OneItem(u)
  BY <1>2, <1>3, <1>4 DEF Whole, OneItem
<1>9. Placed(u, lost1)
  BY <1>3, <1>4, <1>5 DEF Whole, Placed
<1>10. ASSUME NEW q \in A PROVE B[q] = LoadInventory(u, q)
  BY <1>5 DEF Whole, Views, LoadInventory
<1>11. ASSUME NEW id \in MailIds, id # d.id PROVE MailedItem(u, id) = MailedItem(t, id)
  <2>1. \A i \in Items : In(t, i, id) <=> In(u, i, id)
    BY <1>1, <1>3, <1>4, <1>5, <1>11 DEF In
  <2> QED
    BY <2>1, MailedSame
<1>12. MailedItem(u, d.id) = d.item
  <2>1. CASE d.item \in Items
    <3>1. In(u, d.item, d.id)
      BY <1>1, <1>3, <1>5, <2>1 DEF In
    <3> QED
      BY <1>8, <2>1, <3>1, Mailed
  <2>2. CASE d.item \notin Items
    <3>1. \A i \in Items : ~In(u, i, d.id)
      BY <1>2, <1>4, <2>2 DEF In
    <3> QED
      BY <2>2, <3>1, Mailed DEF Carries
  <2> QED
    BY <2>1, <2>2
<1>13. ASSUME NEW q \in A, NEW m \in X1[q] PROVE CurrentMail(u, m, q)
  <2>1. CASE m = d
    <3>1. d.receiver = q
      BY <1>13, <2>1, BoxMails DEF Whole, Views, CurrentMail, Gets
    <3> QED
      BY <1>1, <1>12, <2>1, <3>1 DEF CurrentMail
  <2>2. CASE m # d
    <3>1. m \in X[q] /\ CurrentMail(t, m, q)
      BY <2>2 DEF Whole, Views, Gets
    <3>2. m.id \in MailIds /\ m.id # d.id
      BY <3>1, BoxMails DEF MailIds
    <3> QED
      BY <1>1, <1>11, <3>1, <3>2 DEF CurrentMail
  <2> QED
    BY <2>1, <2>2
<1>14. ASSUME NEW q \in A PROVE Distinct(X1[q])
  <2>1. \A m \in X[q] : m.id # d.id
    BY BoxMails DEF MailIds
  <2>2. Distinct(X[q])
    BY DEF Whole, Views
  <2>3. \A m \in X1[q] : m \in X[q] \/ m = d
    BY DEF Gets
  <2> QED
    BY <2>1, <2>2, <2>3 DEF Distinct
<1>15. Views(u, B, X1, A)
  BY <1>10, <1>13, <1>14 DEF Views
<1> QED
  BY <1>6, <1>7, <1>8, <1>9, <1>15 DEF Whole

\* An item is put on sale that is nowhere else, and one in a mail is no longer on sale.
Fits(t, i, a, C1, lost, lost1) ==
    /\ a # None => /\ Exists(t, i) /\ t.character_inventory[i] = None
                   /\ t.mail_items[i] # None => i \in C1
    /\ a = None => lost \subseteq lost1 /\ t.mail_items[i] # None

\* The row of the auction of item i changes.
LEMMA WholeAuction ==
    ASSUME NEW t, NEW u, IsTable(t.auction, Items),
           NEW B, NEW X, NEW A, NEW lost, NEW C, Whole(t, B, X, A, lost, C),
           NEW i \in Items, NEW a, u.auction = With(t.auction, i, a),
           u.character_inventory = t.character_inventory, u.item_instance = t.item_instance,
           u.mail = t.mail, u.mail_items = t.mail_items,
           NEW lost1, NEW C1, C \ {i} \subseteq C1, lost \ {i} \subseteq lost1,
           Fits(t, i, a, C1, lost, lost1)
    PROVE  Whole(u, B, X, A, lost1, C1)
<1>1. u.auction[i] = a /\ \A j \in Items : j # i => u.auction[j] = t.auction[j]
  BY WithRows
<1>2. \A j : Exists(u, j) <=> Exists(t, j)
  BY DEF Exists
<1>3. \A p : LoadInventory(u, p) = LoadInventory(t, p)
  BY <1>2 DEF LoadInventory
<1>4. \A id : MailedItem(u, id) = MailedItem(t, id)
  BY MailedSame, <1>2 DEF In
<1>5. Views(u, B, X, A)
  BY <1>3, <1>4 DEF Whole, Views, CurrentMail
<1>6. OneHand(u, C1)
  BY <1>1, <1>2 DEF Whole, OneHand, Fits
<1>7. Linked(u) /\ OneItem(u)
  BY <1>2 DEF Whole, Linked, OneItem
<1>8. Placed(u, lost1)
  BY <1>1, <1>2 DEF Whole, Placed, Fits
<1> QED
  BY <1>5, <1>6, <1>7, <1>8 DEF Whole

\* The mails of a box are in the tables, but for what is yet to be saved.
Covers(t, p, box) ==
    /\ Distinct(box)
    /\ \A m \in box :
          /\ m.receiver = p /\ MailedItem(t, m.id) = m.item
          /\ t.mail[m.id] # None /\ t.mail[m.id].receiver = p
          /\ IF m.state = "changed" THEN Updated(t.mail[m.id], Saves(m)) = Row(m)
             ELSE t.mail[m.id] = Row(m)

\* The mails that are left in memory.
LEMMA SavedMails ==
    ASSUME NEW kind, NEW n, NEW box \in SUBSET Mails(kind, n), NEW m \in Saved(box)
    PROVE  /\ m \in Mails(kind, n)
           /\ \E x \in box : /\ x.state # "deleted" /\ m.id = x.id /\ m.item = x.item
                             /\ m.receiver = x.receiver /\ Row(m) = Row(x)
<1>1. PICK x \in box : x.state # "deleted" /\ m = [x EXCEPT !.state = "unchanged"]
  BY DEF Saved
<1>2. x \in Mails(kind, n)
  OBVIOUS
<1>3. /\ m.id = x.id /\ m.item = x.item /\ m.receiver = x.receiver /\ m.messageType = x.messageType
      /\ m.sender = x.sender /\ m.money = x.money /\ m.cod = x.cod /\ m.returned = x.returned
  BY <1>1, <1>2 DEF Mails
<1>4. Row(m) = Row(x)
  BY <1>3 DEF Row
<1>5. m \in Mails(kind, n)
  BY <1>1, <1>2, <1>4 DEF Mails
<1> QED
  BY <1>1, <1>3, <1>4, <1>5

\* The mails in memory are among those that saving the box of p leaves.
Keeps(X, X1, A, p, box) == X1[p] \subseteq Saved(box) /\ \A q \in A : q # p => X1[q] \subseteq X[q]

\* They are among those that were, without m of p.
Without(X, X1, A, p, m) == X1[p] \subseteq X[p] \ {m} /\ \A q \in A : q # p => X1[q] \subseteq X[q]

\* The inventory of p has item x too.
Receives(B, B1, A, p, x) == B1[p] = B[p] \cup {x} /\ \A q \in A : q # p => B1[q] = B[q]

\* The links of mail id are gone.
Cut(t, u, id) ==
    \A i \in Items : u.mail_items[i] =
        IF t.mail_items[i] # None /\ t.mail_items[i].mail_id = id THEN None ELSE t.mail_items[i]

\* The purse and the box of p are saved.
LEMMA WholeSave ==
    ASSUME NEW kind, NEW n, NEW t \in Tables(kind, n), NEW u,
           NEW B, NEW X \in Boxes(kind, n), NEW A \in SUBSET Players, NEW lost,
           Whole(t, B, X, A, lost, {}),
           NEW p \in Players, NEW g, NEW box \in SUBSET Mails(kind, n), Covers(t, p, box),
           SavesTo(t, u, p, g, box),
           NEW X1, Keeps(X, X1, A, p, box)
    PROVE  Whole(u, B, X1, A, lost, {})
<1>1. \A m \in box : m \in Mails(kind, n) /\ m.id \in MailIds
                     /\ m.state \in {"unchanged", "changed", "deleted"}
  BY DEF Mails
<1>2. \A i \in Items : t.mail_items[i] # None => t.mail_items[i].mail_id \in MailIds
  BY Columns DEF Link
<1>3. ASSUME NEW i \in Items, Destroys(box, i)
      PROVE  /\ t.mail_items[i] # None /\ Removes(box, t.mail_items[i].mail_id)
             /\ Exists(t, i) /\ t.character_inventory[i] = None /\ t.auction[i] = None
  <2>1. PICK m \in box : m.state = "deleted" /\ m.item = i
    BY <1>3 DEF Destroys
  <2>2. MailedItem(t, m.id) = i
    BY <2>1 DEF Covers
  <2>3. In(t, i, m.id)
    BY <2>2, Mailed, RowIsSome
  <2> QED
    BY <2>1, <2>3 DEF In, Whole, OneHand, Removes
<1>4. ASSUME NEW i \in Items, Exists(t, i), t.mail_items[i] # None,
             Removes(box, t.mail_items[i].mail_id)
      PROVE  Destroys(box, i)
  <2>1. PICK m \in box : m.state = "deleted" /\ m.id = t.mail_items[i].mail_id
    BY <1>4 DEF Removes
  <2>2. In(t, i, m.id)
    BY <1>4, <2>1 DEF In, Whole, Linked
  <2>3. MailedItem(t, m.id) = i
    BY <2>2, Mailed DEF Whole
  <2> QED
    BY <2>1, <2>3 DEF Covers, Destroys
<1>5. /\ u.character_inventory = t.character_inventory /\ u.auction = t.auction
      /\ \A i \in Items :
            /\ u.item_instance[i] = IF Destroys(box, i) THEN None ELSE t.item_instance[i]
            /\ u.mail_items[i] = IF t.mail_items[i] # None /\ Removes(box, t.mail_items[i].mail_id)
                                 THEN None ELSE t.mail_items[i]
      /\ \A id \in MailIds : MailSaved(box, id, t.mail[id], u.mail[id])
  BY DEF SavesTo
<1>6. \A i \in Items : Exists(u, i) <=> Exists(t, i) /\ ~Destroys(box, i)
  BY <1>5 DEF Exists
<1>7. \A i \in Items : Exists(u, i) => u.mail_items[i] = t.mail_items[i]
  BY <1>4, <1>5, <1>6
<1>8. ASSUME NEW m \in box, m.state # "deleted" PROVE u.mail[m.id] = Row(m)
  <2>1. MailSaved(box, m.id, t.mail[m.id], u.mail[m.id])
    BY <1>1, <1>5
  <2>2. \A x \in box : x.id = m.id => x = m
    BY DEF Covers, Distinct
  <2>3. CASE m.state = "unchanged"
    BY <2>1, <2>2, <2>3 DEF MailSaved, Covers
  <2>4. CASE m.state = "changed"
    <3>1. u.mail[m.id] = Updated(t.mail[m.id], Saves(m))
      BY <2>1, <2>4 DEF MailSaved, Covers
    <3> QED
      BY <2>4, <3>1 DEF Covers
  <2> QED
    BY <1>1, <1>8, <2>3, <2>4
<1>9. ASSUME NEW id \in MailIds, \A m \in box : m.id # id PROVE u.mail[id] = t.mail[id]
  BY <1>5, <1>9 DEF MailSaved
<1>10. ASSUME NEW id \in MailIds, ~Removes(box, id)
       PROVE  /\ u.mail[id].receiver = t.mail[id].receiver
              /\ t.mail[id] # None => u.mail[id] # None
  <2>1. CASE \A m \in box : m.id # id
    BY <1>9, <2>1
  <2>2. CASE ~\A m \in box : m.id # id
    <3>1. PICK m \in box : m.id = id
      BY <2>2
    <3>2. u.mail[id] = Row(m)
      BY <1>8, <1>10, <3>1 DEF Removes
    <3>3. Row(m) \in MailRow /\ Row(m).receiver = m.receiver
      BY <1>1 DEF Mails, Rows, Row
    <3> QED
      BY <3>1, <3>2, <3>3, RowIsSome DEF Covers
  <2> QED
    BY <2>1, <2>2
<1>11. OneHand(u, {})
  BY <1>5, <1>6, <1>7 DEF Whole, OneHand
<1>12. Linked(u)
  <2> SUFFICES ASSUME NEW i \in Items, Exists(u, i), u.mail_items[i] # None
               PROVE  /\ u.mail[u.mail_items[i].mail_id] # None
                      /\ u.mail[u.mail_items[i].mail_id].receiver = u.mail_items[i].receiver
    BY DEF Linked
  <2>1. u.mail_items[i] = t.mail_items[i] /\ ~Removes(box, t.mail_items[i].mail_id) /\ Exists(t, i)
    BY <1>5, <1>6, <1>7
  <2>2. /\ t.mail[t.mail_items[i].mail_id] # None
        /\ t.mail[t.mail_items[i].mail_id].receiver = t.mail_items[i].receiver
    BY <2>1 DEF Whole, Linked
  <2> QED
    BY <1>2, <1>10, <2>1, <2>2
<1>13. OneItem(u)
  <2>1. \A i \in Items : u.mail_items[i] # None => u.mail_items[i] = t.mail_items[i]
    BY <1>5
  <2>2. OneItem(t)
    BY DEF Whole
  <2> QED
    BY <2>1, <2>2, OneItemLeft
<1>14. Placed(u, lost)
  BY <1>3, <1>5, <1>6, <1>7 DEF Whole, Placed
<1>15. \A q \in Players : LoadInventory(u, q) = LoadInventory(t, q)
  BY <1>3, <1>5, <1>6, RowIsSome DEF LoadInventory
<1>16. ASSUME NEW id \in MailIds, ~Removes(box, id)
       PROVE  MailedItem(u, id) = MailedItem(t, id)
  <2>1. ASSUME NEW i \in Items PROVE In(t, i, id) <=> In(u, i, id)
    <3>1. ASSUME In(t, i, id) PROVE In(u, i, id)
      <4>1. u.mail_items[i] = t.mail_items[i]
        BY <1>5, <1>16, <3>1 DEF In
      <4>2. ~Destroys(box, i)
        BY <1>3, <1>16, <3>1 DEF In
      <4> QED
        BY <1>6, <1>10, <1>16, <3>1, <4>1, <4>2 DEF In
    <3>2. ASSUME In(u, i, id) PROVE In(t, i, id)
      BY <1>6, <1>7, <1>10, <1>16, <3>2 DEF In
    <3> QED
      BY <3>1, <3>2
  <2> QED
    BY <2>1, MailedSame
<1>17. ASSUME NEW q \in A, q # p, NEW m \in X1[q] PROVE CurrentMail(u, m, q)
  <2>1. m \in X[q] /\ CurrentMail(t, m, q) /\ m.id \in MailIds
    BY <1>17, BoxMails DEF Whole, Views, Keeps
  <2>2. t.mail[m.id].receiver = q
    BY <2>1 DEF CurrentMail, Row
  <2>3. \A x \in box : x.id # m.id
    BY <1>17, <2>2 DEF Covers
  <2>4. ~Removes(box, m.id) /\ u.mail[m.id] = t.mail[m.id]
    BY <1>9, <2>1, <2>3 DEF Removes
  <2> QED
    BY <1>16, <2>1, <2>4 DEF CurrentMail
<1>18. ASSUME NEW m \in X1[p] PROVE CurrentMail(u, m, p)
  <2>1. PICK x \in box : /\ x.state # "deleted" /\ m.id = x.id /\ m.item = x.item
                         /\ m.receiver = x.receiver /\ Row(m) = Row(x)
    BY SavedMails DEF Keeps
  <2>2. ~Removes(box, x.id)
    BY <2>1 DEF Removes, Covers, Distinct
  <2>3. u.mail[x.id] = Row(x) /\ MailedItem(u, x.id) = x.item
    BY <1>1, <1>8, <1>16, <2>1, <2>2 DEF Covers
  <2> QED
    BY <2>1, <2>3 DEF CurrentMail, Covers
<1>19. Distinct(X1[p])
  <2>1. \A m1, m2 \in X1[p] : m1.id = m2.id => m1 = m2
    <3> SUFFICES ASSUME NEW m1 \in X1[p], NEW m2 \in X1[p], m1.id = m2.id PROVE m1 = m2
      OBVIOUS
    <3>1. PICK x1 \in box : m1 = [x1 EXCEPT !.state = "unchanged"]
      BY DEF Saved, Keeps
    <3>2. PICK x2 \in box : m2 = [x2 EXCEPT !.state = "unchanged"]
      BY DEF Saved, Keeps
    <3>3. x1 \in Mails(kind, n) /\ x2 \in Mails(kind, n)
      OBVIOUS
    <3>4. m1.id = x1.id /\ m2.id = x2.id
      BY <3>1, <3>2, <3>3 DEF Mails
    <3>5. x1 = x2
      BY <3>4 DEF Covers, Distinct
    <3> QED
      BY <3>1, <3>2, <3>5
  <2> QED
    BY <2>1 DEF Distinct
<1>20. Views(u, B, X1, A)
  <2>1. \A q \in A : q # p => Distinct(X1[q])
    BY DEF Whole, Views, Distinct, Keeps
  <2>2. \A q \in A : B[q] = LoadInventory(u, q)
    BY <1>15 DEF Whole, Views
  <2> QED
    BY <1>17, <1>18, <1>19, <2>1, <2>2 DEF Views
<1> QED
  BY <1>11, <1>12, <1>13, <1>14, <1>20 DEF Whole

\* From t to u only mail id loses its item.
OnlyMailLoses(t, u, id) ==
    /\ u.mail = t.mail /\ MailedItem(u, id) = None
    /\ \A other \in MailIds : other # id => MailedItem(u, other) = MailedItem(t, other)

\* Item x of mail m goes to the inventory of p.
LEMMA WholeTake ==
    ASSUME NEW kind, NEW n, NEW t \in Tables(kind, n),
           NEW B, NEW X \in Boxes(kind, n), NEW A \in SUBSET Players, NEW lost,
           Whole(t, B, X, A, lost, {}),
           NEW p \in A, NEW m \in X[p], NEW x \in Items, m.item = x,
           NEW u, u = TakenOut(t, p, x),
           NEW B1, Receives(B, B1, A, p, x),
           NEW X1, Without(X, X1, A, p, m)
    PROVE  /\ Whole(u, B1, X1, A, lost, {})
           /\ u \in Tables(kind, n)
           /\ OnlyMailLoses(t, u, m.id)
<1>1. m.id \in MailIds /\ m.receiver = p /\ t.mail[m.id] = Row(m) /\ MailedItem(t, m.id) = x
  BY BoxMails DEF Whole, Views, CurrentMail
<1>2. In(t, x, m.id)
  BY <1>1, Mailed, RowIsSome
<1>3. /\ Exists(t, x) /\ t.mail_items[x] # None /\ t.mail_items[x].mail_id = m.id
      /\ t.character_inventory[x] = None /\ t.auction[x] = None
  BY <1>2 DEF In, Whole, OneHand
<1>4. /\ u.money = t.money /\ u.mail = t.mail /\ u.auction = t.auction
      /\ u.character_inventory = With(t.character_inventory, x, p)
      /\ u.item_instance = With(t.item_instance, x, x)
      /\ u.mail_items = With(t.mail_items, x, None)
  BY DEF TakenOut
<1>5. /\ u.character_inventory[x] = p /\ u.item_instance[x] = x /\ u.mail_items[x] = None
      /\ \A i \in Items : i # x => /\ u.character_inventory[i] = t.character_inventory[i]
                                   /\ u.item_instance[i] = t.item_instance[i]
                                   /\ u.mail_items[i] = t.mail_items[i]
  BY <1>4, AreTables, WithRows
<1>6. \A i \in Items : Exists(u, i) <=> Exists(t, i)
  BY <1>3, <1>5, RowIsSome DEF Exists
<1>7. OneHand(u, {})
  BY <1>3, <1>4, <1>5, <1>6 DEF Whole, OneHand
<1>8. Linked(u)
  BY <1>4, <1>5, <1>6 DEF Whole, Linked
<1>9. OneItem(u)
  <2>1. \A i \in Items : u.mail_items[i] # None => u.mail_items[i] = t.mail_items[i]
    BY <1>5
  <2>2. OneItem(t)
    BY DEF Whole
  <2> QED
    BY <2>1, <2>2, OneItemLeft
<1>10. Placed(u, lost)
  BY <1>4, <1>5, <1>6, RowIsSome DEF Whole, Placed
<1>11. ASSUME NEW q \in A PROVE B1[q] = LoadInventory(u, q)
  <2>1. \A j : j \in B[q] <=> j \in Items /\ t.character_inventory[j] = q /\ Exists(t, j)
    BY DEF Whole, Views, LoadInventory
  <2>2. \A j : j \in LoadInventory(u, q) <=>
               j \in Items /\ u.character_inventory[j] = q /\ Exists(u, j)
    BY DEF LoadInventory
  <2>3. CASE q = p
    <3>1. \A j : j \in B1[q] <=> j \in B[q] \/ j = x
      BY <2>3 DEF Receives
    <3>2. \A j : j \in B1[q] <=> j \in LoadInventory(u, q)
      BY <1>3, <1>5, <1>6, <2>1, <2>2, <2>3, <3>1
    <3> QED
      BY <3>2
  <2>4. CASE q # p
    <3>1. B1[q] = B[q] /\ q # None
      BY <2>4, RowIsSome DEF Receives
    <3>2. \A j : j \in B1[q] <=> j \in LoadInventory(u, q)
      BY <1>3, <1>5, <1>6, <2>1, <2>2, <2>4, <3>1
    <3> QED
      BY <3>2
  <2> QED
    BY <2>3, <2>4
<1>12. ASSUME NEW id \in MailIds, id # m.id PROVE MailedItem(u, id) = MailedItem(t, id)
  <2>1. \A i \in Items : In(t, i, id) <=> In(u, i, id)
    BY <1>3, <1>4, <1>5, <1>6, <1>12 DEF In
  <2> QED
    BY <2>1, MailedSame
<1>13. MailedItem(u, m.id) = None
  <2>1. ASSUME NEW i \in Items PROVE ~In(u, i, m.id)
    BY <1>3, <1>5 DEF In, Whole, OneItem
  <2> QED
    BY <2>1, Mailed
<1>14. ASSUME NEW q \in A, NEW m1 \in X1[q] PROVE CurrentMail(u, m1, q)
  <2>1. m1 \in X[q] /\ CurrentMail(t, m1, q) /\ m1.id \in MailIds
    BY BoxMails DEF Whole, Views, Without
  <2>2. m1.id # m.id
    <3>1. CASE q = p
      BY <3>1 DEF Whole, Views, Distinct, Without
    <3>2. CASE q # p
      BY <1>1, <2>1, <3>2 DEF CurrentMail, Row
    <3> QED
      BY <3>1, <3>2
  <2> QED
    BY <1>4, <1>12, <2>1, <2>2 DEF CurrentMail
<1>15. Views(u, B1, X1, A)
  <2>1. \A q \in A : X1[q] \subseteq X[q]
    BY DEF Without
  <2>2. \A q \in A : Distinct(X1[q])
    BY <2>1 DEF Whole, Views, Distinct
  <2> QED
    BY <1>11, <1>14, <2>2 DEF Views
<1>16. u \in Tables(kind, n)
  <2>1. u.character_inventory \in [Items -> Players \cup {None}]
    BY <1>4, Columns DEF With
  <2>2. u.item_instance \in [Items -> Items \cup {None}]
    BY <1>4, Columns DEF With
  <2>3. u.mail_items \in [Items -> Link \cup {None}]
    BY <1>4, Columns DEF With
  <2>4. \A i \in Items : u.mail_items[i] # None => u.mail_items[i].mail_id <= n
    BY <1>5, Columns
  <2>5. u = [money |-> u.money, character_inventory |-> u.character_inventory,
             item_instance |-> u.item_instance, mail |-> u.mail, auction |-> u.auction,
             mail_items |-> u.mail_items]
    BY DEF TakenOut
  <2> QED
    BY <1>4, <2>1, <2>2, <2>3, <2>4, <2>5, Columns DEF Tables
<1> QED
  BY <1>4, <1>7, <1>8, <1>9, <1>10, <1>12, <1>13, <1>15, <1>16 DEF Whole, OnlyMailLoses

\* Mail m of p and its link are deleted.
LEMMA WholeRemove ==
    ASSUME NEW kind, NEW n, NEW t \in Tables(kind, n), NEW u,
           NEW B, NEW X \in Boxes(kind, n), NEW A \in SUBSET Players, NEW lost,
           Whole(t, B, X, A, lost, {}),
           NEW p \in A, NEW m \in X[p],
           u.character_inventory = t.character_inventory, u.item_instance = t.item_instance,
           u.auction = t.auction, u.mail = With(t.mail, m.id, None),
           Cut(t, u, m.id), NEW X1, Without(X, X1, A, p, m),
           NEW lost1, lost1 = lost \cup {m.item}
    PROVE  /\ Whole(u, B, X1, A, lost1, {})
           /\ m.item \in Items => Loose(u, m.item, {})
<1>1. m.id \in MailIds /\ m.receiver = p /\ t.mail[m.id] = Row(m) /\ MailedItem(t, m.id) = m.item
  BY BoxMails DEF Whole, Views, CurrentMail
<1>2. /\ u.mail[m.id] = None
      /\ \A id \in MailIds : id # m.id => u.mail[id] = t.mail[id]
  BY <1>1, AreTables, WithRows
<1>3. \A i : Exists(u, i) <=> Exists(t, i)
  BY DEF Exists
<1>4. \A i \in Items : u.mail_items[i] # None => /\ u.mail_items[i] = t.mail_items[i]
                                                 /\ t.mail_items[i].mail_id # m.id
                                                 /\ t.mail_items[i].mail_id \in MailIds
  BY Columns DEF Link, Cut
<1>5. \A i \in Items : In(t, i, m.id) => i = m.item
  BY <1>1, Mailed DEF Whole
<1>6. m.item \in Items => /\ In(t, m.item, m.id)
                          /\ Exists(t, m.item) /\ t.mail_items[m.item] # None
                          /\ t.mail_items[m.item].mail_id = m.id
                          /\ t.character_inventory[m.item] = None /\ t.auction[m.item] = None
  BY <1>1, Mailed, RowIsSome DEF In, Whole, OneHand
<1>7. OneHand(u, {})
  BY <1>3, <1>4 DEF Whole, OneHand
<1>8. Linked(u)
  BY <1>2, <1>3, <1>4 DEF Whole, Linked
<1>9. OneItem(u)
  <2>1. OneItem(t)
    BY DEF Whole
  <2> QED
    BY <1>4, <2>1, OneItemLeft
<1>10. Placed(u, lost1)
  <2>1. \A i \in Items : Exists(t, i) /\ t.mail_items[i] # None /\ i # m.item
                           => u.mail_items[i] = t.mail_items[i]
    BY <1>5 DEF Whole, Linked, In, Cut
  <2> QED
    BY <1>3, <2>1 DEF Whole, Placed
<1>11. \A q : LoadInventory(u, q) = LoadInventory(t, q)
  BY <1>3 DEF LoadInventory
<1>12. ASSUME NEW id \in MailIds, id # m.id PROVE MailedItem(u, id) = MailedItem(t, id)
  <2>1. \A i \in Items : In(t, i, id) <=> In(u, i, id)
    BY <1>2, <1>3, <1>12 DEF In, Cut
  <2> QED
    BY <2>1, MailedSame
<1>13. ASSUME NEW q \in A, NEW m1 \in X1[q] PROVE CurrentMail(u, m1, q)
  <2>1. m1 \in X[q] /\ CurrentMail(t, m1, q) /\ m1.id \in MailIds
    BY BoxMails DEF Whole, Views, Without
  <2>2. m1.id # m.id
    <3>1. CASE q = p
      BY <3>1 DEF Whole, Views, Distinct, Without
    <3>2. CASE q # p
      BY <1>1, <2>1, <3>2 DEF CurrentMail, Row
    <3> QED
      BY <3>1, <3>2
  <2> QED
    BY <1>2, <1>12, <2>1, <2>2 DEF CurrentMail
<1>14. Views(u, B, X1, A)
  <2>1. \A q \in A : X1[q] \subseteq X[q]
    BY DEF Without
  <2>2. \A q \in A : Distinct(X1[q])
    BY <2>1 DEF Whole, Views, Distinct
  <2>3. \A q \in A : B[q] = LoadInventory(u, q)
    BY <1>11 DEF Whole, Views
  <2> QED
    BY <1>13, <2>2, <2>3 DEF Views
<1> QED
  BY <1>3, <1>6, <1>7, <1>8, <1>9, <1>10, <1>14 DEF Whole, Loose, Cut

\* The mails of p are swept: one is returned to s with its item, or deleted with it.
LEMMA WholeReturn ==
    ASSUME NEW kind, NEW n, NEW t \in Tables(kind, n), NEW u,
           NEW B, NEW X \in Boxes(kind, n), NEW A \in SUBSET Players, NEW lost,
           Whole(t, B, X, A, lost, {}),
           NEW id \in MailIds, t.mail[id] # None, t.mail[id].receiver \notin A,
           NEW i \in Items, t.mail_items[i] # None, t.mail_items[i].mail_id = id,
           NEW row \in MailRow, NEW link \in Link,
           link.mail_id = id, row.receiver = link.receiver,
           u.character_inventory = t.character_inventory, u.item_instance = t.item_instance,
           u.auction = t.auction, u.mail = With(t.mail, id, row),
           u.mail_items = With(t.mail_items, i, link)
    PROVE  Whole(u, B, X, A, lost, {})
<1>1. /\ u.mail[id] = row /\ row # None
      /\ \A k \in MailIds : k # id => u.mail[k] = t.mail[k]
  BY AreTables, WithRows, RowIsSome
<1>2. /\ u.mail_items[i] = link /\ link # None
      /\ \A j \in Items : j # i => u.mail_items[j] = t.mail_items[j]
  BY AreTables, WithRows, RowIsSome
<1>3. \A j : Exists(u, j) <=> Exists(t, j)
  BY DEF Exists
<1>4. \A j \in Items : j # i /\ t.mail_items[j] # None
                         => t.mail_items[j].mail_id # id /\ t.mail_items[j].mail_id \in MailIds
  BY Columns DEF Whole, OneItem, Link
<1>5. OneHand(u, {})
  BY <1>2, <1>3 DEF Whole, OneHand
<1>6. Linked(u)
  BY <1>1, <1>2, <1>3, <1>4 DEF Whole, Linked
<1>7. OneItem(u)
  <2> SUFFICES ASSUME NEW j1 \in Items, NEW j2 \in Items,
                      u.mail_items[j1] # None, u.mail_items[j2] # None,
                      u.mail_items[j1].mail_id = u.mail_items[j2].mail_id
               PROVE  j1 = j2
    BY DEF OneItem
  <2>1. /\ t.mail_items[j1] # None /\ u.mail_items[j1].mail_id = t.mail_items[j1].mail_id
        /\ t.mail_items[j2] # None /\ u.mail_items[j2].mail_id = t.mail_items[j2].mail_id
    BY <1>2
  <2> QED
    BY <2>1 DEF Whole, OneItem
<1>8. Placed(u, lost)
  BY <1>2, <1>3 DEF Whole, Placed
<1>9. \A q : LoadInventory(u, q) = LoadInventory(t, q)
  BY <1>3 DEF LoadInventory
<1>10. ASSUME NEW k \in MailIds, k # id PROVE MailedItem(u, k) = MailedItem(t, k)
  <2>1. \A j \in Items : In(t, j, k) <=> In(u, j, k)
    BY <1>1, <1>2, <1>3, <1>10 DEF In
  <2> QED
    BY <2>1, MailedSame
<1>11. ASSUME NEW q \in A, NEW m \in X[q] PROVE CurrentMail(u, m, q)
  <2>1. CurrentMail(t, m, q) /\ m.id \in MailIds
    BY BoxMails DEF Whole, Views
  <2>2. t.mail[m.id].receiver = q
    BY <2>1 DEF CurrentMail, Row
  <2>3. m.id # id
    BY <2>2
  <2> QED
    BY <1>1, <1>10, <2>1, <2>3 DEF CurrentMail
<1>12. Views(u, B, X, A)
  <2>1. \A q \in A : B[q] = LoadInventory(u, q) /\ Distinct(X[q])
    BY <1>9 DEF Whole, Views
  <2> QED
    BY <1>11, <2>1 DEF Views
<1> QED
  BY <1>5, <1>6, <1>7, <1>8, <1>12 DEF Whole

LEMMA WholeSwept ==
    ASSUME NEW kind, NEW n, NEW t \in Tables(kind, n), NEW u,
           NEW B, NEW X \in Boxes(kind, n), NEW A \in SUBSET Players, NEW lost,
           Whole(t, B, X, A, lost, {}),
           NEW id \in MailIds, t.mail[id] # None, t.mail[id].receiver \notin A,
           \A i \in Items : /\ t.mail_items[i] # None /\ t.mail_items[i].mail_id = id
                            => u.item_instance[i] = None,
           \A i \in Items : \/ t.mail_items[i] # None /\ t.mail_items[i].mail_id = id
                            \/ u.item_instance[i] = t.item_instance[i],
           u.character_inventory = t.character_inventory,
           u.auction = t.auction, u.mail = With(t.mail, id, None),
           u.mail_items = t.mail_items
    PROVE  Whole(u, B, X, A, lost, {})
<1> DEFINE Gone(i) == t.mail_items[i] # None /\ t.mail_items[i].mail_id = id
<1>1. /\ u.mail[id] = None
      /\ \A k \in MailIds : k # id => u.mail[k] = t.mail[k]
  BY AreTables, WithRows
<1>2. \A i \in Items : Exists(u, i) <=> Exists(t, i) /\ ~Gone(i)
  BY DEF Exists
<1>3. \A i \in Items : t.mail_items[i] # None => t.mail_items[i].mail_id \in MailIds
  BY Columns DEF Link
<1>4. \A i \in Items : Gone(i) => t.mail_items[i] # None
  OBVIOUS
<1>5. OneHand(u, {})
  BY <1>2 DEF Whole, OneHand
<1>6. Linked(u)
  BY <1>1, <1>2, <1>3 DEF Whole, Linked
<1>7. OneItem(u)
  BY DEF Whole, OneItem
<1>8. \A i \in Items : Gone(i) => t.auction[i] = None
  BY DEF Whole, OneHand, Placed
<1>9. Placed(u, lost)
  BY <1>2, <1>8 DEF Whole, Placed
<1>10. \A q \in Players : LoadInventory(u, q) = LoadInventory(t, q)
  <2>1. \A i \in Items : Exists(t, i) /\ Gone(i) => t.character_inventory[i] = None
    BY DEF Whole, OneHand
  <2> QED
    BY <1>2, <2>1, RowIsSome DEF LoadInventory
<1>11. ASSUME NEW k \in MailIds, k # id PROVE MailedItem(u, k) = MailedItem(t, k)
  <2>1. \A j \in Items : In(t, j, k) <=> In(u, j, k)
    BY <1>1, <1>2, <1>11 DEF In
  <2> QED
    BY <2>1, MailedSame
<1>12. ASSUME NEW q \in A, NEW m \in X[q] PROVE CurrentMail(u, m, q)
  <2>1. CurrentMail(t, m, q) /\ m.id \in MailIds
    BY BoxMails DEF Whole, Views
  <2>2. t.mail[m.id].receiver = q
    BY <2>1 DEF CurrentMail, Row
  <2>3. m.id # id
    BY <2>2
  <2> QED
    BY <1>1, <1>11, <2>1, <2>3 DEF CurrentMail
<1>13. Views(u, B, X, A)
  <2>1. \A q \in A : B[q] = LoadInventory(u, q) /\ Distinct(X[q])
    BY <1>10 DEF Whole, Views
  <2> QED
    BY <1>12, <2>1 DEF Views
<1> QED
  BY <1>5, <1>6, <1>7, <1>9, <1>13 DEF Whole

\* The mails a login loads.
LEMMA LoadedMails ==
    ASSUME NEW kind, NEW n, NEW t \in Tables(kind, n), NEW p \in Players,
           NEW m \in LoadMails(t, p)
    PROVE  /\ m \in Mails(kind, n) /\ CurrentMail(t, m, p) /\ m = LoadMail(t, m.id)
<1>1. PICK id \in MailIds : t.mail[id] # None /\ t.mail[id].receiver = p /\ m = LoadMail(t, id)
  BY DEF LoadMails
<1>2. t.mail[id] \in Rows(kind[id]) /\ id <= n
  BY <1>1, Columns
<1>3. MailedItem(t, id) \in Items \cup {None}
  BY Mailed
<1> DEFINE item == MailedItem(t, id)
           row == t.mail[id]
<1> HIDE DEF item, row
<1>4. m = [id |-> id, messageType |-> row.messageType, sender |-> row.sender,
           receiver |-> row.receiver, money |-> row.money, cod |-> row.cod,
           returned |-> row.returned, item |-> item, state |-> "unchanged"]
  BY <1>1 DEF LoadMail, item, row
<1>5. row \in Rows(kind[id]) /\ row.receiver = p /\ item \in Items \cup {None}
  BY <1>1, <1>2, <1>3 DEF item, row
<1>6. Row(m) = row
  BY <1>4, <1>5 DEF Row, Rows, MailRow
<1>7. m \in Mails(kind, n)
  BY <1>2, <1>4, <1>5, <1>6 DEF Mails, Rows, MailRow
<1>8. m.id = id /\ m.item = item /\ m.receiver = p
  BY <1>4, <1>5
<1>9. CurrentMail(t, m, p)
  BY <1>6, <1>8 DEF CurrentMail, item, row
<1> QED
  BY <1>1, <1>7, <1>8, <1>9

LEMMA WholeLogin ==
    ASSUME NEW kind, NEW n, NEW t \in Tables(kind, n),
           NEW B, NEW X, NEW A, NEW lost, NEW C, Whole(t, B, X, A, lost, C),
           NEW p \in Players, NEW B1, NEW X1,
           B1[p] = LoadInventory(t, p), X1[p] = LoadMails(t, p),
           \A q \in A : q # p => B1[q] = B[q] /\ X1[q] = X[q]
    PROVE  Whole(t, B1, X1, A \cup {p}, lost, C)
<1>1. \A m \in X1[p] : CurrentMail(t, m, p)
  BY LoadedMails
<1>2. Distinct(X1[p])
  BY LoadedMails DEF Distinct
<1>3. Views(t, B1, X1, A \cup {p})
  BY <1>1, <1>2 DEF Whole, Views
<1> QED
  BY <1>3 DEF Whole
-----------------------------------------------------------------------------
\* A handler queues its requests one after the other.

\* The items whose auctions requests after the first n delete.
Deleted(q, n) == {i \in Items : \E k \in (n + 1)..Len(q) : Delete("auction", i) \in q[k].body}

Ends(r) == {i \in Items : Delete("auction", i) \in r.body}

\* How far a handler is that began on tables s: it has queued w.done, which lead to the tables w.cs
\* and last to w.s; the purses, inventories and mails of the characters are now w.gold, w.bags and
\* w.mails.  Those of A have what the tables say, and while ok holds the items are where they
\* should be, but that w.lost are nowhere and w.open may be in a mail and still on sale.
Stage(s, w, K, A, ok) ==
    /\ IsSeq(w.done) /\ w.n \in Nat
    /\ \A k \in 1..Len(w.done) : SoundRequest(w.done[k], K, w.n) /\ w.done[k].player = None
    /\ Passes(w.cs, s, w.done)
    /\ \A k \in 0..Len(w.done) : w.cs[k] \in Tables(K, w.n)
    /\ w.cs[Len(w.done)] = w.s
    /\ w.gold \in [Players -> Nat] /\ w.bags \in [Players -> SUBSET Items]
    /\ w.mails \in Boxes(K, w.n)
    /\ \A p \in A : w.gold[p] = w.s.money[p]
    /\ ok => /\ Whole(w.s, w.bags, w.mails, A, w.lost, w.open)
             /\ \A k \in 0..Len(w.done) : OneHand(w.cs[k], Deleted(w.done, k) \cup w.open)

\* What is sound stays so when more mails are sent.
LEMMA SoundLonger ==
    ASSUME NEW K, NEW n \in Nat, NEW n1 \in Nat, n <= n1
    PROVE  /\ \A r : SoundRequest(r, K, n) => SoundRequest(r, K, n1)
           /\ Tables(K, n) \subseteq Tables(K, n1)
           /\ Mails(K, n) \subseteq Mails(K, n1)
           /\ Boxes(K, n) \subseteq Boxes(K, n1)
<1>1. ASSUME NEW st, Sound(st, K, n) PROVE Sound(st, K, n1)
  <2>1. CASE st[1] = "mail"
    <3>1. CASE st[3] = "put"
      <4>1. st[2] \in 1..n /\ st[2] \in 1..n1 /\ st[4] \in Rows(K[st[2]])
        BY <1>1, <2>1, <3>1 DEF Sound
      <4> QED
        BY <1>1, <2>1, <3>1, <4>1 DEF Sound
    <3>2. CASE st[3] # "put"
      BY <1>1, <2>1, <3>2 DEF Sound
    <3> QED
      BY <3>1, <3>2
  <2>2. CASE st[1] # "mail"
    BY <1>1, <2>2 DEF Sound, Link, MailIds
  <2> QED
    BY <2>1, <2>2
<1>2. \A r : SoundRequest(r, K, n) => SoundRequest(r, K, n1)
  BY <1>1 DEF SoundRequest
<1>3. Tables(K, n) \subseteq Tables(K, n1)
  BY DEF Tables, Link, MailIds
<1>4. Mails(K, n) \subseteq Mails(K, n1)
  BY DEF Mails, MailIds
<1>5. Boxes(K, n) \subseteq Boxes(K, n1)
  BY <1>4 DEF Boxes
<1> QED
  BY <1>2, <1>3, <1>4, <1>5

\* Requests lead to one sequence of tables.
LEMMA PassesUnique ==
    ASSUME NEW t, NEW reqs, Len(reqs) \in Nat, NEW c, NEW e, Passes(c, t, reqs), Passes(e, t, reqs)
    PROVE  \A k \in 0..Len(reqs) : c[k] = e[k]
<1> DEFINE N == Len(reqs)
           S == {k \in 0..N : c[k] = e[k]}
<1>1. 0 \in S
  BY DEF Passes
<1>2. \A k \in 1..N : k - 1 \in S => k \in S
  BY DEF Passes
<1> HIDE DEF S
<1>3. 0..N \subseteq S
  BY <1>1, <1>2, BoundedInduction
<1> QED
  BY <1>3 DEF S

LEMMA OneRequest ==
    ASSUME NEW q, IsSeq(q), NEW r
    PROVE  /\ IsSeq(q \o <<r>>) /\ Len(q) \in Nat /\ Len(q \o <<r>>) = Len(q) + 1
           /\ \A k \in 1..Len(q) : (q \o <<r>>)[k] = q[k]
           /\ (q \o <<r>>)[Len(q) + 1] = r
<1>1. <<r>> \in Seq({r})
  OBVIOUS
<1>2. IsSeq(<<r>>) /\ Len(<<r>>) = 1 /\ <<r>>[1] = r
  BY <1>1 DEF IsSeq
<1>3. \A k \in 1..Len(<<r>>) : (q \o <<r>>)[Len(q) + k] = <<r>>[k]
  BY <1>2, Appended
<1>4. (q \o <<r>>)[Len(q) + 1] = r
  BY <1>2, <1>3
<1> QED
  BY <1>2, <1>4, Appended

\* The items whose auctions end, with one more request or more of them.
LEMMA DeletedMore ==
    ASSUME NEW q, NEW reqs, IsSeq(q), IsSeq(reqs)
    PROVE  /\ \A k \in 0..Len(q) : Deleted(q, k) \subseteq Deleted(q \o reqs, k)
           /\ \A k \in 0..Len(reqs) : Deleted(reqs, k) \subseteq Deleted(q \o reqs, Len(q) + k)
<1>1. /\ Len(q) \in Nat /\ Len(reqs) \in Nat /\ Len(q \o reqs) = Len(q) + Len(reqs)
      /\ \A k \in 1..Len(q) : (q \o reqs)[k] = q[k]
      /\ \A k \in 1..Len(reqs) : (q \o reqs)[Len(q) + k] = reqs[k]
  BY Appended
<1>2. ASSUME NEW k \in 0..Len(q), NEW i \in Deleted(q, k) PROVE i \in Deleted(q \o reqs, k)
  <2>1. PICK j \in (k + 1)..Len(q) : Delete("auction", i) \in q[j].body
    BY DEF Deleted
  <2>2. j \in (k + 1)..Len(q \o reqs) /\ (q \o reqs)[j] = q[j]
    BY <1>1
  <2> QED
    BY <2>1, <2>2 DEF Deleted
<1>3. ASSUME NEW k \in 0..Len(reqs), NEW i \in Deleted(reqs, k)
      PROVE  i \in Deleted(q \o reqs, Len(q) + k)
  <2>1. PICK j \in (k + 1)..Len(reqs) : Delete("auction", i) \in reqs[j].body
    BY DEF Deleted
  <2>2. Len(q) + j \in (Len(q) + k + 1)..Len(q \o reqs) /\ (q \o reqs)[Len(q) + j] = reqs[j]
    BY <1>1
  <2> QED
    BY <2>1, <2>2 DEF Deleted
<1> QED
  BY <1>2, <1>3

LEMMA DeletedNext ==
    ASSUME NEW q, IsSeq(q), NEW r
    PROVE  \A k \in 0..Len(q) : Ends(r) \subseteq Deleted(q \o <<r>>, k)
<1>1. Len(q) \in Nat /\ Len(q \o <<r>>) = Len(q) + 1 /\ (q \o <<r>>)[Len(q) + 1] = r
  BY OneRequest
<1>2. \A k \in 0..Len(q) : Len(q) + 1 \in (k + 1)..Len(q \o <<r>>)
  BY <1>1
<1> QED
  BY <1>1, <1>2 DEF Ends, Deleted

\* More items may be in two places.
LEMMA OneHandLess ==
    ASSUME NEW t, NEW C, NEW C1, OneHand(t, C), C \cap Items \subseteq C1 PROVE OneHand(t, C1)
BY DEF OneHand

\* What else there is to w.
Holds(w, n, s, G, B, X, lost, open) ==
    /\ w.n = n /\ w.s = s /\ w.gold = G /\ w.bags = B /\ w.mails = X
    /\ w.lost = lost /\ w.open = open

Starting(w) == w.done = <<>>

\* w1 is w after one more request.
Queued(w, w1, r) == w1.done = w.done \o <<r>>

\* A handler begins.
LEMMA Begins ==
    ASSUME NEW K, NEW n \in Nat, NEW s \in Tables(K, n), NEW G, NEW B, NEW X, NEW A, NEW ok,
           G \in [Players -> Nat], B \in [Players -> SUBSET Items], X \in Boxes(K, n),
           \A p \in A : G[p] = s.money[p], NEW lost, NEW open,
           ok => Whole(s, B, X, A, lost, {})
    PROVE  \E w : /\ Stage(s, w, K, A, ok)
                  /\ Starting(w) /\ Holds(w, n, s, G, B, X, lost, open)
<1> DEFINE w == [cs |-> [k \in 0..0 |-> s], done |-> <<>>, n |-> n, s |-> s, gold |-> G, bags |-> B,
                 mails |-> X, lost |-> lost, open |-> open]
<1>1. /\ w.cs = [k \in 0..0 |-> s] /\ w.done = <<>> /\ w.n = n /\ w.s = s /\ w.gold = G /\ w.bags = B
      /\ w.mails = X /\ w.lost = lost /\ w.open = open
  OBVIOUS
<1> HIDE DEF w
<1>2. w.cs[0] = s /\ Len(w.done) = 0 /\ 0..Len(w.done) = {0}
  BY <1>1
<1>3. IsSeq(w.done)
  <2>1. <<>> \in Seq({})
    OBVIOUS
  <2> QED
    BY <1>1, <2>1 DEF IsSeq
<1>4. Passes(w.cs, s, w.done)
  BY <1>2 DEF Passes
<1>5. ok => /\ Whole(w.s, w.bags, w.mails, A, w.lost, w.open)
            /\ \A k \in 0..Len(w.done) : OneHand(w.cs[k], Deleted(w.done, k) \cup w.open)
  <2>1. OneHand(s, {}) => OneHand(s, open) /\ OneHand(s, Deleted(w.done, 0) \cup open)
    BY OneHandLess
  <2> QED
    BY <1>1, <1>2, <2>1 DEF Whole
<1>6. Stage(s, w, K, A, ok)
  BY <1>1, <1>2, <1>3, <1>4, <1>5 DEF Stage
<1> QED
  BY <1>1, <1>6 DEF Starting, Holds

\* The purses of A are what the tables say.
Owns(G, A, t) == \A q \in A : G[q] = t.money[q]

\* While ok the tables after r are whole, and only an auction that r ends is closed.
Suits(w, r, u, B, X, A, lost, open, ok) ==
    ok => Whole(u, B, X, A, lost, open) /\ w.open \cap Items \subseteq open \cup Ends(r)

\* A handler queues request r.
LEMMA Queues ==
    ASSUME NEW K, NEW s, NEW A, NEW ok, NEW w, Stage(s, w, K, A, ok),
           NEW n1 \in Nat, w.n <= n1, NEW r, SoundRequest(r, K, n1), r.player = None,
           NEW u, u = Committed(w.s, r),
           NEW G, NEW B, NEW X, NEW lost, NEW open,
           G \in [Players -> Nat], B \in [Players -> SUBSET Items], X \in Boxes(K, n1),
           Owns(G, A, u), Suits(w, r, u, B, X, A, lost, open, ok)
    PROVE  \E w1 : /\ Stage(s, w1, K, A, ok)
                   /\ Queued(w, w1, r) /\ Holds(w1, n1, u, G, B, X, lost, open)
<1> DEFINE N == Len(w.done)
           step == [k \in 0..1 |-> IF k = 0 THEN w.s ELSE u]
           cs == Joined(w.cs, N, step, 1)
           w1 == [cs |-> cs, done |-> w.done \o <<r>>, n |-> n1, s |-> u, gold |-> G, bags |-> B,
                  mails |-> X, lost |-> lost, open |-> open]
<1>0. ok => Whole(u, B, X, A, lost, open) /\ w.open \cap Items \subseteq open \cup Ends(r)
  BY DEF Suits
<1>1. /\ w1.cs = cs /\ w1.done = w.done \o <<r>> /\ w1.n = n1 /\ w1.s = u /\ w1.gold = G /\ w1.bags = B
      /\ w1.mails = X /\ w1.lost = lost /\ w1.open = open
  OBVIOUS
<1> HIDE DEF w1
<1>2. /\ IsSeq(w.done) /\ w.n \in Nat
      /\ \A k \in 1..N : SoundRequest(w.done[k], K, w.n) /\ w.done[k].player = None
      /\ Passes(w.cs, s, w.done)
      /\ \A k \in 0..N : w.cs[k] \in Tables(K, w.n)
      /\ w.cs[N] = w.s
  BY DEF Stage
<1>3. /\ IsSeq(w.done \o <<r>>) /\ N \in Nat /\ Len(w.done \o <<r>>) = N + 1
      /\ \A k \in 1..N : (w.done \o <<r>>)[k] = w.done[k]
      /\ (w.done \o <<r>>)[N + 1] = r
  BY <1>2, OneRequest
<1>4. IsSeq(<<r>>) /\ Len(<<r>>) = 1 /\ <<r>>[1] = r
  <2>1. <<r>> \in Seq({r})
    OBVIOUS
  <2> QED
    BY <2>1 DEF IsSeq
<1>5. step[0] = w.s /\ step[1] = u
  OBVIOUS
<1>6. Passes(step, w.cs[N], <<r>>)
  <2>1. \A k \in 1..1 : k = 1 /\ k - 1 = 0
    OBVIOUS
  <2> QED
    BY <1>2, <1>4, <1>5, <2>1 DEF Passes
<1>7. /\ Passes(cs, s, w.done \o <<r>>)
      /\ \A k \in 0..N : cs[k] = w.cs[k]
      /\ cs[N + 1] = u
  <2> DEFINE es == cs
  <2>1. es = Joined(w.cs, Len(w.done), step, Len(<<r>>))
    BY <1>4
  <2> HIDE DEF step, es
  <2>2. /\ Passes(es, s, w.done \o <<r>>)
        /\ \A k \in 0..N : es[k] = w.cs[k]
        /\ \A k \in 0..Len(<<r>>) : es[N + k] = step[k]
    <3> DEFINE q == w.done
               ds == w.cs
               reqs == <<r>>
    <3>1. /\ IsSeq(q) /\ IsSeq(reqs) /\ Passes(ds, s, q) /\ Passes(step, ds[Len(q)], reqs)
          /\ es = Joined(ds, Len(q), step, Len(reqs))
      BY <1>2, <1>4, <1>6, <2>1
    <3> HIDE DEF q, ds, reqs
    <3>2. Passes(es, s, q \o reqs)
      BY <3>1, PassesOn
    <3>3. Spans(es, ds, Len(q), step, Len(reqs))
      BY <3>1, PassesOn
    <3> QED
      BY <3>2, <3>3 DEF q, ds, reqs, Spans
  <2>3. es[N + 1] = u
    BY <1>4, <1>5, <2>2
  <2> QED
    BY <2>2, <2>3 DEF es
<1> HIDE DEF cs, step
<1>8. \A k \in 1..(N + 1) : SoundRequest(w1.done[k], K, n1) /\ w1.done[k].player = None
  <2>1. \A k \in 1..N : SoundRequest(w.done[k], K, n1)
    BY <1>2, SoundLonger
  <2>2. \A k \in 1..(N + 1) : k \in 1..N \/ k = N + 1
    BY <1>3
  <2> QED
    BY <1>1, <1>2, <1>3, <2>1, <2>2
<1>9. u \in Tables(K, n1)
  <2>1. w.s \in Tables(K, n1)
    BY <1>2, <1>3, SoundLonger
  <2> QED
    BY <2>1, SoundCommitted
<1>10. \A k \in 0..(N + 1) : w1.cs[k] \in Tables(K, n1)
  <2>1. \A k \in 0..(N + 1) : k \in 0..N \/ k = N + 1
    BY <1>3
  <2>2. \A k \in 0..N : w.cs[k] \in Tables(K, n1)
    BY <1>2, SoundLonger
  <2> QED
    BY <1>1, <1>7, <1>9, <2>1, <2>2
<1>11. ASSUME ok
       PROVE  \A k \in 0..(N + 1) : OneHand(w1.cs[k], Deleted(w1.done, k) \cup open)
  <2>1. \A k \in 0..N : OneHand(w.cs[k], Deleted(w.done, k) \cup w.open)
    BY <1>11 DEF Stage
  <2>2. \A k \in 0..N : Deleted(w.done, k) \subseteq Deleted(w1.done, k)
    BY <1>1, <1>2, <1>4, DeletedMore
  <2>3. \A k \in 0..N : Ends(r) \subseteq Deleted(w1.done, k)
    BY <1>1, <1>2, DeletedNext
  <2>4. \A k \in 0..N : (Deleted(w.done, k) \cup w.open) \cap Items
                            \subseteq Deleted(w1.done, k) \cup open
    BY <1>0, <1>11, <2>2, <2>3
  <2>5. ASSUME NEW k \in 0..N PROVE OneHand(w1.cs[k], Deleted(w1.done, k) \cup open)
    <3> DEFINE C == Deleted(w.done, k) \cup w.open
               C1 == Deleted(w1.done, k) \cup open
               t == w.cs[k]
    <3>1. OneHand(t, C) /\ C \cap Items \subseteq C1 /\ w1.cs[k] = t
      BY <1>1, <1>7, <2>1, <2>4
    <3> HIDE DEF C, C1, t
    <3>2. OneHand(t, C1)
      BY <3>1, OneHandLess
    <3> QED
      BY <3>1, <3>2 DEF C1
  <2>6. OneHand(w1.cs[N + 1], Deleted(w1.done, N + 1) \cup open)
    BY <1>0, <1>1, <1>7, <1>11, OneHandLess DEF Whole
  <2>7. \A k \in 0..(N + 1) : k \in 0..N \/ k = N + 1
    BY <1>3
  <2> QED
    BY <2>5, <2>6, <2>7
<1>12. Stage(s, w1, K, A, ok)
  BY <1>0, <1>1, <1>3, <1>7, <1>8, <1>10, <1>11 DEF Stage, Owns
<1> QED
  BY <1>1, <1>12 DEF Queued, Holds
-----------------------------------------------------------------------------
\* The invariant.

\* The queue q leads from the tables d through ds to the tables s.
Backlog(ds, K, n, d, q, s) ==
    /\ IsSeq(q)
    /\ \A k \in 1..Len(q) : q[k].player \in Players \cup {None}
    /\ Passes(ds, d, q)
    /\ \A k \in 0..Len(q) : ds[k] \in Tables(K, n)
    /\ ds[Len(q)] = s

View(G, B, X, p) == [gold |-> G[p], bags |-> B[p], mails |-> X[p]]

\* What the characters have in memory, or will have once what their login loads is there: the
\* purses G, the inventories B and the mails X.
Seen(ds, K, n, G, B, X, q, ph, ld, g, b, x) ==
    /\ G \in [Players -> Nat] /\ B \in [Players -> SUBSET Items] /\ X \in Boxes(K, n)
    /\ \A p \in Players :
          /\ ph[p] = "online" => G[p] = g[p] /\ B[p] = b[p] /\ X[p] = x[p]
          /\ ld[p] # None => ph[p] = "loading" /\ ld[p] = View(G, B, X, p)
          /\ \A k \in 1..Len(q) : q[k].player = p =>
                /\ ph[p] = "loading" /\ ld[p] = None
                /\ Load(ds[k - 1], p) = View(G, B, X, p)
                /\ \A j \in 1..Len(q) : q[j].player = p => j = k

Active(ph) == {p \in Players : ph[p] # "offline"}

\* The purses are what the tables s say, and while no mail was swept under its receiver's hands the
\* items are where they should be, on all the tables.
Sane(ds, G, B, X, q, s, A, thr, sw) ==
    /\ \A p \in A : G[p] = s.money[p]
    /\ ~sw => /\ Whole(s, B, X, A, thr, {})
              /\ \A k \in 0..Len(q) : OneHand(ds[k], Deleted(q, k))

Typed(K) ==
    /\ phase \in [Players -> {"offline", "loading", "online"}]
    /\ IsTable(loaded, Players)
    /\ gold \in [Players -> Nat] /\ bags \in [Players -> SUBSET Items]
    /\ mails \in Boxes(K, lastMail)
    /\ dirty \in [Players -> BOOLEAN] /\ swept \in BOOLEAN
    /\ lastMail \in 0..MaxMails /\ K \in Kinds
    /\ house = settled.auction

IInv ==
    \E ds, K, G, B, X :
        /\ Typed(K)
        /\ Backlog(ds, K, lastMail, db, queue, settled)
        /\ Seen(ds, K, lastMail, G, B, X, queue, phase, loaded, gold, bags, mails)
        /\ Sane(ds, G, B, X, queue, settled, Active(phase), thrown, swept)

\* The types of the mails sent so far are the same in K1.
Agree(K, n, K1) == \A id \in MailIds : id <= n => K1[id] = K[id]

LEMMA AgreeTypes ==
    ASSUME NEW K, NEW n, NEW K1, Agree(K, n, K1)
    PROVE  /\ Tables(K, n) \subseteq Tables(K1, n)
           /\ Mails(K, n) \subseteq Mails(K1, n)
           /\ Boxes(K, n) \subseteq Boxes(K1, n)
<1>1. Tables(K, n) \subseteq Tables(K1, n)
  BY DEF Tables, Agree
<1>2. Mails(K, n) \subseteq Mails(K1, n)
  BY DEF Mails, Agree
<1>3. Boxes(K, n) \subseteq Boxes(K1, n)
  BY <1>2 DEF Boxes
<1> QED
  BY <1>1, <1>2, <1>3

\* While ok no item is in two hands on the tables ds that the queue q leads through.
Hands(ds, q, ok) == ok => \A k \in 0..Len(q) : OneHand(ds[k], Deleted(q, k))

\* While ok no item is on sale and in a mail.
Shut(w, ok) == ok => w.open = {}

\* What w queued leads on from the tables of the queue.
LeadsOn(es, ds, d, q, s, K1, w, ok) ==
    /\ w.s = Settled(s, w.done)
    /\ Backlog(es, K1, w.n, d, q \o w.done, w.s)
    /\ \A k \in 0..Len(q) : es[k] = ds[k]
    /\ Hands(es, q \o w.done, ok)

\* A handler is done.
LEMMA Returns ==
    ASSUME NEW K, NEW n \in Nat, NEW ds, NEW d, NEW q, NEW s, Backlog(ds, K, n, d, q, s),
           NEW K1, Agree(K, n, K1), NEW A, NEW ok, NEW w, Stage(s, w, K1, A, ok), n <= w.n,
           Shut(w, ok), Hands(ds, q, ok)
    PROVE  \E es : LeadsOn(es, ds, d, q, s, K1, w, ok)
<1> DEFINE N == Len(q)
           reqs == w.done
           cs == w.cs
           n1 == w.n
           u == w.s
           open == w.open
<1>1. /\ IsSeq(reqs) /\ n1 \in Nat
      /\ \A k \in 1..Len(reqs) : SoundRequest(reqs[k], K1, n1) /\ reqs[k].player = None
      /\ Passes(cs, s, reqs)
      /\ \A k \in 0..Len(reqs) : cs[k] \in Tables(K1, n1)
      /\ cs[Len(reqs)] = u
      /\ ok => \A k \in 0..Len(reqs) : OneHand(cs[k], Deleted(reqs, k) \cup open)
  BY DEF Stage
<1>2. n <= n1 /\ (ok => open = {})
  BY DEF Shut
<1> HIDE DEF reqs, cs, n1, u, open
<1>3. /\ IsSeq(q) /\ Passes(ds, d, q) /\ ds[N] = s
      /\ \A k \in 1..N : q[k].player \in Players \cup {None}
      /\ \A k \in 0..N : ds[k] \in Tables(K, n)
  BY DEF Backlog
<1>4. /\ IsSeq(q \o reqs) /\ N \in Nat /\ Len(reqs) \in Nat /\ Len(q \o reqs) = N + Len(reqs)
      /\ \A k \in 1..N : (q \o reqs)[k] = q[k]
      /\ \A k \in 1..Len(reqs) : (q \o reqs)[N + k] = reqs[k]
  BY <1>1, <1>3, Appended
<1>5. Tables(K, n) \subseteq Tables(K1, n1)
  BY <1>1, <1>2, AgreeTypes, SoundLonger
<1>6. s \in Tables(K1, n1)
  BY <1>3, <1>4, <1>5
<1>7. u = Settled(s, reqs)
  <2> DEFINE e == Course(s, reqs)
  <2>1. Passes(e, s, reqs)
    BY <1>1, <1>4, <1>6, CourseFollows
  <2> HIDE DEF e
  <2>2. \A k \in 0..Len(reqs) : cs[k] = e[k]
    BY <1>1, <1>4, <2>1, PassesUnique
  <2> QED
    BY <1>1, <1>4, <2>2 DEF Settled, e
<1>8. PICK es : es = Joined(ds, N, cs, Len(reqs))
  OBVIOUS
<1>9. Passes(es, d, q \o reqs) /\ Spans(es, ds, N, cs, Len(reqs))
  BY <1>1, <1>3, <1>8, PassesOn
<1>10. /\ \A k \in 0..N : es[k] = ds[k]
       /\ \A k \in 0..Len(reqs) : es[N + k] = cs[k]
  BY <1>9 DEF Spans
<1> HIDE DEF N
<1>11. \A k \in 0..(N + Len(reqs)) :
           k \in 0..N \/ \E j \in 0..Len(reqs) : k = N + j
  <2> SUFFICES ASSUME NEW k \in 0..(N + Len(reqs)), k \notin 0..N
               PROVE  \E j \in 0..Len(reqs) : k = N + j
    OBVIOUS
  <2>1. k - N \in 0..Len(reqs) /\ k = N + (k - N)
    BY <1>4
  <2> QED
    BY <2>1
<1>12. \A k \in 0..(N + Len(reqs)) : es[k] \in Tables(K1, n1)
  BY <1>1, <1>3, <1>5, <1>10, <1>11
<1>13. \A k \in 1..(N + Len(reqs)) : (q \o reqs)[k].player \in Players \cup {None}
  <2> SUFFICES ASSUME NEW k \in 1..(N + Len(reqs)), k \notin 1..N
               PROVE  (q \o reqs)[k].player = None
    BY <1>3, <1>4
  <2>1. k - N \in 1..Len(reqs) /\ k = N + (k - N)
    BY <1>4
  <2> QED
    BY <1>1, <1>4, <2>1
<1>14. es[N + Len(reqs)] = u
  BY <1>1, <1>4, <1>10
<1>15. Backlog(es, K1, n1, d, q \o reqs, u)
  BY <1>4, <1>9, <1>12, <1>13, <1>14 DEF Backlog
<1>16. ASSUME ok, NEW k \in 0..(N + Len(reqs)) PROVE OneHand(es[k], Deleted(q \o reqs, k))
  <2>1. CASE k \in 0..N
    <3>1. OneHand(ds[k], Deleted(q, k))
      BY <1>16, <2>1 DEF N, Hands
    <3>2. Deleted(q, k) \subseteq Deleted(q \o reqs, k)
      BY <1>1, <1>3, <2>1, DeletedMore DEF N
    <3> QED
      BY <1>10, <2>1, <3>1, <3>2, OneHandLess
  <2>2. CASE k \notin 0..N
    <3>1. PICK j \in 0..Len(reqs) : k = N + j
      BY <1>11, <2>2
    <3>2. OneHand(cs[j], Deleted(reqs, j))
      BY <1>1, <1>2, <1>16, OneHandLess
    <3>3. Deleted(reqs, j) \subseteq Deleted(q \o reqs, N + j)
      BY <1>1, <1>3, DeletedMore DEF N
    <3> QED
      BY <1>10, <3>1, <3>2, <3>3, OneHandLess
  <2> QED
    BY <2>1, <2>2
<1>17. \A k \in 0..Len(q) : es[k] = ds[k]
  BY <1>10 DEF N
<1>18. \A k \in 0..Len(q \o reqs) : k \in 0..(N + Len(reqs))
  BY <1>4
<1> QED
  BY <1>7, <1>15, <1>16, <1>17, <1>18 DEF reqs, n1, u, Hands, LeadsOn

LEMMA LostMore ==
    ASSUME NEW t, NEW B, NEW X, NEW A, NEW lost, NEW C, Whole(t, B, X, A, lost, C),
           NEW A1, A1 \subseteq A, NEW lost1, lost \subseteq lost1
    PROVE  Whole(t, B, X, A1, lost1, C)
<1>1. Whole(t, B, X, A1, lost, C)
  BY WholeLess
<1>2. Placed(t, lost1)
  BY DEF Whole, Placed
<1> QED
  BY <1>1, <1>2 DEF Whole

\* Characters who are not online, and only those online leave.
Leaves(ph, ph1) == \A p \in Players : ph1[p] = ph[p] \/ (ph[p] = "online" /\ ph1[p] = "offline")

\* What w holds for the characters who stay online is in memory, and is G, B and X for the others.
Agrees(w, G, B, X, ph, ph1, g, b, x) ==
    \A p \in Players :
        /\ ph1[p] = "online" => w.gold[p] = g[p] /\ w.bags[p] = b[p] /\ w.mails[p] = x[p]
        /\ ph[p] # "online" => w.gold[p] = G[p] /\ w.bags[p] = B[p] /\ w.mails[p] = X[p]

\* The loads that are queued or done stay as they are.
LEMMA SeenOn ==
    ASSUME NEW ds, NEW K, NEW n, NEW G, NEW B, NEW X, NEW q, NEW ph, NEW ld, NEW g, NEW b, NEW x,
           Seen(ds, K, n, G, B, X, q, ph, ld, g, b, x), IsSeq(q),
           NEW w, NEW K1, IsSeq(w.done), \A k \in 1..Len(w.done) : w.done[k].player = None,
           w.gold \in [Players -> Nat], w.bags \in [Players -> SUBSET Items],
           w.mails \in Boxes(K1, w.n),
           NEW es, \A k \in 0..Len(q) : es[k] = ds[k],
           NEW ph1, Leaves(ph, ph1),
           NEW g1, NEW b1, NEW x1, Agrees(w, G, B, X, ph, ph1, g1, b1, x1)
    PROVE  Seen(es, K1, w.n, w.gold, w.bags, w.mails, q \o w.done, ph1, ld, g1, b1, x1)
<1> DEFINE N == Len(q)
           reqs == w.done
           all == q \o reqs
<1>1. /\ N \in Nat /\ Len(reqs) \in Nat /\ Len(all) = N + Len(reqs)
      /\ \A k \in 1..N : all[k] = q[k]
      /\ \A k \in 1..Len(reqs) : all[N + k] = reqs[k]
  BY Appended
<1>2. \A k \in 1..Len(reqs) : reqs[k].player = None
  OBVIOUS
<1> HIDE DEF all, reqs
<1>3. \A k \in 1..Len(all) : k \in 1..N \/ (k - N \in 1..Len(reqs) /\ N + (k - N) = k)
  BY <1>1
<1>4. ASSUME NEW p \in Players, NEW k \in 1..Len(all), all[k].player = p
      PROVE  k \in 1..N /\ q[k].player = p
  <2>1. CASE k - N \in 1..Len(reqs) /\ N + (k - N) = k
    <3>1. all[k] = reqs[k - N]
      BY <1>1, <2>1
    <3>2. all[k].player = None
      BY <1>2, <2>1, <3>1
    <3> QED
      BY <1>4, <3>2, RowIsSome
  <2> QED
    BY <1>1, <1>3, <1>4, <2>1
<1> SUFFICES ASSUME NEW p \in Players
             PROVE  /\ ph1[p] = "online" => w.gold[p] = g1[p] /\ w.bags[p] = b1[p] /\ w.mails[p] = x1[p]
                    /\ ld[p] # None => ph1[p] = "loading" /\ ld[p] = View(w.gold, w.bags, w.mails, p)
                    /\ \A k \in 1..Len(all) : all[k].player = p =>
                          /\ ph1[p] = "loading" /\ ld[p] = None
                          /\ Load(es[k - 1], p) = View(w.gold, w.bags, w.mails, p)
                          /\ \A j \in 1..Len(all) : all[j].player = p => j = k
  BY DEF Seen, all, reqs
<1>5. ph1[p] = "online" => w.gold[p] = g1[p] /\ w.bags[p] = b1[p] /\ w.mails[p] = x1[p]
  BY DEF Agrees
<1>6. ph[p] = "loading" => /\ ph1[p] = "loading"
                           /\ View(w.gold, w.bags, w.mails, p) = View(G, B, X, p)
  BY DEF Agrees, Leaves, View
<1>7. ld[p] # None => ph1[p] = "loading" /\ ld[p] = View(w.gold, w.bags, w.mails, p)
  BY <1>6 DEF Seen
<1>8. ASSUME NEW k \in 1..Len(all), all[k].player = p
      PROVE  /\ ph1[p] = "loading" /\ ld[p] = None
             /\ Load(es[k - 1], p) = View(w.gold, w.bags, w.mails, p)
             /\ \A j \in 1..Len(all) : all[j].player = p => j = k
  <2>1. k \in 1..N /\ q[k].player = p
    BY <1>4, <1>8
  <2>2. /\ ph[p] = "loading" /\ ld[p] = None
        /\ Load(ds[k - 1], p) = View(G, B, X, p)
        /\ \A j \in 1..N : q[j].player = p => j = k
    BY <2>1 DEF Seen
  <2>3. k - 1 \in 0..N
    BY <1>1, <2>1
  <2> QED
    BY <1>4, <1>6, <2>2, <2>3
<1> QED
  BY <1>5, <1>7, <1>8

\* What the queue and the memory are then.
Closed(K1, w, d, q, s, ph1, ld, g1, b1, x1, thr1, sw1) ==
    /\ w.s = Settled(s, w.done)
    /\ \E es, G1, B1, X1 :
          /\ Backlog(es, K1, w.n, d, q \o w.done, w.s)
          /\ Seen(es, K1, w.n, G1, B1, X1, q \o w.done, ph1, ld, g1, b1, x1)
          /\ Sane(es, G1, B1, X1, q \o w.done, w.s, Active(ph1), thr1, sw1)

\* A handler is done: what it queued and what it did in memory go together.
LEMMA Closes ==
    ASSUME NEW K, NEW n \in Nat, NEW ds, NEW d, NEW q, NEW s, Backlog(ds, K, n, d, q, s),
           NEW G, NEW B, NEW X, NEW ph, NEW ld, NEW g, NEW b, NEW x,
           Seen(ds, K, n, G, B, X, q, ph, ld, g, b, x),
           NEW thr, NEW sw, Sane(ds, G, B, X, q, s, Active(ph), thr, sw),
           NEW K1, Agree(K, n, K1), NEW sw1, sw => sw1,
           NEW w, Stage(s, w, K1, Active(ph), ~sw1), n <= w.n, Shut(w, ~sw1),
           NEW ph1, Leaves(ph, ph1),
           NEW g1, NEW b1, NEW x1, Agrees(w, G, B, X, ph, ph1, g1, b1, x1),
           NEW thr1, w.lost \subseteq thr1
    PROVE  Closed(K1, w, d, q, s, ph1, ld, g1, b1, x1, thr1, sw1)
<1> DEFINE A == Active(ph)
<1>0. PICK ok : ok = ~sw1
  OBVIOUS
<1>1. Hands(ds, q, ok)
  BY <1>0 DEF Sane, Hands
<1>2. Stage(s, w, K1, A, ok)
  BY <1>0
<1>3. ok => Whole(w.s, w.bags, w.mails, A, w.lost, w.open)
  BY <1>2 DEF Stage
<1>4. Shut(w, ok)
  BY <1>0
<1> HIDE DEF A
<1>5. PICK es : LeadsOn(es, ds, d, q, s, K1, w, ok)
  BY <1>1, <1>2, <1>4, Returns
<1>6. /\ w.s = Settled(s, w.done)
      /\ Backlog(es, K1, w.n, d, q \o w.done, w.s)
      /\ \A k \in 0..Len(q) : es[k] = ds[k]
      /\ Hands(es, q \o w.done, ok)
  BY <1>5 DEF LeadsOn
<1>7. /\ IsSeq(w.done) /\ \A k \in 1..Len(w.done) : w.done[k].player = None
      /\ w.gold \in [Players -> Nat] /\ w.bags \in [Players -> SUBSET Items]
      /\ w.mails \in Boxes(K1, w.n)
      /\ \A p \in A : w.gold[p] = w.s.money[p]
  BY <1>2 DEF Stage
<1>8. IsSeq(q)
  BY DEF Backlog
<1>9. Seen(es, K1, w.n, w.gold, w.bags, w.mails, q \o w.done, ph1, ld, g1, b1, x1)
  BY <1>6, <1>7, <1>8, SeenOn
<1>10. Active(ph1) \subseteq A
  BY DEF Leaves, Active, A
<1>11. ok => Whole(w.s, w.bags, w.mails, Active(ph1), thr1, {})
  <2> DEFINE A1 == Active(ph1)
             t == w.s
             lost == w.lost
             B2 == w.bags
             X2 == w.mails
  <2>1. /\ ok => Whole(t, B2, X2, A, lost, {})
        /\ A1 \subseteq A /\ lost \subseteq thr1
    BY <1>3, <1>4, <1>10 DEF Shut
  <2> HIDE DEF A1, t, lost, B2, X2
  <2>2. ok => Whole(t, B2, X2, A1, thr1, {})
    BY <2>1, LostMore
  <2> QED
    BY <2>2 DEF A1, t, B2, X2
<1>12. Sane(es, w.gold, w.bags, w.mails, q \o w.done, w.s, Active(ph1), thr1, sw1)
  BY <1>0, <1>6, <1>7, <1>10, <1>11 DEF Sane, Hands
<1> QED
  BY <1>6, <1>9, <1>12 DEF Closed

-----------------------------------------------------------------------------
\* The requests of the handlers, one by one.

\* The mails after d is sent, when those of on see it.
Post(X, on, d) == [p \in Players |-> X[p] \cup {x \in {d} : x.receiver = p /\ p \in on}]

LEMMA PostBoxes ==
    ASSUME NEW K, NEW n \in Nat, NEW n1 \in Nat, n <= n1, NEW X \in Boxes(K, n),
           NEW d \in Mails(K, n1), NEW on
    PROVE  Post(X, on, d) \in Boxes(K, n1)
<1>1. X \in Boxes(K, n1)
  BY SoundLonger
<1>2. ASSUME NEW p \in Players
      PROVE  X[p] \cup {x \in {d} : x.receiver = p /\ p \in on} \in SUBSET Mails(K, n1)
  BY <1>1 DEF Boxes
<1> QED
  BY <1>2 DEF Post, Boxes

\* The statements of the handlers are sound.
LEMMA SoundStatements ==
    ASSUME NEW K, NEW n \in Nat
    PROVE  /\ \A p : \A g \in Nat : Sound(SaveGold(p, g), K, n)
           /\ \A i : Sound(Delete("character_inventory", i), K, n)
           /\ \A i : \A p \in Players : Sound(Put("character_inventory", i, p), K, n)
           /\ \A i : Sound(Delete("item_instance", i), K, n)
           /\ \A i : \A x \in Items : Sound(Put("item_instance", i, x), K, n)
           /\ \A id \in 1..n : \A row \in Rows(K[id]) : Sound(Put("mail", id, row), K, n)
           /\ \A id : Sound(Delete("mail", id), K, n)
           /\ \A id : Sound(Unlink(id), K, n)
           /\ \A i : \A link \in Link : link.mail_id <= n => Sound(Put("mail_items", i, link), K, n)
           /\ \A i : Sound(Delete("mail_items", i), K, n)
           /\ \A i : \A p \in Players : Sound(Update("mail_items", i, [receiver |-> p]), K, n)
           /\ \A i : \A a \in Auction : Sound(Put("auction", i, a), K, n)
           /\ \A i : \A p \in Players, bid \in Nat :
                 Sound(Update("auction", i, [bidder |-> p, bid |-> bid]), K, n)
           /\ \A i : Sound(Delete("auction", i), K, n)
<1>1. \A table, key : /\ Delete(table, key)[1] = table /\ Delete(table, key)[3] = "delete"
  BY DEF Delete
<1>2. \A table, key, row : /\ Put(table, key, row)[1] = table /\ Put(table, key, row)[2] = key
                           /\ Put(table, key, row)[3] = "put" /\ Put(table, key, row)[4] = row
  BY DEF Put
<1>3. \A table, key, cols :
         /\ Update(table, key, cols)[1] = table /\ Update(table, key, cols)[2] = key
         /\ Update(table, key, cols)[3] = "update" /\ Update(table, key, cols)[4] = cols
  BY DEF Update
<1>4. \A p : \A g \in Nat : Sound(SaveGold(p, g), K, n)
  BY <1>2 DEF Sound, SaveGold
<1>5. \A i : Sound(Delete("character_inventory", i), K, n)
  BY <1>1 DEF Sound
<1>6. \A i : \A p \in Players : Sound(Put("character_inventory", i, p), K, n)
  BY <1>2 DEF Sound
<1>7. \A i : Sound(Delete("item_instance", i), K, n)
  BY <1>1 DEF Sound
<1>8. \A i : \A x \in Items : Sound(Put("item_instance", i, x), K, n)
  BY <1>2 DEF Sound
<1>9. \A id \in 1..n : \A row \in Rows(K[id]) : Sound(Put("mail", id, row), K, n)
  BY <1>2 DEF Sound
<1>10. \A id : Sound(Delete("mail", id), K, n)
  BY <1>1 DEF Sound
<1>11. \A id : Sound(Unlink(id), K, n)
  BY <1>1 DEF Sound, Unlink
<1>12. \A i : \A link \in Link : link.mail_id <= n => Sound(Put("mail_items", i, link), K, n)
  BY <1>2 DEF Sound
<1>13. \A i : Sound(Delete("mail_items", i), K, n)
  BY <1>1 DEF Sound
<1>14. \A i : \A p \in Players : Sound(Update("mail_items", i, [receiver |-> p]), K, n)
  BY <1>3 DEF Sound
<1>15. \A i : \A a \in Auction : Sound(Put("auction", i, a), K, n)
  BY <1>2 DEF Sound
<1>16. \A i : \A p \in Players, bid \in Nat :
          Sound(Update("auction", i, [bidder |-> p, bid |-> bid]), K, n)
  BY <1>3 DEF Sound
<1>17. \A i : Sound(Delete("auction", i), K, n)
  BY <1>1 DEF Sound
<1> QED
  BY <1>4, <1>5, <1>6, <1>7, <1>8, <1>9, <1>10, <1>11, <1>12, <1>13, <1>14, <1>15, <1>16, <1>17

\* A transaction of sound statements.
LEMMA SoundTxn ==
    ASSUME NEW K, NEW n, NEW sts, \A st \in sts : Sound(st, K, n)
    PROVE  SoundRequest(Txn(sts), K, n) /\ Txn(sts).player = None
BY DEF SoundRequest, Txn

LEMMA SoundMail ==
    ASSUME NEW K, NEW n \in Nat, NEW d \in Mails(K, n), n \in MailIds, d.id = n
    PROVE  SoundRequest(InsertMail(d), K, n) /\ InsertMail(d).player = None
<1>1. /\ Row(d) \in Rows(K[d.id]) /\ d.item \in Items \cup {None} /\ d.receiver \in Players
      /\ d.id \in 1..n
  BY DEF Mails, MailIds
<1>2. Sound(Put("mail", d.id, Row(d)), K, n)
  BY <1>1, SoundStatements
<1>3. PICK link : link = [mail_id |-> d.id, receiver |-> d.receiver]
  OBVIOUS
<1>4. link \in Link /\ link.mail_id <= n
  BY <1>1, <1>3 DEF Link, MailIds
<1>5. Sound(Put("mail_items", d.item, link), K, n)
  BY <1>4, SoundStatements
<1> QED
  BY <1>2, <1>3, <1>5, SoundTxn DEF InsertMail

\* What w1 is when mail d has been sent from w.
Sends(w, w1, d, on) ==
    /\ w1.n = d.id /\ w1.gold = w.gold /\ w1.bags = w.bags /\ w1.mails = Post(w.mails, on, d)
    /\ w1.lost = w.lost \ {d.item} /\ w1.open = w.open
    /\ w1.s.character_inventory = w.s.character_inventory
    /\ w1.s.item_instance = w.s.item_instance /\ w1.s.auction = w.s.auction
    /\ d.item = None => w1.s.mail_items = w.s.mail_items
    /\ d.item # None => w1.s.mail_items[d.item] # None

LEMMA StageMail ==
    ASSUME NEW K, NEW s, NEW A \in SUBSET Players, NEW ok, NEW w, Stage(s, w, K, A, ok),
           NEW d, d.id \in MailIds, d \in Mails(K, d.id), d.id = w.n + 1, NEW on,
           ok /\ d.item # None => Loose(w.s, d.item, w.open)
    PROVE  \E w1 : Stage(s, w1, K, A, ok) /\ Queued(w, w1, InsertMail(d)) /\ Sends(w, w1, d, on)
<1> DEFINE n == w.n
           n1 == d.id
           t == w.s
           G == w.gold
           B == w.bags
           X == w.mails
           lost == w.lost
           open == w.open
           X1 == Post(X, on, d)
           lost1 == lost \ {d.item}
           r == InsertMail(d)
<1>1. /\ n \in Nat /\ G \in [Players -> Nat] /\ B \in [Players -> SUBSET Items] /\ X \in Boxes(K, n)
      /\ \A p \in A : G[p] = t.money[p]
      /\ ok => Whole(t, B, X, A, lost, open)
      /\ IsSeq(w.done) /\ t = w.cs[Len(w.done)]
      /\ \A k \in 0..Len(w.done) : w.cs[k] \in Tables(K, n)
  BY DEF Stage
<1>2. t \in Tables(K, n)
  BY <1>1, Appended
<1>3. n1 \in Nat /\ n <= n1 /\ n1 > n /\ n1 \in MailIds
  BY <1>1 DEF MailIds
<1>4. SoundRequest(r, K, n1) /\ r.player = None
  BY <1>3, SoundMail
<1>5. /\ Row(d) \in MailRow /\ Row(d).receiver = d.receiver
      /\ d.item \in Items \cup {None} /\ d.receiver \in Players
  BY DEF Mails, Rows, Row
<1>6. X1 \in Boxes(K, n1)
  BY <1>1, <1>3, PostBoxes
<1>7. \A q \in A : X1[q] \subseteq X[q] \cup {x \in {d} : x.receiver = q}
  BY DEF Post
<1>8. PICK u : u = Committed(t, r)
  OBVIOUS
<1>9. /\ u.money = t.money /\ u.character_inventory = t.character_inventory
      /\ u.item_instance = t.item_instance /\ u.auction = t.auction
      /\ u.mail = With(t.mail, d.id, Row(d))
      /\ \/ d.item = None /\ u.mail_items = t.mail_items
         \/ /\ d.item \in Items
            /\ u.mail_items = With(t.mail_items, d.item, [mail_id |-> d.id, receiver |-> d.receiver])
  <2>1. CASE d.item = None
    BY <1>2, <1>3, <1>8, <2>1, EffectOfLetter
  <2>2. CASE d.item \in Items
    BY <1>2, <1>3, <1>5, <1>8, <2>2, EffectOfParcel
  <2> QED
    BY <1>5, <2>1, <2>2
<1>10. ok /\ d.item # None => Loose(t, d.item, open)
  OBVIOUS
<1> HIDE DEF n, n1, t, G, B, X, lost, open, X1, lost1, r
<1>11. ok => Whole(u, B, X1, A, lost1, open)
  <2> SUFFICES ASSUME ok PROVE Whole(u, B, X1, A, lost1, open)
    OBVIOUS
  <2>1. Whole(t, B, X, A, lost, open)
    BY <1>1
  <2>2. Carries(t, u, d, open) /\ Gets(X, X1, A, d)
    BY <1>7, <1>9, <1>10, RowIsSome DEF Carries, Gets
  <2>3. lost \ {d.item} \subseteq lost1
    BY DEF lost1
  <2>4. d.id > n /\ d.id \in MailIds
    BY <1>3 DEF n1
  <2> QED
    BY <1>1, <1>2, <1>5, <1>9, <2>1, <2>2, <2>3, <2>4, WholeDeliver
<1>12. Owns(G, A, u)
  BY <1>1, <1>9 DEF Owns
<1>13. Suits(w, r, u, B, X1, A, lost1, open, ok)
  BY <1>11 DEF open, Suits
<1>14. w.n <= n1 /\ u = Committed(w.s, r)
  BY <1>3, <1>8 DEF n, t
<1>15. PICK w1 : /\ Stage(s, w1, K, A, ok)
                 /\ Queued(w, w1, r) /\ Holds(w1, n1, u, G, B, X1, lost1, open)
  BY <1>1, <1>3, <1>4, <1>6, <1>12, <1>13, <1>14, Queues
<1>16. d.item # None => u.mail_items[d.item] # None
  <2> SUFFICES ASSUME d.item # None PROVE u.mail_items[d.item] # None
    OBVIOUS
  <2>1. d.item \in Items /\ [mail_id |-> d.id, receiver |-> d.receiver] \in Link
    BY <1>3, <1>5 DEF Link, n1
  <2>2. u.mail_items[d.item] = [mail_id |-> d.id, receiver |-> d.receiver]
    BY <1>2, <1>9, <2>1, AreTables, WithRows
  <2> QED
    BY <2>1, <2>2, RowIsSome
<1>17. Sends(w, w1, d, on)
  BY <1>9, <1>15, <1>16, RowIsSome DEF Sends, Holds, n1, t, G, B, X, lost, open, X1, lost1
<1> QED
  BY <1>15, <1>17 DEF r

\* What a stage says of w by itself.
LEMMA Stands ==
    ASSUME NEW K, NEW s, NEW A, NEW ok, NEW w, Stage(s, w, K, A, ok)
    PROVE  /\ w.n \in Nat /\ w.s \in Tables(K, w.n)
           /\ w.gold \in [Players -> Nat] /\ w.bags \in [Players -> SUBSET Items]
           /\ w.mails \in Boxes(K, w.n)
           /\ \A p \in A : w.gold[p] = w.s.money[p]
           /\ ok => Whole(w.s, w.bags, w.mails, A, w.lost, w.open)
<1>1. IsSeq(w.done) /\ w.s = w.cs[Len(w.done)] /\ \A k \in 0..Len(w.done) : w.cs[k] \in Tables(K, w.n)
  BY DEF Stage
<1>2. w.s \in Tables(K, w.n)
  BY <1>1, Appended
<1> QED
  BY <1>2 DEF Stage

\* The purses after one changes are what the tables say.
LEMMA Purses ==
    ASSUME NEW K, NEW n, NEW t \in Tables(K, n), NEW A \in SUBSET Players,
           NEW G \in [Players -> Nat], Owns(G, A, t),
           NEW p \in Players, NEW g \in Nat, NEW G1, G1 = With(G, p, g),
           NEW u, u.money = With(t.money, p, g)
    PROVE  G1 \in [Players -> Nat] /\ Owns(G1, A, u)
<1>1. IsTable(t.money, Players)
  BY AreTables
<1>2. IsTable(G, Players)
  BY DEF IsTable
<1>3. /\ G1[p] = g /\ \A q \in Players : q # p => G1[q] = G[q]
      /\ u.money[p] = g /\ \A q \in Players : q # p => u.money[q] = t.money[q]
  BY <1>1, <1>2, WithRows
<1>4. G1 \in [Players -> Nat]
  BY DEF With
<1> QED
  BY <1>3, <1>4 DEF Owns

\* Item i leaves the inventory of p.
Moves(w, w1, p, i) ==
    /\ w1.n = w.n /\ w1.gold = w.gold /\ w1.mails = w.mails
    /\ w1.bags = With(w.bags, p, w.bags[p] \ {i})
    /\ w1.lost = w.lost \cup {i} /\ w1.open = w.open
    /\ w1.s.auction = w.s.auction

LEMMA StageMove ==
    ASSUME NEW K, NEW s, NEW A \in SUBSET Players, NEW ok, NEW w, Stage(s, w, K, A, ok),
           NEW p \in A, NEW i \in w.bags[p]
    PROVE  \E w1 : /\ Stage(s, w1, K, A, ok)
                   /\ Queued(w, w1, Txn({Delete("character_inventory", i)}))
                   /\ Moves(w, w1, p, i) /\ (ok => Loose(w1.s, i, {}))
<1> DEFINE n == w.n
           t == w.s
           G == w.gold
           B == w.bags
           X == w.mails
           lost == w.lost
           open == w.open
           r == Txn({Delete("character_inventory", i)})
           B1 == With(B, p, B[p] \ {i})
           lost1 == lost \cup {i}
<1>1. /\ n \in Nat /\ t \in Tables(K, n)
      /\ G \in [Players -> Nat] /\ B \in [Players -> SUBSET Items] /\ X \in Boxes(K, n)
      /\ \A q \in A : G[q] = t.money[q]
      /\ ok => Whole(t, B, X, A, lost, open)
  BY Stands
<1>2. SoundRequest(r, K, n) /\ r.player = None
  <2>1. \A st \in {Delete("character_inventory", i)} : Sound(st, K, n)
    BY <1>1, SoundStatements
  <2> QED
    BY <2>1, SoundTxn
<1>3. PICK u : u = Committed(t, r)
  OBVIOUS
<1>4. p \in Players /\ i \in B[p] /\ i \in Items
  BY <1>1
<1>5. /\ u.money = t.money /\ u.character_inventory = With(t.character_inventory, i, None)
      /\ u.item_instance = t.item_instance /\ u.mail = t.mail /\ u.auction = t.auction
      /\ u.mail_items = t.mail_items
  BY <1>1, <1>3, <1>4, EffectOfMove
<1>6. IsTable(B, Players) /\ IsTable(t.character_inventory, Items)
  <2>1. IsTable(t.character_inventory, Items)
    BY <1>1, AreTables
  <2>2. IsTable(B, Players)
    BY <1>1 DEF IsTable
  <2> QED
    BY <2>1, <2>2
<1> HIDE DEF n, t, G, B, X, lost, open, r, B1, lost1
<1>7. B1[p] = B[p] \ {i} /\ \A q \in Players : q # p => B1[q] = B[q]
  BY <1>4, <1>6, WithRows DEF B1
<1>8. B1 \in [Players -> SUBSET Items]
  BY <1>1, <1>4 DEF B1, With
<1>9. ASSUME ok
      PROVE  /\ Whole(u, B1, X, A, lost \cup {i}, open)
             /\ Exists(t, i) /\ t.auction[i] = None /\ t.mail_items[i] = None
  <2>1. Whole(t, B, X, A, lost, open) /\ \A q \in A : q # p => B1[q] = B[q]
    BY <1>1, <1>7, <1>9
  <2>2. B1[p] = B[p] \ {i}
    BY <1>7
  <2>3. Whole(u, B1, X, A, lost \cup {i}, open)
    BY <1>1, <1>4, <1>5, <2>1, <2>2, WholeMove
  <2>4. Exists(t, i) /\ t.character_inventory[i] # None
    BY <1>4, <2>1, RowIsSome DEF Whole, Views, LoadInventory
  <2>5. t.auction[i] = None /\ t.mail_items[i] = None
    BY <1>4, <2>1, <2>4 DEF Whole, OneHand
  <2> QED
    BY <2>3, <2>4, <2>5
<1>10. ok => Loose(u, i, {})
  BY <1>4, <1>5, <1>6, <1>9, WithRows DEF Loose, Exists
<1>11. /\ Owns(G, A, u)
       /\ w.n <= n /\ u = Committed(w.s, r)
       /\ Suits(w, r, u, B1, X, A, lost1, open, ok)
  BY <1>1, <1>3, <1>5, <1>9 DEF n, t, open, lost1, Owns, Suits
<1>12. PICK w1 : /\ Stage(s, w1, K, A, ok)
                 /\ Queued(w, w1, r) /\ Holds(w1, n, u, G, B1, X, lost1, open)
  BY <1>1, <1>2, <1>8, <1>11, Queues
<1> QED
  BY <1>5, <1>10, <1>12 DEF Moves, Holds, n, t, G, B, X, lost, open, r, B1, lost1

\* The purse of p is saved.
Pays(w, w1, p, g) ==
    /\ w1.n = w.n /\ w1.gold = With(w.gold, p, g) /\ w1.mails = w.mails /\ w1.bags = w.bags
    /\ w1.lost = w.lost /\ w1.open = w.open
    /\ w1.s.auction = w.s.auction

LEMMA StageGold ==
    ASSUME NEW K, NEW s, NEW A \in SUBSET Players, NEW ok, NEW w, Stage(s, w, K, A, ok),
           NEW p \in Players, NEW g \in Nat
    PROVE  \E w1 : /\ Stage(s, w1, K, A, ok)
                   /\ Queued(w, w1, Txn({SaveGold(p, g)})) /\ Pays(w, w1, p, g)
<1> DEFINE n == w.n
           t == w.s
           G == w.gold
           B == w.bags
           X == w.mails
           lost == w.lost
           open == w.open
           r == Txn({SaveGold(p, g)})
           G1 == With(G, p, g)
<1>1. /\ n \in Nat /\ t \in Tables(K, n)
      /\ G \in [Players -> Nat] /\ B \in [Players -> SUBSET Items] /\ X \in Boxes(K, n)
      /\ \A q \in A : G[q] = t.money[q]
      /\ ok => Whole(t, B, X, A, lost, open)
  BY Stands
<1>2. SoundRequest(r, K, n) /\ r.player = None
  <2>1. \A st \in {SaveGold(p, g)} : Sound(st, K, n)
    BY <1>1, SoundStatements
  <2> QED
    BY <2>1, SoundTxn
<1>3. PICK u : u = Committed(t, r)
  OBVIOUS
<1>4. /\ u.money = With(t.money, p, g) /\ u.character_inventory = t.character_inventory
      /\ u.item_instance = t.item_instance /\ u.mail = t.mail /\ u.auction = t.auction
      /\ u.mail_items = t.mail_items
  BY <1>1, <1>3, EffectOfSaveGold
<1> HIDE DEF n, t, G, B, X, lost, open, r
<1>0. G1 = With(G, p, g)
  OBVIOUS
<1> HIDE DEF G1
<1>5. G1 \in [Players -> Nat] /\ Owns(G1, A, u)
  <2>1. Owns(G, A, t)
    BY <1>1 DEF Owns
  <2> QED
    BY <1>0, <1>1, <1>4, <2>1, Purses
<1>6. ok => Whole(u, B, X, A, lost, open)
  BY <1>1, <1>4, WholeGold
<1>7. /\ w.n <= n /\ u = Committed(w.s, r)
      /\ Suits(w, r, u, B, X, A, lost, open, ok)
  BY <1>1, <1>3, <1>6 DEF n, t, open, Suits
<1>8. PICK w1 : /\ Stage(s, w1, K, A, ok)
                /\ Queued(w, w1, r) /\ Holds(w1, n, u, G1, B, X, lost, open)
  BY <1>1, <1>2, <1>5, <1>7, Queues
<1> QED
  BY <1>4, <1>8 DEF Pays, Holds, n, t, G, B, X, lost, open, r, G1

\* The row of the auction of item i becomes a; with it the purse of p is saved.
Trades(w, w1, p, i, g, a) ==
    /\ w1.n = w.n /\ w1.gold = With(w.gold, p, g) /\ w1.mails = w.mails
    /\ w1.lost = w.lost /\ w1.s.auction = With(w.s.auction, i, a)

Sold(w, w1, p, i) == w1.open = w.open /\ w1.bags = With(w.bags, p, w.bags[p] \ {i})

LEMMA StageSell ==
    ASSUME NEW K, NEW s, NEW A \in SUBSET Players, NEW ok, NEW w, Stage(s, w, K, A, ok),
           NEW p \in A, NEW g \in Nat, NEW i \in w.bags[p], NEW a \in Auction
    PROVE  \E w1 : /\ Stage(s, w1, K, A, ok)
                   /\ Queued(w, w1, Txn({Delete("character_inventory", i), Put("auction", i, a),
                                         SaveGold(p, g)}))
                   /\ Trades(w, w1, p, i, g, a) /\ Sold(w, w1, p, i)
<1> DEFINE n == w.n
           t == w.s
           G == w.gold
           B == w.bags
           X == w.mails
           lost == w.lost
           open == w.open
           r == Txn({Delete("character_inventory", i), Put("auction", i, a), SaveGold(p, g)})
           B1 == With(B, p, B[p] \ {i})
           G1 == With(G, p, g)
<1>1. /\ n \in Nat /\ t \in Tables(K, n)
      /\ G \in [Players -> Nat] /\ B \in [Players -> SUBSET Items] /\ X \in Boxes(K, n)
      /\ \A q \in A : G[q] = t.money[q]
      /\ ok => Whole(t, B, X, A, lost, open)
  BY Stands
<1>2. SoundRequest(r, K, n) /\ r.player = None
  <2>1. /\ Sound(Delete("character_inventory", i), K, n) /\ Sound(Put("auction", i, a), K, n)
        /\ Sound(SaveGold(p, g), K, n)
    BY <1>1, SoundStatements
  <2> QED
    BY <2>1, SoundTxn
<1>3. PICK u : u = Committed(t, r)
  OBVIOUS
<1>4. p \in Players /\ i \in B[p] /\ i \in Items
  BY <1>1
<1>5. /\ u.money = With(t.money, p, g)
      /\ u.character_inventory = With(t.character_inventory, i, None)
      /\ u.item_instance = t.item_instance /\ u.mail = t.mail
      /\ u.auction = With(t.auction, i, a) /\ u.mail_items = t.mail_items
  BY <1>1, <1>3, <1>4, EffectOfSell
<1>6. IsTable(B, Players) /\ IsTable(t.character_inventory, Items) /\ IsTable(t.auction, Items)
  <2>1. IsTable(t.character_inventory, Items) /\ IsTable(t.auction, Items)
    BY <1>1, AreTables
  <2>2. IsTable(B, Players)
    BY <1>1 DEF IsTable
  <2> QED
    BY <2>1, <2>2
<1>0. G1 = With(G, p, g)
  OBVIOUS
<1> HIDE DEF n, t, G, B, X, lost, open, r, B1, G1
<1>7. B1[p] = B[p] \ {i} /\ \A q \in Players : q # p => B1[q] = B[q]
  BY <1>4, <1>6, WithRows DEF B1
<1>8. B1 \in [Players -> SUBSET Items]
  BY <1>1, <1>4 DEF B1, With
<1>9. G1 \in [Players -> Nat] /\ Owns(G1, A, u)
  <2>1. Owns(G, A, t)
    BY <1>1 DEF Owns
  <2> QED
    BY <1>0, <1>1, <1>4, <1>5, <2>1, Purses
<1>10. ASSUME ok PROVE Whole(u, B1, X, A, lost, open)
  <2>1. Whole(t, B, X, A, lost, open) /\ B1[p] = B[p] \ {i} /\ \A q \in A : q # p => B1[q] = B[q]
    BY <1>1, <1>7, <1>10
  <2>2. PICK v : /\ v.character_inventory = With(t.character_inventory, i, None)
                 /\ v.item_instance = t.item_instance /\ v.mail = t.mail
                 /\ v.auction = t.auction /\ v.mail_items = t.mail_items
    <3> DEFINE v == [character_inventory |-> With(t.character_inventory, i, None),
                     item_instance |-> t.item_instance, mail |-> t.mail,
                     auction |-> t.auction, mail_items |-> t.mail_items]
    <3> WITNESS v
    <3> QED
      OBVIOUS
  <2>3. PICK lost1 : lost1 = lost \cup {i}
    OBVIOUS
  <2>4. Whole(v, B1, X, A, lost1, open)
    BY <1>1, <1>4, <2>1, <2>2, <2>3, WholeMove
  <2>5. Exists(t, i) /\ t.character_inventory[i] # None
    BY <1>4, <2>1, RowIsSome DEF Whole, Views, LoadInventory
  <2>6. t.mail_items[i] = None
    BY <1>4, <2>1, <2>5 DEF Whole, OneHand
  <2>7. Exists(v, i) /\ v.character_inventory[i] = None /\ v.mail_items[i] = None
    BY <1>4, <1>6, <2>2, <2>5, <2>6, WithRows DEF Exists
  <2>8. /\ u.auction = With(v.auction, i, a) /\ u.character_inventory = v.character_inventory
        /\ u.item_instance = v.item_instance /\ u.mail = v.mail /\ u.mail_items = v.mail_items
        /\ IsTable(v.auction, Items) /\ a # None
        /\ open \ {i} \subseteq open /\ lost1 \ {i} \subseteq lost
    BY <1>5, <1>6, <2>2, <2>3, RowIsSome
  <2>9. Fits(v, i, a, open, lost1, lost)
    BY <2>7, <2>8 DEF Fits
  <2> QED
    BY <1>4, <2>4, <2>8, <2>9, WholeAuction
<1>11. /\ w.n <= n /\ u = Committed(w.s, r)
       /\ Suits(w, r, u, B1, X, A, lost, open, ok)
  BY <1>1, <1>3, <1>10 DEF n, t, open, Suits
<1>12. PICK w1 : /\ Stage(s, w1, K, A, ok)
                 /\ Queued(w, w1, r) /\ Holds(w1, n, u, G1, B1, X, lost, open)
  BY <1>1, <1>2, <1>8, <1>9, <1>11, Queues
<1> QED
  BY <1>5, <1>12 DEF Trades, Sold, Holds, n, t, G, B, X, lost, open, r, B1, G1

Offered(w, w1) == w1.open = w.open /\ w1.bags = w.bags

LEMMA StageBid ==
    ASSUME NEW K, NEW s, NEW A \in SUBSET Players, NEW ok, NEW w, Stage(s, w, K, A, ok),
           NEW p \in Players, NEW g \in Nat, NEW i \in Items, NEW bid \in Nat,
           NEW old, old = w.s.auction[i], old # None,
           NEW a, a = Updated(old, [bidder |-> p, bid |-> bid])
    PROVE  \E w1 : /\ Stage(s, w1, K, A, ok)
                   /\ Queued(w, w1, Txn({Update("auction", i, [bidder |-> p, bid |-> bid]),
                                         SaveGold(p, g)}))
                   /\ Trades(w, w1, p, i, g, a) /\ Offered(w, w1)
<1> DEFINE n == w.n
           t == w.s
           G == w.gold
           B == w.bags
           X == w.mails
           lost == w.lost
           open == w.open
           cols == [bidder |-> p, bid |-> bid]
           r == Txn({Update("auction", i, cols), SaveGold(p, g)})
           G1 == With(G, p, g)
<1>1. /\ n \in Nat /\ t \in Tables(K, n)
      /\ G \in [Players -> Nat] /\ B \in [Players -> SUBSET Items] /\ X \in Boxes(K, n)
      /\ \A q \in A : G[q] = t.money[q]
      /\ ok => Whole(t, B, X, A, lost, open)
  BY Stands
<1>2. SoundRequest(r, K, n) /\ r.player = None
  <2>1. Sound(Update("auction", i, cols), K, n) /\ Sound(SaveGold(p, g), K, n)
    BY <1>1, SoundStatements
  <2> QED
    BY <2>1, SoundTxn
<1>3. PICK u : u = Committed(t, r)
  OBVIOUS
<1>4. cols \in [bidder : Players, bid : Nat]
  OBVIOUS
<1>5. t.auction[i] = old /\ a = Updated(old, cols)
  OBVIOUS
<1>0. G1 = With(G, p, g)
  OBVIOUS
<1> HIDE DEF n, t, G, B, X, lost, open, cols, r, G1
<1>6. /\ u.money = With(t.money, p, g) /\ u.character_inventory = t.character_inventory
      /\ u.item_instance = t.item_instance /\ u.mail = t.mail
      /\ u.auction = With(t.auction, i, a) /\ u.mail_items = t.mail_items
  BY <1>1, <1>3, <1>5, EffectOfBid DEF r
<1>7. IsTable(t.auction, Items)
  BY <1>1, AreTables
<1>8. a # None
  <2>1. old \in Auction
    BY <1>1, <1>5, Columns
  <2> QED
    BY <1>4, <1>5, <2>1, UpdatedAuction, RowIsSome
<1>9. G1 \in [Players -> Nat] /\ Owns(G1, A, u)
  <2>1. Owns(G, A, t)
    BY <1>1 DEF Owns
  <2> QED
    BY <1>0, <1>1, <1>6, <2>1, Purses
<1>10. ASSUME ok PROVE Whole(u, B, X, A, lost, open)
  <2>1. Whole(t, B, X, A, lost, open)
    BY <1>1, <1>10
  <2>2. Exists(t, i) /\ t.character_inventory[i] = None /\ (t.mail_items[i] # None => i \in open)
    BY <1>5, <2>1 DEF Whole, Placed, OneHand
  <2>3. /\ open \ {i} \subseteq open /\ lost \ {i} \subseteq lost
        /\ Fits(t, i, a, open, lost, lost)
    BY <1>8, <2>2 DEF Fits
  <2> QED
    BY <1>6, <1>7, <2>1, <2>3, WholeAuction
<1>11. /\ w.n <= n /\ u = Committed(w.s, r)
       /\ Suits(w, r, u, B, X, A, lost, open, ok)
  BY <1>1, <1>3, <1>10 DEF n, t, open, Suits
<1>12. PICK w1 : /\ Stage(s, w1, K, A, ok)
                 /\ Queued(w, w1, r) /\ Holds(w1, n, u, G1, B, X, lost, open)
  BY <1>1, <1>2, <1>9, <1>11, Queues
<1> QED
  BY <1>6, <1>12 DEF Trades, Offered, Holds, n, t, G, B, X, lost, open, cols, r, G1

\* The auction of item i, which is in a mail, is deleted.
Ended(w, w1, i) ==
    /\ w1.n = w.n /\ w1.mails = w.mails /\ w1.bags = w.bags
    /\ w1.lost = w.lost /\ w1.open = w.open \ {i} /\ w1.s.auction = With(w.s.auction, i, None)

SameGold(w, w1) == w1.gold = w.gold

Charged(w, w1, p, g) == w1.gold = With(w.gold, p, g)

LEMMA StageEnd ==
    ASSUME NEW K, NEW s, NEW A \in SUBSET Players, NEW ok, NEW w, Stage(s, w, K, A, ok),
           NEW i \in Items,
           ok => w.s.mail_items[i] # None
    PROVE  \E w1 : /\ Stage(s, w1, K, A, ok)
                   /\ Queued(w, w1, Txn({Delete("auction", i)}))
                   /\ Ended(w, w1, i) /\ SameGold(w, w1)
<1> DEFINE n == w.n
           t == w.s
           G == w.gold
           B == w.bags
           X == w.mails
           lost == w.lost
           open == w.open
           open1 == open \ {i}
           r == Txn({Delete("auction", i)})
<1>1. /\ n \in Nat /\ t \in Tables(K, n)
      /\ G \in [Players -> Nat] /\ B \in [Players -> SUBSET Items] /\ X \in Boxes(K, n)
      /\ \A q \in A : G[q] = t.money[q]
      /\ ok => Whole(t, B, X, A, lost, open)
      /\ ok => t.mail_items[i] # None
  BY Stands
<1>2. SoundRequest(r, K, n) /\ r.player = None
  <2>1. Sound(Delete("auction", i), K, n)
    BY <1>1, SoundStatements
  <2> QED
    BY <2>1, SoundTxn
<1>3. PICK u : u = Committed(t, r)
  OBVIOUS
<1>4. i \in Ends(r)
  BY DEF Ends, Txn
<1>5. /\ u.money = t.money /\ u.character_inventory = t.character_inventory
      /\ u.item_instance = t.item_instance /\ u.mail = t.mail
      /\ u.auction = With(t.auction, i, None) /\ u.mail_items = t.mail_items
  BY <1>1, <1>3, EffectOfEnd
<1> HIDE DEF n, t, G, B, X, lost, open, open1, r
<1>6. IsTable(t.auction, Items)
  BY <1>1, AreTables
<1>7. Owns(G, A, u)
  BY <1>1, <1>5 DEF Owns
<1>8. ASSUME ok PROVE Whole(u, B, X, A, lost, open1)
  <2>1. Whole(t, B, X, A, lost, open)
    BY <1>1, <1>8
  <2>2. PICK a : a = None
    OBVIOUS
  <2>3. /\ open \ {i} \subseteq open1 /\ lost \ {i} \subseteq lost
        /\ Fits(t, i, a, open1, lost, lost) /\ u.auction = With(t.auction, i, a)
    BY <1>1, <1>5, <1>8, <2>2 DEF Fits, open1
  <2> QED
    BY <1>5, <1>6, <2>1, <2>3, WholeAuction
<1>9. /\ w.n <= n /\ u = Committed(w.s, r)
      /\ Suits(w, r, u, B, X, A, lost, open1, ok)
  BY <1>1, <1>3, <1>4, <1>8 DEF n, t, open, open1, Suits
<1>10. PICK w1 : /\ Stage(s, w1, K, A, ok)
                 /\ Queued(w, w1, r) /\ Holds(w1, n, u, G, B, X, lost, open1)
  BY <1>1, <1>2, <1>7, <1>9, Queues
<1> QED
  BY <1>5, <1>10 DEF Ended, SameGold, Holds, n, t, G, B, X, lost, open, open1, r

LEMMA StageEndAndGold ==
    ASSUME NEW K, NEW s, NEW A \in SUBSET Players, NEW ok, NEW w, Stage(s, w, K, A, ok),
           NEW p \in Players, NEW g \in Nat, NEW i \in Items,
           ok => w.s.mail_items[i] # None
    PROVE  \E w1 : /\ Stage(s, w1, K, A, ok)
                   /\ Queued(w, w1, Txn({Delete("auction", i), SaveGold(p, g)}))
                   /\ Ended(w, w1, i) /\ Charged(w, w1, p, g)
<1> DEFINE n == w.n
           t == w.s
           G == w.gold
           B == w.bags
           X == w.mails
           lost == w.lost
           open == w.open
           open1 == open \ {i}
           r == Txn({Delete("auction", i), SaveGold(p, g)})
           G1 == With(G, p, g)
<1>1. /\ n \in Nat /\ t \in Tables(K, n)
      /\ G \in [Players -> Nat] /\ B \in [Players -> SUBSET Items] /\ X \in Boxes(K, n)
      /\ \A q \in A : G[q] = t.money[q]
      /\ ok => Whole(t, B, X, A, lost, open)
      /\ ok => t.mail_items[i] # None
  BY Stands
<1>2. SoundRequest(r, K, n) /\ r.player = None
  <2>1. Sound(Delete("auction", i), K, n) /\ Sound(SaveGold(p, g), K, n)
    BY <1>1, SoundStatements
  <2> QED
    BY <2>1, SoundTxn
<1>3. PICK u : u = Committed(t, r)
  OBVIOUS
<1>4. i \in Ends(r)
  BY DEF Ends, Txn
<1>0. G1 = With(G, p, g)
  OBVIOUS
<1>5. /\ u.money = With(t.money, p, g) /\ u.character_inventory = t.character_inventory
      /\ u.item_instance = t.item_instance /\ u.mail = t.mail
      /\ u.auction = With(t.auction, i, None) /\ u.mail_items = t.mail_items
  BY <1>1, <1>3, EffectOfEndAndGold
<1> HIDE DEF n, t, G, B, X, lost, open, open1, r, G1
<1>6. IsTable(t.auction, Items)
  BY <1>1, AreTables
<1>7. G1 \in [Players -> Nat] /\ Owns(G1, A, u)
  <2>1. Owns(G, A, t)
    BY <1>1 DEF Owns
  <2> QED
    BY <1>0, <1>1, <1>5, <2>1, Purses
<1>8. ASSUME ok PROVE Whole(u, B, X, A, lost, open1)
  <2>1. Whole(t, B, X, A, lost, open)
    BY <1>1, <1>8
  <2>2. PICK a : a = None
    OBVIOUS
  <2>3. /\ open \ {i} \subseteq open1 /\ lost \ {i} \subseteq lost
        /\ Fits(t, i, a, open1, lost, lost) /\ u.auction = With(t.auction, i, a)
    BY <1>1, <1>5, <1>8, <2>2 DEF Fits, open1
  <2> QED
    BY <1>5, <1>6, <2>1, <2>3, WholeAuction
<1>9. /\ w.n <= n /\ u = Committed(w.s, r)
      /\ Suits(w, r, u, B, X, A, lost, open1, ok)
  BY <1>1, <1>3, <1>4, <1>8 DEF n, t, open, open1, Suits
<1>10. PICK w1 : /\ Stage(s, w1, K, A, ok)
                 /\ Queued(w, w1, r) /\ Holds(w1, n, u, G1, B, X, lost, open1)
  BY <1>1, <1>2, <1>7, <1>9, Queues
<1> QED
  BY <1>5, <1>10 DEF Ended, Charged, Holds, n, t, G, B, X, lost, open, open1, r, G1

\* Mail m of p and its link are deleted.
Removed(w, w1, p, m) ==
    /\ w1.n = w.n /\ w1.gold = w.gold /\ w1.bags = w.bags
    /\ w1.mails = With(w.mails, p, w.mails[p] \ {m})
    /\ w1.lost = w.lost \cup {m.item} /\ w1.open = w.open
    /\ w1.s.auction = w.s.auction

LEMMA StageRemove ==
    ASSUME NEW K, NEW s, NEW A \in SUBSET Players, NEW ok, NEW w, Stage(s, w, K, A, ok),
           Shut(w, ok), NEW p \in A, NEW m \in w.mails[p]
    PROVE  \E w1 : /\ Stage(s, w1, K, A, ok)
                   /\ Queued(w, w1, Txn({Delete("mail", m.id), Unlink(m.id)}))
                   /\ Removed(w, w1, p, m)
                   /\ (ok /\ m.item # None => Loose(w1.s, m.item, {}))
<1> DEFINE n == w.n
           t == w.s
           G == w.gold
           B == w.bags
           X == w.mails
           lost == w.lost
           open == w.open
           X1 == With(X, p, X[p] \ {m})
           lost1 == lost \cup {m.item}
           r == Txn({Delete("mail", m.id), Unlink(m.id)})
<1>1. /\ n \in Nat /\ t \in Tables(K, n)
      /\ G \in [Players -> Nat] /\ B \in [Players -> SUBSET Items] /\ X \in Boxes(K, n)
      /\ \A q \in A : G[q] = t.money[q]
      /\ ok => Whole(t, B, X, A, lost, open)
  BY Stands
<1>0. ok => open = {}
  BY DEF Shut
<1>2. SoundRequest(r, K, n) /\ r.player = None
  <2>1. Sound(Delete("mail", m.id), K, n) /\ Sound(Unlink(m.id), K, n)
    BY <1>1, SoundStatements
  <2> QED
    BY <2>1, SoundTxn
<1>3. PICK u : u = Committed(t, r)
  OBVIOUS
<1>4. p \in Players /\ m \in X[p]
  OBVIOUS
<1>5. m \in Mails(K, n) /\ m.id \in MailIds /\ m.item \in Items \cup {None}
  BY <1>1, <1>4, BoxMails DEF Mails
<1>6. /\ u.money = t.money
      /\ u.character_inventory = t.character_inventory
      /\ u.item_instance = t.item_instance
      /\ u.auction = t.auction
      /\ u.mail = With(t.mail, m.id, None)
      /\ \A i \in Items : u.mail_items[i] =
            IF t.mail_items[i] # None /\ t.mail_items[i].mail_id = m.id
            THEN None ELSE t.mail_items[i]
  BY <1>1, <1>3, <1>5, EffectOfRemove
<1> HIDE DEF n, t, G, B, X, lost, open, X1, lost1, r
<1>7. X1[p] = X[p] \ {m} /\ \A q \in Players : q # p => X1[q] = X[q]
  <2>1. IsTable(X, Players)
    BY <1>1 DEF IsTable, Boxes
  <2> QED
    BY <1>4, <2>1, WithRows DEF X1
<1>8. X1 \in Boxes(K, n)
  BY <1>1, <1>4 DEF X1, With, Boxes
<1>9. Owns(G, A, u)
  BY <1>1, <1>6 DEF Owns
<1>10. ASSUME ok
       PROVE  /\ Whole(u, B, X1, A, lost1, open)
              /\ m.item \in Items => Loose(u, m.item, {})
  <2>1. Whole(t, B, X, A, lost, {}) /\ open = {}
    BY <1>0, <1>1, <1>10
  <2>2. Without(X, X1, A, p, m) /\ Cut(t, u, m.id) /\ lost1 = lost \cup {m.item}
    BY <1>6, <1>7 DEF Without, Cut, lost1
  <2>3. Whole(u, B, X1, A, lost1, {}) /\ (m.item \in Items => Loose(u, m.item, {}))
    BY <1>1, <1>4, <1>6, <2>1, <2>2, WholeRemove
  <2> QED
    BY <2>1, <2>3
<1>11. /\ w.n <= n /\ u = Committed(w.s, r)
       /\ Suits(w, r, u, B, X1, A, lost1, open, ok)
  BY <1>1, <1>3, <1>10 DEF n, t, open, Suits
<1>12. PICK w1 : /\ Stage(s, w1, K, A, ok)
                 /\ Queued(w, w1, r) /\ Holds(w1, n, u, G, B, X1, lost1, open)
  BY <1>1, <1>2, <1>8, <1>9, <1>11, Queues
<1> QED
  BY <1>5, <1>6, <1>10, <1>12 DEF Removed, Holds, n, t, G, B, X, lost, open, X1, lost1, r

\* The statements of SaveMail are sound.
LEMMA SoundSaveMail ==
    ASSUME NEW K, NEW n \in Nat, NEW box \in SUBSET Mails(K, n)
    PROVE  \A st \in SaveMail(box) : Sound(st, K, n)
<1>1. ASSUME NEW m \in box PROVE Sound(Update("mail", m.id, Saves(m)), K, n)
  <2>1. m \in Mails(K, n) /\ Row(m) \in Rows(K[m.id])
    BY DEF Mails
  <2>2. Row(m).cod = m.cod /\ (Row(m).cod > 0 => K[m.id] = "normal")
    BY <2>1 DEF Row, Rows
  <2>3. Saves(m) \in [money : Nat, cod : Nat, returned : BOOLEAN] /\ Saves(m).cod = m.cod
    BY <2>1 DEF Mails, Saves
  <2>4. PICK st : st = Update("mail", m.id, Saves(m))
    OBVIOUS
  <2>5. st[1] = "mail" /\ st[2] = m.id /\ st[3] = "update" /\ st[4] = Saves(m)
    BY <2>4 DEF Update
  <2>6. Sound(st, K, n)
    BY <2>2, <2>3, <2>5 DEF Sound
  <2> QED
    BY <2>4, <2>6
<1>2. \A m \in box : /\ Sound(Delete("mail", m.id), K, n)
                     /\ Sound(Unlink(m.id), K, n)
                     /\ Sound(Delete("item_instance", m.item), K, n)
  BY SoundStatements
<1> QED
  BY <1>1, <1>2, InSaveMail

LEMMA SavedBoxes ==
    ASSUME NEW K, NEW n, NEW X \in Boxes(K, n), NEW p \in Players, NEW box \in SUBSET Mails(K, n)
    PROVE  With(X, p, Saved(box)) \in Boxes(K, n)
<1>1. Saved(box) \in SUBSET Mails(K, n)
  BY SavedMails
<1> QED
  BY <1>1 DEF With, Boxes

\* The purse and the box of p are saved.
SavesAll(w, w1, p, g, box) ==
    /\ w1.n = w.n /\ w1.gold = With(w.gold, p, g) /\ w1.bags = w.bags
    /\ w1.mails = With(w.mails, p, Saved(box))
    /\ w1.lost = w.lost /\ w1.open = w.open /\ w1.s.auction = w.s.auction

LEMMA StageSave ==
    ASSUME NEW K, NEW s, NEW A \in SUBSET Players, NEW ok, NEW w, Stage(s, w, K, A, ok),
           Shut(w, ok), NEW p \in Players, NEW g \in Nat, NEW box \in SUBSET Mails(K, w.n),
           ok => Covers(w.s, p, box)
    PROVE  \E w1 : /\ Stage(s, w1, K, A, ok)
                   /\ Queued(w, w1, Txn({SaveGold(p, g)} \cup SaveMail(box)))
                   /\ SavesAll(w, w1, p, g, box)
<1> DEFINE n == w.n
           t == w.s
           G == w.gold
           B == w.bags
           X == w.mails
           lost == w.lost
           open == w.open
           G1 == With(G, p, g)
           X1 == With(X, p, Saved(box))
           r == Txn({SaveGold(p, g)} \cup SaveMail(box))
<1>1. /\ n \in Nat /\ t \in Tables(K, n)
      /\ G \in [Players -> Nat] /\ B \in [Players -> SUBSET Items] /\ X \in Boxes(K, n)
      /\ \A q \in A : G[q] = t.money[q]
      /\ ok => Whole(t, B, X, A, lost, open)
  BY Stands
<1>12. box \in SUBSET Mails(K, n) /\ (ok => Covers(t, p, box)) /\ (ok => open = {})
  BY DEF Shut
<1>2. SoundRequest(r, K, n) /\ r.player = None
  <2>1. \A st \in {SaveGold(p, g)} \cup SaveMail(box) : Sound(st, K, n)
    <3>1. Sound(SaveGold(p, g), K, n)
      BY <1>1, SoundStatements
    <3>2. \A st \in SaveMail(box) : Sound(st, K, n)
      BY <1>1, <1>12, SoundSaveMail
    <3> QED
      BY <3>1, <3>2
  <2> QED
    BY <2>1, SoundTxn
<1>3. PICK u : u = Committed(t, r)
  OBVIOUS
<1>0. G1 = With(G, p, g)
  OBVIOUS
<1>4. SavesTo(t, u, p, g, box)
  BY <1>1, <1>3, EffectOfSave
<1> HIDE DEF n, t, G, B, X, lost, open, G1, X1, r
<1>5. u.money = With(t.money, p, g) /\ u.auction = t.auction
  BY <1>4 DEF SavesTo
<1>6. G1 \in [Players -> Nat] /\ Owns(G1, A, u)
  <2>1. Owns(G, A, t)
    BY <1>1 DEF Owns
  <2> QED
    BY <1>0, <1>1, <1>5, <2>1, Purses
<1>7. X1[p] = Saved(box) /\ \A q \in Players : q # p => X1[q] = X[q]
  <2>1. IsTable(X, Players)
    BY <1>1 DEF IsTable, Boxes
  <2> QED
    BY <2>1, WithRows DEF X1
<1>8. X1 \in Boxes(K, n)
  BY <1>1, <1>12, SavedBoxes DEF X1
<1>9. ASSUME ok PROVE Whole(u, B, X1, A, lost, open)
  <2>1. Whole(t, B, X, A, lost, {}) /\ open = {} /\ Covers(t, p, box)
    BY <1>1, <1>9, <1>12
  <2>2. Keeps(X, X1, A, p, box)
    BY <1>7 DEF Keeps
  <2>3. Whole(u, B, X1, A, lost, {})
    BY <1>1, <1>4, <1>12, <2>1, <2>2, WholeSave
  <2> QED
    BY <2>1, <2>3
<1>10. /\ w.n <= n /\ u = Committed(w.s, r)
       /\ Suits(w, r, u, B, X1, A, lost, open, ok)
  BY <1>1, <1>3, <1>9 DEF n, t, open, Suits
<1>11. PICK w1 : /\ Stage(s, w1, K, A, ok)
                 /\ Queued(w, w1, r) /\ Holds(w1, n, u, G1, B, X1, lost, open)
  BY <1>1, <1>2, <1>6, <1>8, <1>10, Queues
<1> QED
  BY <1>5, <1>11 DEF SavesAll, Holds, n, t, G, B, X, lost, open, G1, X1, r

\* The row of mail y with the columns that are saved of mail z.
LEMMA RowSaves ==
    ASSUME NEW y, NEW z
    PROVE  Updated(Row(y), Saves(z)) =
              [messageType |-> y.messageType, sender |-> y.sender, receiver |-> y.receiver,
               money |-> z.money, cod |-> z.cod, returned |-> z.returned]
<1> DEFINE row == [messageType |-> y.messageType, sender |-> y.sender, receiver |-> y.receiver,
                   money |-> z.money, cod |-> z.cod, returned |-> z.returned]
           new == Updated(Row(y), Saves(z))
<1>1. DOMAIN Row(y) = {"messageType", "sender", "receiver", "money", "cod", "returned"}
  BY DEF Row
<1>2. DOMAIN Saves(z) = {"money", "cod", "returned"}
  BY DEF Saves
<1>3. new = [c \in DOMAIN Row(y) |-> IF c \in DOMAIN Saves(z) THEN Saves(z)[c] ELSE Row(y)[c]]
  BY DEF Updated
<1>4. \A c \in DOMAIN Row(y) : new[c] = row[c]
  BY <1>1, <1>2, <1>3 DEF Row, Saves
<1>5. row = [c \in DOMAIN Row(y) |-> row[c]]
  BY <1>1
<1> QED
  BY <1>3, <1>4, <1>5

\* A mail whose item, or whose money, is taken.
Opened(m, m1) == \/ m1 = [m EXCEPT !.item = None, !.cod = 0, !.state = "changed"]
                 \/ m1 = [m EXCEPT !.money = 0, !.state = "changed"]

LEMMA TakenMail ==
    ASSUME NEW K, NEW n, NEW m \in Mails(K, n), NEW m1, Opened(m, m1)
    PROVE  /\ m1 \in Mails(K, n) /\ m1.id = m.id /\ m1.receiver = m.receiver
           /\ m1.state = "changed" /\ Updated(Row(m), Saves(m1)) = Row(m1)
<1> DEFINE R == [id : MailIds, messageType : {"normal", "auction"}, sender : Players \cup {None},
                 receiver : Players, money : Nat, cod : Nat, returned : BOOLEAN,
                 item : Items \cup {None}, state : {"unchanged", "changed", "deleted"}]
<1>0. m \in R /\ m.id <= n /\ Row(m) \in Rows(K[m.id])
  BY DEF Mails
<1>1. /\ m1.id = m.id /\ m1.messageType = m.messageType /\ m1.sender = m.sender
      /\ m1.receiver = m.receiver /\ m1.returned = m.returned /\ m1.state = "changed"
      /\ m1.money \in Nat /\ m1.cod \in Nat /\ m1.item \in Items \cup {None}
      /\ m1.cod > 0 => m1.cod = m.cod
  <2>1. CASE m1 = [m EXCEPT !.item = None, !.cod = 0, !.state = "changed"]
    BY <1>0, <2>1
  <2>2. CASE m1 = [m EXCEPT !.money = 0, !.state = "changed"]
    BY <1>0, <2>2
  <2> QED
    BY <2>1, <2>2 DEF Opened
<1>2. m1 \in R
  <2>1. CASE m1 = [m EXCEPT !.item = None, !.cod = 0, !.state = "changed"]
    BY <1>0, <2>1
  <2>2. CASE m1 = [m EXCEPT !.money = 0, !.state = "changed"]
    BY <1>0, <2>2
  <2> QED
    BY <2>1, <2>2 DEF Opened
<1>3. Row(m1) \in Rows(K[m1.id])
  BY <1>0, <1>1 DEF Row, Rows, MailRow
<1>4. m1 \in Mails(K, n)
  BY <1>0, <1>1, <1>2, <1>3 DEF Mails
<1>5. Updated(Row(m), Saves(m1)) = Row(m1)
  BY <1>1, RowSaves DEF Row
<1> QED
  BY <1>1, <1>4, <1>5

\* The mails in memory are what saving them expects.
LEMMA CoversOwn ==
    ASSUME NEW t, NEW p, NEW box, Distinct(box), \A m \in box : CurrentMail(t, m, p) /\ Row(m) # None
    PROVE  Covers(t, p, box)
<1> SUFFICES ASSUME NEW m \in box
             PROVE  /\ m.receiver = p /\ MailedItem(t, m.id) = m.item
                    /\ t.mail[m.id] # None /\ t.mail[m.id].receiver = p
                    /\ IF m.state = "changed" THEN Updated(t.mail[m.id], Saves(m)) = Row(m)
                       ELSE t.mail[m.id] = Row(m)
  BY DEF Covers
<1>1. m.receiver = p /\ MailedItem(t, m.id) = m.item /\ t.mail[m.id] = Row(m)
  BY DEF CurrentMail
<1>2. Updated(Row(m), Saves(m)) = Row(m)
  BY RowSaves DEF Row
<1>3. Row(m).receiver = m.receiver
  BY DEF Row
<1> QED
  BY <1>1, <1>2, <1>3

\* The statements of taking item x out of a mail.
TakeStatements(p, x, g) ==
    {Put("item_instance", x, x), Put("character_inventory", x, p), SaveGold(p, g), Delete("mail_items", x)}

\* Whatever box is saved with them, the purse is.
LEMMA TakeSavesGold ==
    ASSUME NEW kind, NEW n, NEW t \in Tables(kind, n), NEW p \in Players, NEW g \in Nat, NEW box,
           NEW x, NEW u, u = Committed(t, Txn(TakeStatements(p, x, g) \cup SaveMail(box)))
    PROVE  u.money = With(t.money, p, g) /\ u.auction = t.auction
<1> DEFINE body == TakeStatements(p, x, g) \cup SaveMail(box)
<1>1. u = Committed(t, [player |-> None, body |-> body])
  BY DEF Txn
<1>2. Touches(body, "money", Put("money", p, g)) /\ Spares(body, "auction")
  BY SaveMailSpares DEF TakeStatements, Spares, Touches, Put, Delete, SaveGold
<1> HIDE DEF body
<1>3. u.money = After(t.money, "money", body) /\ u.auction = After(t.auction, "auction", body)
  BY <1>1 DEF Committed
<1>4. IsTable(t.money, Players) /\ IsTable(t.auction, Items)
  BY AreTables
<1>5. u.money = With(t.money, p, g)
  BY <1>2, <1>3, <1>4, AfterPut
<1>6. u.auction = t.auction
  BY <1>2, <1>3, <1>4, AfterNothing
<1> QED
  BY <1>5, <1>6

\* What is left of the box of p when its mail m becomes m1.
Rest(X, p, m, m1) == (X[p] \ {m}) \cup {m1}

\* Item x is taken out of mail m of p, which becomes m1, with the purse g.
Takes(w, w1, p, m, m1, g) ==
    /\ w1.n = w.n /\ w1.gold = With(w.gold, p, g) /\ w1.bags = With(w.bags, p, w.bags[p] \cup {m.item})
    /\ w1.mails = With(w.mails, p, Saved(Rest(w.mails, p, m, m1)))
    /\ w1.lost = w.lost /\ w1.open = w.open /\ w1.s.auction = w.s.auction

\* The item of m is taken.
Emptied(m, m1) == m1 = [m EXCEPT !.item = None, !.cod = 0, !.state = "changed"]

LEMMA StageTake ==
    ASSUME NEW K, NEW s, NEW A \in SUBSET Players, NEW ok, NEW w, Stage(s, w, K, A, ok),
           Shut(w, ok), NEW p \in A, NEW m \in w.mails[p], NEW g \in Nat, m.item # None,
           NEW m1, Emptied(m, m1)
    PROVE  \E w1 : /\ Stage(s, w1, K, A, ok)
                   /\ Queued(w, w1, Txn(TakeStatements(p, m.item, g)
                                          \cup SaveMail(Rest(w.mails, p, m, m1))))
                   /\ Takes(w, w1, p, m, m1, g)
<1> DEFINE n == w.n
           t == w.s
           G == w.gold
           B == w.bags
           X == w.mails
           lost == w.lost
           open == w.open
           x == m.item
           box == Rest(X, p, m, m1)
           G1 == With(G, p, g)
           B1 == With(B, p, B[p] \cup {x})
           X1 == With(X, p, Saved(box))
           r == Txn(TakeStatements(p, x, g) \cup SaveMail(box))
<1>1. /\ n \in Nat /\ t \in Tables(K, n)
      /\ G \in [Players -> Nat] /\ B \in [Players -> SUBSET Items] /\ X \in Boxes(K, n)
      /\ \A q \in A : G[q] = t.money[q]
      /\ ok => Whole(t, B, X, A, lost, open)
  BY Stands
<1>2. p \in Players /\ m \in X[p] /\ (ok => open = {})
  BY DEF Shut
<1>3. m \in Mails(K, n) /\ m.id \in MailIds /\ x \in Items
  <2>1. m \in Mails(K, n) /\ m.id \in MailIds
    BY <1>1, <1>2, BoxMails
  <2> QED
    BY <2>1 DEF Mails
<1>4. /\ m1 \in Mails(K, n) /\ m1.id = m.id /\ m1.receiver = m.receiver /\ m1.state = "changed"
      /\ Updated(Row(m), Saves(m1)) = Row(m1)
  <2>1. Opened(m, m1)
    BY DEF Opened, Emptied
  <2> QED
    BY <1>3, <2>1, TakenMail
<1>5. m1.item = None
  BY <1>3 DEF Mails, Emptied
<1>6. box = (X[p] \ {m}) \cup {m1} /\ box \in SUBSET Mails(K, n)
  <2>1. X[p] \in SUBSET Mails(K, n)
    BY <1>1, <1>2 DEF Boxes
  <2> QED
    BY <1>4, <2>1 DEF Rest
<1>0. G1 = With(G, p, g) /\ x = m.item
  OBVIOUS
<1> HIDE DEF n, t, G, B, X, lost, open, x, box, G1, B1, X1, r
<1>7. SoundRequest(r, K, n) /\ r.player = None
  <2>1. /\ Sound(Put("item_instance", x, x), K, n) /\ Sound(Put("character_inventory", x, p), K, n)
        /\ Sound(SaveGold(p, g), K, n) /\ Sound(Delete("mail_items", x), K, n)
    BY <1>1, <1>2, <1>3, SoundStatements
  <2>2. \A st \in TakeStatements(p, x, g) : Sound(st, K, n)
    BY <2>1 DEF TakeStatements
  <2>3. \A st \in SaveMail(box) : Sound(st, K, n)
    BY <1>1, <1>6, SoundSaveMail
  <2>4. \A st \in TakeStatements(p, x, g) \cup SaveMail(box) : Sound(st, K, n)
    BY <2>2, <2>3
  <2> QED
    BY <2>4, SoundTxn DEF r
<1>8. PICK u : u = Committed(t, r)
  OBVIOUS
<1>9. u.money = With(t.money, p, g) /\ u.auction = t.auction
  BY <1>1, <1>2, <1>8, TakeSavesGold DEF r
<1>10. G1 \in [Players -> Nat] /\ Owns(G1, A, u)
  <2>1. Owns(G, A, t)
    BY <1>1 DEF Owns
  <2> QED
    BY <1>0, <1>1, <1>2, <1>9, <2>1, Purses
<1>11. B1 \in [Players -> SUBSET Items] /\ Receives(B, B1, A, p, x)
  <2>1. IsTable(B, Players)
    BY <1>1 DEF IsTable
  <2>2. B1[p] = B[p] \cup {x} /\ \A q \in Players : q # p => B1[q] = B[q]
    BY <1>2, <2>1, WithRows DEF B1
  <2>3. B1 \in [Players -> SUBSET Items]
    BY <1>1, <1>2, <1>3 DEF B1, With
  <2> QED
    BY <2>2, <2>3 DEF Receives
<1>12. X1 \in Boxes(K, n)
  BY <1>1, <1>2, <1>6, SavedBoxes DEF X1
<1>13. PICK X2 : X2 = With(X, p, X[p] \ {m})
  OBVIOUS
<1>14. X2 \in Boxes(K, n) /\ Without(X, X2, A, p, m) /\ Keeps(X2, X1, A, p, box)
  <2>1. IsTable(X, Players)
    BY <1>1 DEF IsTable, Boxes
  <2>2. /\ X2[p] = X[p] \ {m} /\ \A q \in Players : q # p => X2[q] = X[q]
        /\ X1[p] = Saved(box) /\ \A q \in Players : q # p => X1[q] = X[q]
    BY <1>2, <1>13, <2>1, WithRows DEF X1
  <2>3. X2 \in Boxes(K, n)
    BY <1>1, <1>2, <1>13 DEF With, Boxes
  <2> QED
    BY <2>2, <2>3 DEF Without, Keeps
<1>15. ASSUME ok PROVE Whole(u, B1, X1, A, lost, open)
  <2>1. Whole(t, B, X, A, lost, {}) /\ open = {}
    BY <1>1, <1>2, <1>15
  <2>2. /\ Distinct(X[p]) /\ \A y \in X[p] : CurrentMail(t, y, p)
    BY <1>2, <2>1 DEF Whole, Views
  <2>3. PICK v : v = TakenOut(t, p, x)
    OBVIOUS
  <2>0. /\ Whole(v, B1, X2, A, lost, {})
        /\ v \in Tables(K, n) /\ OnlyMailLoses(t, v, m.id)
    BY <1>0, <1>1, <1>2, <1>3, <1>11, <1>14, <2>1, <2>3, WholeTake
  <2>4. /\ Whole(v, B1, X2, A, lost, {})
        /\ v \in Tables(K, n) /\ v.mail = t.mail /\ MailedItem(v, m.id) = None
        /\ \A id \in MailIds : id # m.id => MailedItem(v, id) = MailedItem(t, id)
    BY <2>0 DEF OnlyMailLoses
  <2>5. \A y \in X[p] : y # m => y.id # m.id /\ y.id \in MailIds
    BY <1>1, <1>2, <2>2, BoxMails DEF Distinct
  <2>6. Distinct(box)
    <3>1. ASSUME NEW y1 \in box, NEW y2 \in box, y1.id = y2.id PROVE y1 = y2
      <4>1. y1 = m1 \/ (y1 \in X[p] /\ y1 # m)
        BY <1>6
      <4>2. y2 = m1 \/ (y2 \in X[p] /\ y2 # m)
        BY <1>6
      <4>3. CASE y1 = m1
        BY <1>4, <2>5, <3>1, <4>2, <4>3
      <4>4. CASE y1 # m1
        <5>1. y1.id # m1.id
          BY <1>4, <2>5, <4>1, <4>4
        <5> QED
          BY <2>2, <3>1, <4>1, <4>2, <4>4, <5>1 DEF Distinct
      <4> QED
        BY <4>3, <4>4
    <3> QED
      BY <3>1 DEF Distinct
  <2>7. ASSUME NEW y \in box
        PROVE  /\ y.receiver = p /\ MailedItem(v, y.id) = y.item
               /\ v.mail[y.id] # None /\ v.mail[y.id].receiver = p
               /\ IF y.state = "changed" THEN Updated(v.mail[y.id], Saves(y)) = Row(y)
                  ELSE v.mail[y.id] = Row(y)
    <3>1. CASE y = m1
      <4>1. m.receiver = p /\ t.mail[m.id] = Row(m) /\ Row(m).receiver = m.receiver
        BY <1>2, <2>2 DEF CurrentMail, Row
      <4>2. Row(m) # None
        BY <1>3, RowIsSome DEF Mails, Rows
      <4> QED
        BY <1>4, <1>5, <2>4, <3>1, <4>1, <4>2
    <3>2. CASE y # m1
      <4>1. y \in X[p] /\ y # m
        BY <1>6, <3>2
      <4>2. /\ y.receiver = p /\ t.mail[y.id] = Row(y) /\ MailedItem(t, y.id) = y.item
            /\ Row(y).receiver = y.receiver
        BY <2>2, <4>1 DEF CurrentMail, Row
      <4>3. y \in Mails(K, n)
        BY <1>6
      <4>4. Row(y) # None
        BY <4>3, RowIsSome DEF Mails, Rows
      <4>5. Updated(Row(y), Saves(y)) = Row(y)
        BY RowSaves DEF Row
      <4>6. MailedItem(v, y.id) = y.item
        BY <2>4, <2>5, <4>1, <4>2
      <4> QED
        BY <2>4, <4>2, <4>4, <4>5, <4>6
    <3> QED
      BY <3>1, <3>2
  <2>8. Covers(v, p, box)
    BY <2>6, <2>7 DEF Covers
  <2>9. ~Destroys(box, x)
    <3>1. ASSUME NEW y \in box, y.item = x PROVE FALSE
      <4>1. y \in X[p] /\ y # m
        BY <1>3, <1>5, <1>6, <3>1, RowIsSome
      <4>2. MailedItem(t, y.id) = x /\ MailedItem(t, m.id) = x /\ y.id # m.id
        BY <1>0, <1>2, <2>2, <2>5, <3>1, <4>1 DEF CurrentMail
      <4>3. In(t, x, y.id) /\ In(t, x, m.id)
        BY <1>3, <4>2, Mailed, RowIsSome
      <4> QED
        BY <4>2, <4>3 DEF In
    <3> QED
      BY <3>1 DEF Destroys
  <2>10. SavesTo(v, u, p, g, box)
    BY <1>1, <1>2, <1>3, <1>8, <2>3, <2>9, EffectOfTake DEF r, TakeStatements
  <2>11. Whole(u, B1, X1, A, lost, {})
    BY <1>2, <1>6, <1>14, <2>4, <2>8, <2>10, WholeSave
  <2> QED
    BY <2>1, <2>11
<1>16. /\ w.n <= n /\ u = Committed(w.s, r)
       /\ Suits(w, r, u, B1, X1, A, lost, open, ok)
  BY <1>1, <1>8, <1>15 DEF n, t, open, Suits
<1>17. PICK w1 : /\ Stage(s, w1, K, A, ok)
                 /\ Queued(w, w1, r) /\ Holds(w1, n, u, G1, B1, X1, lost, open)
  BY <1>1, <1>7, <1>10, <1>11, <1>12, <1>16, Queues
<1>18. Takes(w, w1, p, m, m1, g)
  BY <1>9, <1>17 DEF Takes, Holds, n, t, G, B, X, lost, open, x, box, G1, B1, X1
<1> QED
  BY <1>17, <1>18 DEF r, x, box, X

-----------------------------------------------------------------------------
\* What a handler queues, all in all.

LEMMA SameSeq ==
    ASSUME NEW R, NEW u \in Seq(R), NEW v \in Seq(R), Len(u) = Len(v),
           \A k \in 1..Len(u) : u[k] = v[k]
    PROVE  u = v
<1>1. u = [k \in 1..Len(u) |-> u[k]] /\ v = [k \in 1..Len(v) |-> v[k]]
  OBVIOUS
<1> QED
  BY <1>1

LEMMA JoinOne ==
    ASSUME NEW a, NEW b
    PROVE  <<a>> \o <<b>> = <<a, b>> /\ Append(<<a>>, b) = <<a, b>>
<1> DEFINE R == {a, b}
           u == <<a>> \o <<b>>
           v == <<a, b>>
           x == Append(<<a>>, b)
<1>1. <<a>> \in Seq(R) /\ <<b>> \in Seq(R) /\ v \in Seq(R)
  OBVIOUS
<1>2. u \in Seq(R) /\ Len(u) = 2 /\ u[1] = a /\ u[2] = b
  BY <1>1
<1>3. x \in Seq(R) /\ Len(x) = 2 /\ x[1] = a /\ x[2] = b
  BY <1>1
<1>4. Len(v) = 2 /\ v[1] = a /\ v[2] = b
  OBVIOUS
<1>5. \A k \in 1..2 : k = 1 \/ k = 2
  OBVIOUS
<1> HIDE DEF R, u, v, x
<1>6. u = v /\ x = v
  BY <1>1, <1>2, <1>3, <1>4, <1>5, SameSeq
<1> QED
  BY <1>6 DEF u, v, x

LEMMA JoinNone == \A a : <<a>> \o <<>> = <<a>>
<1> SUFFICES ASSUME NEW a PROVE <<a>> \o <<>> = <<a>>
  OBVIOUS
<1> DEFINE u == <<a>> \o <<>>
           v == <<a>>
<1>1. v \in Seq({a}) /\ << >> \in Seq({a}) /\ Len(v) = 1 /\ v[1] = a
  OBVIOUS
<1>2. u \in Seq({a}) /\ Len(u) = 1 /\ u[1] = a
  BY <1>1
<1>3. \A k \in 1..1 : k = 1
  OBVIOUS
<1> HIDE DEF u, v
<1>4. u = v
  BY <1>1, <1>2, <1>3, SameSeq
<1> QED
  BY <1>4 DEF u, v

LEMMA JoinTwo ==
    ASSUME NEW a, NEW b, NEW c
    PROVE  <<a, b>> \o <<c>> = <<a, b, c>> /\ <<a>> \o <<b, c>> = <<a, b, c>>
<1> DEFINE R == {a, b, c}
           u == <<a, b>> \o <<c>>
           x == <<a>> \o <<b, c>>
           v == <<a, b, c>>
<1>1. /\ <<a>> \in Seq(R) /\ <<c>> \in Seq(R) /\ <<a, b>> \in Seq(R) /\ <<b, c>> \in Seq(R)
      /\ v \in Seq(R)
  OBVIOUS
<1>2. u \in Seq(R) /\ Len(u) = 3 /\ u[1] = a /\ u[2] = b /\ u[3] = c
  BY <1>1
<1>3. x \in Seq(R) /\ Len(x) = 3 /\ x[1] = a /\ x[2] = b /\ x[3] = c
  BY <1>1
<1>4. Len(v) = 3 /\ v[1] = a /\ v[2] = b /\ v[3] = c
  OBVIOUS
<1>5. \A k \in 1..3 : k = 1 \/ k = 2 \/ k = 3
  OBVIOUS
<1> HIDE DEF R, u, v, x
<1>6. u = v /\ x = v
  BY <1>1, <1>2, <1>3, <1>4, <1>5, SameSeq
<1> QED
  BY <1>6 DEF u, v, x

LEMMA JoinThree ==
    ASSUME NEW a, NEW b, NEW c, NEW d
    PROVE  <<a, b, c>> \o <<d>> = <<a, b, c, d>> /\ <<a>> \o <<b, c, d>> = <<a, b, c, d>>
<1> DEFINE R == {a, b, c, d}
           u == <<a, b, c>> \o <<d>>
           x == <<a>> \o <<b, c, d>>
           v == <<a, b, c, d>>
<1>1. /\ <<a>> \in Seq(R) /\ <<d>> \in Seq(R) /\ <<a, b, c>> \in Seq(R) /\ <<b, c, d>> \in Seq(R)
      /\ v \in Seq(R)
  OBVIOUS
<1>2. u \in Seq(R) /\ Len(u) = 4 /\ u[1] = a /\ u[2] = b /\ u[3] = c /\ u[4] = d
  BY <1>1
<1>3. x \in Seq(R) /\ Len(x) = 4 /\ x[1] = a /\ x[2] = b /\ x[3] = c /\ x[4] = d
  BY <1>1
<1>4. Len(v) = 4 /\ v[1] = a /\ v[2] = b /\ v[3] = c /\ v[4] = d
  OBVIOUS
<1>5. \A k \in 1..4 : k = 1 \/ k = 2 \/ k = 3 \/ k = 4
  OBVIOUS
<1> HIDE DEF R, u, v, x
<1>6. u = v /\ x = v
  BY <1>1, <1>2, <1>3, <1>4, <1>5, SameSeq
<1> QED
  BY <1>6 DEF u, v, x

\* The requests of one to four steps.
Ran(w, reqs) == w.done = reqs

LEMMA RanOne ==
    ASSUME NEW w, Starting(w), NEW w1, NEW a, Queued(w, w1, a)
    PROVE  Ran(w1, <<a>>)
BY DEF Starting, Queued, Ran

LEMMA RanTwo ==
    ASSUME NEW w, NEW w1, NEW a, Ran(w, <<a>>), NEW b, Queued(w, w1, b)
    PROVE  Ran(w1, <<a, b>>)
BY JoinOne DEF Queued, Ran

LEMMA RanThree ==
    ASSUME NEW w, NEW w1, NEW a, NEW b, Ran(w, <<a, b>>), NEW c, Queued(w, w1, c)
    PROVE  Ran(w1, <<a, b, c>>)
BY JoinTwo DEF Queued, Ran

LEMMA RanFour ==
    ASSUME NEW w, NEW w1, NEW a, NEW b, NEW c, Ran(w, <<a, b, c>>), NEW d, Queued(w, w1, d)
    PROVE  Ran(w1, <<a, b, c, d>>)
BY JoinThree DEF Queued, Ran

-----------------------------------------------------------------------------
\* From the invariant to a handler and back.

\* G1 and g1 differ from G and g in the same way, and only for those of on, for whom they are the same.
Tracks(on, G, g, G1, g1) ==
    /\ IsTable(G1, Players) /\ IsTable(g1, Players)
    /\ \A p \in Players : IF p \in on THEN G1[p] = g1[p] ELSE G1[p] = G[p] /\ g1[p] = g[p]

LEMMA TracksWith ==
    ASSUME NEW on, NEW G, NEW g, NEW G1, NEW g1, Tracks(on, G, g, G1, g1),
           NEW p \in Players, p \in on, NEW v
    PROVE  Tracks(on, G, g, With(G1, p, v), With(g1, p, v))
<1> DEFINE G2 == With(G1, p, v)
           g2 == With(g1, p, v)
<1>1. IsTable(G1, Players) /\ IsTable(g1, Players)
  BY DEF Tracks
<1>2. /\ G2[p] = v /\ \A q \in Players : q # p => G2[q] = G1[q]
      /\ g2[p] = v /\ \A q \in Players : q # p => g2[q] = g1[q]
  BY <1>1, WithRows
<1>3. IsTable(G2, Players) /\ IsTable(g2, Players)
  BY <1>1 DEF IsTable, With
<1> HIDE DEF G2, g2
<1>4. ASSUME NEW q \in Players
      PROVE  IF q \in on THEN G2[q] = g2[q] ELSE G2[q] = G[q] /\ g2[q] = g[q]
  BY <1>2 DEF Tracks
<1>5. Tracks(on, G, g, G2, g2)
  BY <1>3, <1>4 DEF Tracks
<1> QED
  BY <1>5 DEF G2, g2

LEMMA TracksPost ==
    ASSUME NEW on, NEW G, NEW g, NEW G1, NEW g1, Tracks(on, G, g, G1, g1),
           NEW on1, on1 \subseteq on, NEW d
    PROVE  Tracks(on, G, g, Post(G1, on1, d), Post(g1, on1, d))
<1>1. \A p \in Players : p \notin on =>
         G1[p] \cup {x \in {d} : x.receiver = p /\ p \in on1} = G1[p]
         /\ g1[p] \cup {x \in {d} : x.receiver = p /\ p \in on1} = g1[p]
  OBVIOUS
<1> QED
  BY <1>1 DEF Tracks, Post, IsTable

Online == {p \in Players : phase[p] = "online"}

\* The mails that are sent from now on are of the type.
OfType(K1, n, type) == \A id \in MailIds : id > n => K1[id] = type

\* A handler begins, with nothing queued yet.
Start(ds, K, G, B, X, K1, w, type, open, ok) ==
    /\ Typed(K)
    /\ Backlog(ds, K, lastMail, db, queue, settled)
    /\ Seen(ds, K, lastMail, G, B, X, queue, phase, loaded, gold, bags, mails)
    /\ Sane(ds, G, B, X, queue, settled, Active(phase), thrown, swept)
    /\ K1 \in Kinds /\ Agree(K, lastMail, K1) /\ OfType(K1, lastMail, type)
    /\ ok = ~swept
    /\ Stage(settled, w, K1, Active(phase), ok) /\ Starting(w)
    /\ Holds(w, lastMail, settled, G, B, X, thrown, open)

LEMMA HandlerStarts ==
    ASSUME IInv, NEW type \in {"normal", "auction"}, NEW open
    PROVE  \E ds, K, G, B, X, K1, w, ok : Start(ds, K, G, B, X, K1, w, type, open, ok)
<1>1. PICK ds, K, G, B, X :
        /\ Typed(K)
        /\ Backlog(ds, K, lastMail, db, queue, settled)
        /\ Seen(ds, K, lastMail, G, B, X, queue, phase, loaded, gold, bags, mails)
        /\ Sane(ds, G, B, X, queue, settled, Active(phase), thrown, swept)
  BY DEF IInv
<1>2. lastMail \in Nat /\ K \in Kinds
  BY <1>1 DEF Typed
<1>3. PICK K1 : K1 = [id \in MailIds |-> IF id <= lastMail THEN K[id] ELSE type]
  OBVIOUS
<1>4. K1 \in Kinds /\ Agree(K, lastMail, K1) /\ OfType(K1, lastMail, type)
  BY <1>2, <1>3 DEF Kinds, Agree, OfType, MailIds
<1>5. PICK ok : ok = ~swept
  OBVIOUS
<1>6. settled \in Tables(K1, lastMail) /\ X \in Boxes(K1, lastMail)
  <2>1. Len(queue) \in Nat /\ \A k \in 0..Len(queue) : ds[k] \in Tables(K, lastMail)
    BY <1>1 DEF Backlog, IsSeq
  <2>2. settled \in Tables(K, lastMail)
    BY <1>1, <2>1 DEF Backlog
  <2>3. X \in Boxes(K, lastMail)
    BY <1>1 DEF Seen
  <2> QED
    BY <1>4, <2>2, <2>3, AgreeTypes
<1>7. G \in [Players -> Nat] /\ B \in [Players -> SUBSET Items]
  BY <1>1 DEF Seen
<1>8. /\ \A p \in Active(phase) : G[p] = settled.money[p]
      /\ ok => Whole(settled, B, X, Active(phase), thrown, {})
  BY <1>1, <1>5 DEF Sane
<1>9. PICK w : /\ Stage(settled, w, K1, Active(phase), ok)
               /\ Starting(w) /\ Holds(w, lastMail, settled, G, B, X, thrown, open)
  BY <1>2, <1>6, <1>7, <1>8, Begins
<1>10. Start(ds, K, G, B, X, K1, w, type, open, ok)
  BY <1>1, <1>4, <1>5, <1>9 DEF Start
<1> QED
  BY <1>10

\* What a handler begins with.
LEMMA StartFacts ==
    ASSUME NEW ds, NEW K, NEW G, NEW B, NEW X, NEW K1, NEW w, NEW type, NEW open, NEW ok,
           Start(ds, K, G, B, X, K1, w, type, open, ok)
    PROVE  /\ K1 \in Kinds /\ lastMail \in Nat /\ lastMail <= MaxMails
           /\ Active(phase) \subseteq Players /\ Online \subseteq Active(phase)
           /\ house = settled.auction /\ settled \in Tables(K1, lastMail)
           /\ Stage(settled, w, K1, Active(phase), ok) /\ Starting(w)
           /\ Holds(w, lastMail, settled, G, B, X, thrown, open)
           /\ Tracks(Online, G, gold, G, gold) /\ Tracks(Online, B, bags, B, bags)
           /\ Tracks(Online, X, mails, X, mails)
           /\ gold \in [Players -> Nat] /\ bags \in [Players -> SUBSET Items]
           /\ mails \in Boxes(K1, lastMail) /\ dirty \in [Players -> BOOLEAN]
           /\ G \in [Players -> Nat] /\ B \in [Players -> SUBSET Items]
           /\ X \in Boxes(K1, lastMail)
<1>1. /\ Typed(K) /\ K1 \in Kinds
      /\ Agree(K, lastMail, K1)
      /\ Seen(ds, K, lastMail, G, B, X, queue, phase, loaded, gold, bags, mails)
      /\ Backlog(ds, K, lastMail, db, queue, settled)
  BY DEF Start
<1>2. /\ lastMail \in Nat /\ lastMail <= MaxMails /\ house = settled.auction
      /\ gold \in [Players -> Nat] /\ bags \in [Players -> SUBSET Items]
      /\ mails \in Boxes(K, lastMail) /\ dirty \in [Players -> BOOLEAN]
  BY <1>1, AuctionMailAssumption DEF Typed
<1>3. /\ G \in [Players -> Nat] /\ B \in [Players -> SUBSET Items] /\ X \in Boxes(K, lastMail)
      /\ \A p \in Players : phase[p] = "online" => G[p] = gold[p] /\ B[p] = bags[p] /\ X[p] = mails[p]
  BY <1>1 DEF Seen
<1>4. settled \in Tables(K, lastMail)
  <2>1. Len(queue) \in Nat /\ \A k \in 0..Len(queue) : ds[k] \in Tables(K, lastMail)
    BY <1>1 DEF Backlog, IsSeq
  <2> QED
    BY <1>1, <2>1 DEF Backlog
<1>5. X \in Boxes(K1, lastMail) /\ mails \in Boxes(K1, lastMail) /\ settled \in Tables(K1, lastMail)
  BY <1>1, <1>2, <1>3, <1>4, AgreeTypes
<1>6. /\ IsTable(G, Players) /\ IsTable(B, Players) /\ IsTable(X, Players)
      /\ IsTable(gold, Players) /\ IsTable(bags, Players) /\ IsTable(mails, Players)
  BY <1>2, <1>3 DEF IsTable, Boxes
<1>7. /\ Tracks(Online, G, gold, G, gold) /\ Tracks(Online, B, bags, B, bags)
      /\ Tracks(Online, X, mails, X, mails)
  BY <1>3, <1>6 DEF Tracks, Online
<1>8. Active(phase) \subseteq Players /\ Online \subseteq Active(phase)
  BY DEF Active, Online
<1> QED
  BY <1>1, <1>2, <1>3, <1>5, <1>7, <1>8 DEF Start

LEMMA StartOnline ==
    ASSUME NEW ds, NEW K, NEW G, NEW B, NEW X, NEW K1, NEW w, NEW type, NEW open, NEW ok,
           Start(ds, K, G, B, X, K1, w, type, open, ok), NEW p \in Players, online(p)
    PROVE  /\ p \in Online /\ p \in Active(phase)
           /\ w.gold[p] = gold[p] /\ w.bags[p] = bags[p] /\ w.mails[p] = mails[p]
<1>1. /\ Tracks(Online, G, gold, G, gold) /\ Tracks(Online, B, bags, B, bags)
      /\ Tracks(Online, X, mails, X, mails) /\ Online \subseteq Active(phase)
      /\ Holds(w, lastMail, settled, G, B, X, thrown, open)
  BY StartFacts
<1>2. p \in Online
  BY DEF Online, online
<1> QED
  BY <1>1, <1>2 DEF Tracks, Holds

\* What is kept of those who are not in the world.
Kept(K1, n, ph, g, b, x) ==
    /\ IsTable(g, Players) /\ IsTable(b, Players) /\ IsTable(x, Players)
    /\ \A p \in Players : ph[p] # "online" =>
          g[p] \in Nat /\ b[p] \in SUBSET Items /\ x[p] \in SUBSET Mails(K1, n)

\* A handler that has queued w.done keeps the invariant.
LEMMA ClosedKeeps ==
    ASSUME NEW K1 \in Kinds, NEW w,
           Closed(K1, w, db, queue, settled, phase', loaded', gold', bags', mails', thrown', swept'),
           db' = db, Request(w.done), lastMail' = w.n, w.n \in 0..MaxMails,
           house' = w.s.auction, phase' \in [Players -> {"offline", "loading", "online"}],
           IsTable(loaded', Players), dirty' \in [Players -> BOOLEAN], swept' \in BOOLEAN,
           Kept(K1, w.n, phase', gold', bags', mails')
    PROVE  IInv'
<1>1. w.s = settled' /\ queue' = queue \o w.done
  BY DEF Closed, Request
<1>2. PICK es, G1, B1, X1 :
          /\ Backlog(es, K1, lastMail', db', queue', settled')
          /\ Seen(es, K1, lastMail', G1, B1, X1, queue', phase', loaded', gold', bags', mails')
          /\ Sane(es, G1, B1, X1, queue', settled', Active(phase'), thrown', swept')
  BY <1>1 DEF Closed
<1>3. /\ G1 \in [Players -> Nat] /\ B1 \in [Players -> SUBSET Items]
      /\ X1 \in [Players -> SUBSET Mails(K1, lastMail')]
      /\ \A p \in Players :
            phase'[p] = "online" => G1[p] = gold'[p] /\ B1[p] = bags'[p] /\ X1[p] = mails'[p]
  BY <1>2 DEF Seen, Boxes
<1>4. \A p \in Players : gold'[p] \in Nat /\ bags'[p] \in SUBSET Items
                         /\ mails'[p] \in SUBSET Mails(K1, lastMail')
  BY <1>3 DEF Kept
<1>5. IsTable(gold', Players) /\ IsTable(bags', Players) /\ IsTable(mails', Players)
  BY DEF Kept
<1>6. gold' \in [Players -> Nat]
  BY <1>4, <1>5 DEF IsTable
<1>7. bags' \in [Players -> SUBSET Items]
  BY <1>4, <1>5 DEF IsTable
<1>8. mails' \in Boxes(K1, lastMail')
  BY <1>4, <1>5 DEF IsTable, Boxes
<1>9. Typed(K1)'
  BY <1>1, <1>6, <1>7, <1>8 DEF Typed
<1> QED
  BY <1>2, <1>9 DEF IInv

\* The memory g, b and x is to the memory at the start as w is to its start.
Mirrors(w, G, B, X, g, b, x) ==
    /\ Tracks(Online, G, gold, w.gold, g) /\ Tracks(Online, B, bags, w.bags, b)
    /\ Tracks(Online, X, mails, w.mails, x)

\* A handler ends with w, having queued reqs, and no one comes or goes.
Finishes(w, reqs, ok) ==
    /\ Shut(w, ok) /\ lastMail <= w.n /\ w.n <= MaxMails /\ w.lost \subseteq thrown'
    /\ UNCHANGED <<phase, loaded, db, swept>> /\ dirty' \in [Players -> BOOLEAN]
    /\ Ran(w, reqs) /\ Request(reqs) /\ lastMail' = w.n /\ house' = w.s.auction

LEMMA HandlerKeeps ==
    ASSUME NEW ds, NEW K, NEW G, NEW B, NEW X, NEW K1, NEW w0, NEW type, NEW open, NEW ok,
           Start(ds, K, G, B, X, K1, w0, type, open, ok),
           NEW w, Stage(settled, w, K1, Active(phase), ok),
           Mirrors(w, G, B, X, gold', bags', mails'), NEW reqs, Finishes(w, reqs, ok)
    PROVE  IInv'
<1>0. /\ Shut(w, ok) /\ lastMail <= w.n /\ w.n <= MaxMails /\ w.lost \subseteq thrown'
      /\ Tracks(Online, G, gold, w.gold, gold') /\ Tracks(Online, B, bags, w.bags, bags')
      /\ Tracks(Online, X, mails, w.mails, mails')
      /\ UNCHANGED <<phase, loaded, db, swept>> /\ dirty' \in [Players -> BOOLEAN]
      /\ Ran(w, reqs) /\ Request(reqs) /\ lastMail' = w.n /\ house' = w.s.auction
  BY DEF Finishes, Mirrors
<1>1. /\ Typed(K) /\ Backlog(ds, K, lastMail, db, queue, settled)
      /\ Seen(ds, K, lastMail, G, B, X, queue, phase, loaded, gold, bags, mails)
      /\ Sane(ds, G, B, X, queue, settled, Active(phase), thrown, swept)
      /\ K1 \in Kinds /\ Agree(K, lastMail, K1) /\ ok = ~swept
  BY DEF Start
<1>2. /\ lastMail \in Nat /\ swept \in BOOLEAN /\ IsTable(loaded, Players)
      /\ phase \in [Players -> {"offline", "loading", "online"}]
      /\ gold \in [Players -> Nat] /\ bags \in [Players -> SUBSET Items]
      /\ mails \in Boxes(K1, lastMail) /\ K1 \in Kinds
  BY <1>1, StartFacts DEF Typed
<1>3. PICK ph : ph = phase
  OBVIOUS
<1>4. Leaves(phase, ph)
  BY <1>3 DEF Leaves
<1>5. Agrees(w, G, B, X, phase, ph, gold', bags', mails')
  BY <1>0, <1>3 DEF Tracks, Agrees, Online
<1>6. Stage(settled, w, K1, Active(phase), ~swept) /\ Shut(w, ~swept)
  BY <1>0, <1>1
<1>7. Closed(K1, w, db, queue, settled, ph, loaded, gold', bags', mails', thrown', swept)
  BY <1>0, <1>1, <1>2, <1>4, <1>5, <1>6, Closes
<1>8. w.n \in Nat
  BY DEF Stage
<1>9. Kept(K1, w.n, phase, gold', bags', mails')
  <2>1. mails \in Boxes(K1, w.n)
    BY <1>0, <1>2, <1>8, SoundLonger
  <2>2. \A p \in Players : gold[p] \in Nat /\ bags[p] \in SUBSET Items
                           /\ mails[p] \in SUBSET Mails(K1, w.n)
    BY <1>2, <2>1 DEF Boxes
  <2> QED
    BY <1>0, <2>2 DEF Tracks, Kept, Online
<1>10. Request(w.done) /\ w.n \in 0..MaxMails
  BY <1>0, <1>8, AuctionMailAssumption DEF Ran
<1>11. Closed(K1, w, db, queue, settled, phase', loaded', gold', bags', mails', thrown', swept')
  BY <1>0, <1>3, <1>7
<1>12. /\ phase' \in [Players -> {"offline", "loading", "online"}] /\ IsTable(loaded', Players)
       /\ swept' \in BOOLEAN
  BY <1>0, <1>2
<1>13. Kept(K1, w.n, phase', gold', bags', mails')
  BY <1>0, <1>9
<1> QED
  BY <1>0, <1>2, <1>10, <1>11, <1>12, <1>13, ClosedKeeps

\* The mails that the handlers draft.
LEMMA Drafted ==
    ASSUME NEW K1 \in Kinds, NEW id \in MailIds, NEW type \in {"normal", "auction"},
           NEW from \in Players \cup {None}, NEW to \in Players, NEW money \in Nat, NEW cod \in Nat,
           NEW item \in Items \cup {None}, K1[id] = type,
           type = "normal" => from \in Players, cod > 0 => type = "normal",
           NEW d, d = Draft(id, type, from, to, money, cod, item)
    PROVE  /\ d \in Mails(K1, d.id) /\ d.id = id /\ d.id \in MailIds /\ d.item = item
           /\ d.receiver = to
<1>1. /\ d.id = id /\ d.messageType = type /\ d.sender = from /\ d.receiver = to
      /\ d.money = money /\ d.cod = cod /\ d.returned = FALSE /\ d.item = item
      /\ d.state = "unchanged"
  BY DEF Draft
<1>2. Row(d) \in Rows(K1[d.id])
  BY <1>1 DEF Row, Rows, MailRow
<1>3. d \in [id : MailIds, messageType : {"normal", "auction"}, sender : Players \cup {None},
             receiver : Players, money : Nat, cod : Nat, returned : BOOLEAN,
             item : Items \cup {None}, state : {"unchanged", "changed", "deleted"}]
  BY DEF Draft
<1>4. d.id <= d.id
  BY <1>1 DEF MailIds
<1> QED
  BY <1>1, <1>2, <1>3, <1>4 DEF Mails

-----------------------------------------------------------------------------
\* The handlers keep the invariant.

LEMMA ReceivedOne ==
    ASSUME NEW d PROVE Received({d}) = Post(mails, Online, d)
BY DEF Received, Post, Online, online

LEMMA ReceivedTwo ==
    ASSUME NEW d1, NEW d2
    PROVE  Received({d1, d2}) = Post(Post(mails, Online, d1), Online, d2)
<1>1. \A p \in Players :
         mails[p] \cup {d \in {d1, d2} : d.receiver = p /\ online(p)}
         = (mails[p] \cup {x \in {d1} : x.receiver = p /\ p \in Online})
             \cup {x \in {d2} : x.receiver = p /\ p \in Online}
  BY DEF Online, online
<1> QED
  BY <1>1 DEF Received, Post

LEMMA ReceivedNone ==
    ASSUME IsTable(mails, Players) PROVE Received({}) = mails
<1>1. \A p \in Players : mails[p] \cup {d \in {} : d.receiver = p /\ online(p)} = mails[p]
  OBVIOUS
<1> QED
  BY <1>1 DEF Received, IsTable

LEMMA Unsigned ==
    ASSUME NEW x \in Nat
    PROVE  uint32(x) \in 0..(2 * Half - 1)
<1>1. PICK n : n = 2 * Half
  OBVIOUS
<1>2. n \in Nat \ {0}
  BY <1>1, AuctionMailAssumption
<1>3. x % n \in 0..(n - 1)
  BY <1>2
<1> QED
  BY <1>1, <1>3 DEF uint32

\* A purse that is changed holds no less than nothing.
LEMMA PurseStaysNatural ==
    ASSUME NEW purse \in Nat, NEW x \in Nat
    PROVE  ModifyMoney(purse, int32(x)) \in Nat
<1>1. PICK d : d = int32(x)
  OBVIOUS
<1>2. d \in Int /\ MaxMoney \in Nat
  BY <1>1, AuctionMailAssumption DEF int32, MaxMoney
<1>3. ModifyMoney(purse, d) \in {0, MaxMoney} \/ (ModifyMoney(purse, d) = purse + d /\ (d >= 0 \/ purse > -d))
  BY <1>2 DEF ModifyMoney
<1> QED
  BY <1>1, <1>2, <1>3

LEMMA SendMailKeeps ==
    ASSUME IInv, NEW p \in Players, NEW to \in Players, NEW item \in Items \cup {None},
           NEW money \in Nat, NEW cod \in Nat, HandleSendMail(p, to, item, money, cod)
    PROVE  IInv'
<1>1. PICK ds, K, G, B, X, K1, w0, ok : Start(ds, K, G, B, X, K1, w0, "normal", {}, ok)
  BY HandlerStarts
<1> PICK type : type = "normal"
  OBVIOUS
<1>2. /\ K1 \in Kinds /\ lastMail \in Nat /\ lastMail <= MaxMails
      /\ Active(phase) \subseteq Players
      /\ house = settled.auction
      /\ Stage(settled, w0, K1, Active(phase), ok) /\ Starting(w0)
      /\ Holds(w0, lastMail, settled, G, B, X, thrown, {})
      /\ Mirrors(w0, G, B, X, gold, bags, mails)
      /\ gold \in [Players -> Nat] /\ bags \in [Players -> SUBSET Items]
      /\ dirty \in [Players -> BOOLEAN]
  BY <1>1, StartFacts DEF Mirrors, Holds
<1>3. online(p)
  BY DEF HandleSendMail, ready
<1>4. /\ p \in Online /\ p \in Active(phase)
      /\ w0.gold[p] = gold[p] /\ w0.bags[p] = bags[p] /\ w0.mails[p] = mails[p]
  BY <1>1, <1>3, StartOnline
<1>5. PICK left : left = gold[p] - uint32(money + Postage)
  OBVIOUS
<1>6. PICK d : d = Draft(NewId(1), "normal", p, to, money, cod, item)
  OBVIOUS
<1>7. PICK rest : rest = <<InsertMail(d), Txn({SaveGold(p, left)})>>
  OBVIOUS
<1>8. /\ lastMail + 1 <= MaxMails /\ lastMail' = lastMail + 1
      /\ gold[p] >= uint32(money + Postage) /\ item \in bags[p] \cup {None}
      /\ gold' = With(gold, p, left)
      /\ bags' = With(bags, p, bags[p] \ {item})
      /\ mails' = Post(mails, Online, d)
      /\ Request(MoveItemFromInventory(item) \o rest)
      /\ UNCHANGED <<phase, loaded, db, swept, thrown, house, dirty>>
  BY <1>5, <1>6, <1>7, ReceivedOne
     DEF HandleSendMail, GenerateMailID, CanPay, With, world, history
<1>9. left \in Nat
  BY <1>2, <1>5, <1>8, Unsigned, AuctionMailAssumption
<1>10. PICK id : id = lastMail + 1
  OBVIOUS
<1>11. id \in MailIds /\ K1[id] = "normal" /\ id = NewId(1) /\ id = lastMail + 1
  <2>1. OfType(K1, lastMail, "normal")
    BY <1>1 DEF Start
  <2> QED
    BY <1>2, <1>8, <1>10, <2>1, AuctionMailAssumption DEF MailIds, OfType, NewId
<1>12. /\ d \in Mails(K1, d.id) /\ d.id = id /\ d.id \in MailIds /\ d.item = item
       /\ d.receiver = to
  BY <1>2, <1>6, <1>11, Drafted
<1>13. \E w : /\ Stage(settled, w, K1, Active(phase), ok)
              /\ Ran(w, MoveItemFromInventory(item)) /\ w.n = lastMail /\ w.open = {}
              /\ Mirrors(w, G, B, X, gold, With(bags, p, bags[p] \ {item}), mails)
              /\ w.lost \ {item} \subseteq thrown /\ w.s.auction = settled.auction
              /\ ok /\ item # None => Loose(w.s, item, {})
  <2>1. CASE item = None
    <3>1. Ran(w0, MoveItemFromInventory(item))
      BY <1>2, <2>1 DEF Starting, Ran, MoveItemFromInventory
    <3>2. bags[p] \ {item} = bags[p] /\ With(bags, p, bags[p]) = bags
      BY <1>2, <2>1, AuctionMailAssumption DEF With
    <3>3. Mirrors(w0, G, B, X, gold, With(bags, p, bags[p] \ {item}), mails)
      BY <1>2, <3>2
    <3> QED
      BY <1>2, <2>1, <3>1, <3>3 DEF Holds
  <2>2. CASE item # None
    <3>1. item \in w0.bags[p]
      BY <1>4, <1>8, <2>2
    <3>2. PICK w : /\ Stage(settled, w, K1, Active(phase), ok)
                   /\ Queued(w0, w, Txn({Delete("character_inventory", item)}))
                   /\ Moves(w0, w, p, item) /\ (ok => Loose(w.s, item, {}))
      BY <1>2, <1>4, <3>1, StageMove
    <3>3. Ran(w, MoveItemFromInventory(item))
      BY <1>2, <2>2, <3>2, RanOne DEF MoveItemFromInventory
    <3>4. /\ w.n = lastMail /\ w.gold = w0.gold /\ w.mails = w0.mails
          /\ w.bags = With(w0.bags, p, bags[p] \ {item}) /\ w.lost = thrown \cup {item}
          /\ w.open = {} /\ w.s.auction = settled.auction
      BY <1>2, <1>4, <3>2 DEF Moves, Holds
    <3>5. Mirrors(w, G, B, X, gold, With(bags, p, bags[p] \ {item}), mails)
      BY <1>2, <1>4, <3>4, TracksWith DEF Mirrors
    <3> QED
      BY <3>2, <3>3, <3>4, <3>5
  <2> QED
    BY <2>1, <2>2
<1>14. PICK w1 : /\ Stage(settled, w1, K1, Active(phase), ok)
                 /\ Ran(w1, MoveItemFromInventory(item)) /\ w1.n = lastMail /\ w1.open = {}
                 /\ Mirrors(w1, G, B, X, gold, With(bags, p, bags[p] \ {item}), mails)
                 /\ w1.lost \ {item} \subseteq thrown /\ w1.s.auction = settled.auction
                 /\ ok /\ item # None => Loose(w1.s, item, {})
  BY <1>13
<1>15. PICK w2 : /\ Stage(settled, w2, K1, Active(phase), ok)
                 /\ Queued(w1, w2, InsertMail(d)) /\ Sends(w1, w2, d, Online)
  <2>1. d.id = w1.n + 1
    BY <1>11, <1>12, <1>14
  <2>2. ok /\ d.item # None => Loose(w1.s, d.item, w1.open)
    BY <1>12, <1>14
  <2> QED
    BY <1>2, <1>12, <1>14, <2>1, <2>2, StageMail
<1>16. PICK w3 : /\ Stage(settled, w3, K1, Active(phase), ok)
                 /\ Queued(w2, w3, Txn({SaveGold(p, left)})) /\ Pays(w2, w3, p, left)
  BY <1>2, <1>9, <1>15, StageGold
<1>17. /\ w3.n = id /\ w3.open = {} /\ w3.s.auction = settled.auction
       /\ w3.lost \subseteq thrown /\ w3.gold = With(w1.gold, p, left) /\ w3.bags = w1.bags
       /\ w3.mails = Post(w1.mails, Online, d)
  BY <1>12, <1>14, <1>15, <1>16 DEF Sends, Pays
<1>18. Mirrors(w3, G, B, X, gold', bags', mails')
  <2>1. Tracks(Online, G, gold, w3.gold, gold')
    BY <1>4, <1>8, <1>14, <1>17, TracksWith DEF Mirrors
  <2>2. Tracks(Online, X, mails, w3.mails, mails')
    BY <1>8, <1>14, <1>17, TracksPost DEF Mirrors
  <2> QED
    BY <1>8, <1>14, <1>17, <2>1, <2>2 DEF Mirrors
<1>19. Ran(w3, MoveItemFromInventory(item) \o rest)
  <2>1. CASE item = None
    <3>1. w1.done = <<>>
      BY <1>14, <2>1 DEF Ran, MoveItemFromInventory
    <3>2. Ran(w3, rest)
      BY <1>7, <1>15, <1>16, <3>1, RanOne, RanTwo DEF Starting
    <3> QED
      BY <1>7, <2>1, <3>2 DEF Ran, MoveItemFromInventory
  <2>2. CASE item # None
    <3>1. PICK a : a = Txn({Delete("character_inventory", item)})
      OBVIOUS
    <3>2. MoveItemFromInventory(item) = <<a>>
      BY <2>2, <3>1 DEF MoveItemFromInventory
    <3>3. Ran(w1, <<a>>)
      BY <1>14, <3>2
    <3>4. Ran(w3, <<a, InsertMail(d), Txn({SaveGold(p, left)})>>)
      BY <1>15, <1>16, <3>3, RanTwo, RanThree
    <3> QED
      BY <1>7, <3>2, <3>4, JoinTwo DEF Ran
  <2> QED
    BY <2>1, <2>2
<1>20. Shut(w3, ok)
  BY <1>17 DEF Shut
<1>21. Finishes(w3, MoveItemFromInventory(item) \o rest, ok)
  BY <1>2, <1>8, <1>11, <1>17, <1>19, <1>20 DEF Finishes
<1> QED
  BY <1>1, <1>16, <1>18, <1>21, HandlerKeeps

\* The mails of p are what a login would load.
Own(t, p, own, ok) == ok => Distinct(own) /\ \A y \in own : CurrentMail(t, y, p)

\* What is left of own when the money of m is taken.
MoneyTaken(own, m, m1, box) ==
    m1 = [m EXCEPT !.money = 0, !.state = "changed"] /\ box = (own \ {m}) \cup {m1}

\* What is saved then.
LEMMA MoneyCovers ==
    ASSUME NEW K, NEW n, NEW t, NEW p, NEW own \in SUBSET Mails(K, n), NEW m \in own,
           NEW m1, NEW box, MoneyTaken(own, m, m1, box), NEW ok, Own(t, p, own, ok)
    PROVE  box \in SUBSET Mails(K, n) /\ (ok => Covers(t, p, box))
<1>0. m1 = [m EXCEPT !.money = 0, !.state = "changed"] /\ box = (own \ {m}) \cup {m1}
  BY DEF MoneyTaken
<1>1. /\ m1 \in Mails(K, n) /\ m1.id = m.id /\ m1.receiver = m.receiver /\ m1.state = "changed"
      /\ Updated(Row(m), Saves(m1)) = Row(m1)
  <2>1. Opened(m, m1)
    BY <1>0 DEF Opened
  <2> QED
    BY <2>1, TakenMail
<1>2. m1.item = m.item
  BY <1>0 DEF Mails
<1>3. box \in SUBSET Mails(K, n)
  BY <1>0, <1>1
<1>4. \A y \in own : Row(y) # None
  BY RowIsSome DEF Mails, Rows
<1> HIDE DEF Mails
<1>5. ASSUME ok PROVE Covers(t, p, box)
  <2>0. Distinct(own) /\ \A y \in own : CurrentMail(t, y, p)
    BY <1>5 DEF Own
  <2>1. ASSUME NEW y1 \in box, NEW y2 \in box, y1.id = y2.id PROVE y1 = y2
    <3>1. \A y \in own : y # m => y.id # m1.id
      BY <1>1, <2>0 DEF Distinct
    <3>2. y1 = m1 \/ (y1 \in own /\ y1 # m)
      BY <1>0
    <3>3. y2 = m1 \/ (y2 \in own /\ y2 # m)
      BY <1>0
    <3>4. CASE y1 = m1
      BY <2>1, <3>1, <3>3, <3>4
    <3>5. CASE y1 # m1
      <4>1. y2 # m1
        BY <2>1, <3>1, <3>2, <3>5
      <4> QED
        BY <2>0, <2>1, <3>2, <3>3, <3>5, <4>1 DEF Distinct
    <3> QED
      BY <3>4, <3>5
  <2>2. Distinct(box)
    BY <2>1 DEF Distinct
  <2>3. ASSUME NEW y \in box
        PROVE  /\ y.receiver = p /\ MailedItem(t, y.id) = y.item
               /\ t.mail[y.id] # None /\ t.mail[y.id].receiver = p
               /\ IF y.state = "changed" THEN Updated(t.mail[y.id], Saves(y)) = Row(y)
                  ELSE t.mail[y.id] = Row(y)
    <3>1. CASE y = m1
      <4>1. m.receiver = p /\ t.mail[m.id] = Row(m) /\ MailedItem(t, m.id) = m.item
            /\ Row(m).receiver = m.receiver
        BY <2>0 DEF CurrentMail, Row
      <4> QED
        BY <1>1, <1>2, <1>4, <3>1, <4>1
    <3>2. CASE y # m1
      <4>1. y \in own
        BY <1>0, <3>2
      <4>2. y.receiver = p /\ t.mail[y.id] = Row(y) /\ MailedItem(t, y.id) = y.item
            /\ Row(y).receiver = y.receiver
        BY <2>0, <4>1 DEF CurrentMail, Row
      <4>3. Updated(Row(y), Saves(y)) = Row(y)
        BY RowSaves DEF Row
      <4> QED
        BY <1>4, <4>1, <4>2, <4>3
    <3> QED
      BY <3>1, <3>2
  <2> QED
    BY <2>2, <2>3 DEF Covers
<1> QED
  BY <1>3, <1>5

\* The mails of one who is online are what a login would load.
LEMMA OwnMails ==
    ASSUME NEW ds, NEW K, NEW G, NEW B, NEW X, NEW K1, NEW w, NEW type, NEW open, NEW ok,
           Start(ds, K, G, B, X, K1, w, type, open, ok), NEW p \in Players, online(p)
    PROVE  /\ mails[p] \in SUBSET Mails(K1, lastMail)
           /\ Own(settled, p, mails[p], ok)
<1>1. mails \in Boxes(K1, lastMail)
  BY StartFacts
<1>2. mails[p] \in SUBSET Mails(K1, lastMail)
  BY <1>1 DEF Boxes
<1>3. p \in Active(phase) /\ X[p] = mails[p]
  BY DEF Start, Seen, online, Active
<1>4. ok => Whole(settled, B, X, Active(phase), thrown, {})
  BY DEF Start, Sane
<1>5. ok => Distinct(mails[p]) /\ \A y \in mails[p] : CurrentMail(settled, y, p)
  BY <1>3, <1>4 DEF Whole, Views
<1> QED
  BY <1>2, <1>5 DEF Own

LEMMA TakeMoneyKeeps ==
    ASSUME IInv, NEW p \in Players, NEW m \in mails[p], HandleMailTakeMoney(p, m)
    PROVE  IInv'
<1>1. PICK ds, K, G, B, X, K1, w0, ok : Start(ds, K, G, B, X, K1, w0, "normal", {}, ok)
  BY HandlerStarts
<1> PICK type : type = "normal"
  OBVIOUS
<1>2. /\ lastMail \in Nat /\ lastMail <= MaxMails /\ Active(phase) \subseteq Players
      /\ house = settled.auction
      /\ Stage(settled, w0, K1, Active(phase), ok) /\ Starting(w0)
      /\ Holds(w0, lastMail, settled, G, B, X, thrown, {})
      /\ Mirrors(w0, G, B, X, gold, bags, mails)
      /\ gold \in [Players -> Nat] /\ dirty \in [Players -> BOOLEAN]
  BY <1>1, StartFacts DEF Mirrors, Holds
<1>3. online(p)
  BY DEF HandleMailTakeMoney, ready
<1>4. p \in Online /\ p \in Active(phase)
  BY <1>1, <1>3, StartOnline
<1>5. /\ mails[p] \in SUBSET Mails(K1, lastMail)
      /\ Own(settled, p, mails[p], ok)
  BY <1>1, <1>3, OwnMails
<1>6. PICK m1 : m1 = [m EXCEPT !.money = 0, !.state = "changed"]
  OBVIOUS
<1>7. PICK box : box = (mails[p] \ {m}) \cup {m1}
  OBVIOUS
<1>8. PICK g : g = ModifyMoney(gold[p], int32(m.money))
  OBVIOUS
<1>9. PICK r : r = Txn({SaveGold(p, g)} \cup SaveMail(box))
  OBVIOUS
<1>10. /\ gold' = With(gold, p, g) /\ mails' = With(mails, p, Saved(box))
       /\ dirty' = [dirty EXCEPT ![p] = FALSE] /\ Request(<<r>>)
       /\ UNCHANGED <<phase, loaded, db, swept, thrown, house, bags, lastMail>>
  BY <1>6, <1>7, <1>8, <1>9 DEF HandleMailTakeMoney, With, world, history
<1>11. g \in Nat
  <2>1. gold[p] \in Nat /\ m.money \in Nat
    BY <1>2, <1>5 DEF Mails
  <2> QED
    BY <1>8, <2>1, PurseStaysNatural
<1>12. box \in SUBSET Mails(K1, lastMail) /\ (ok => Covers(settled, p, box))
  <2>1. MoneyTaken(mails[p], m, m1, box)
    BY <1>6, <1>7 DEF MoneyTaken
  <2> QED
    BY <1>5, <2>1, MoneyCovers
<1>13. w0.n = lastMail /\ w0.s = settled /\ w0.open = {} /\ w0.lost = thrown
  BY <1>2 DEF Holds
<1>14. box \in SUBSET Mails(K1, w0.n) /\ (ok => Covers(w0.s, p, box)) /\ Shut(w0, ok)
  BY <1>12, <1>13 DEF Shut
<1>15. PICK w : /\ Stage(settled, w, K1, Active(phase), ok)
                /\ Queued(w0, w, r) /\ SavesAll(w0, w, p, g, box)
  BY <1>2, <1>9, <1>11, <1>14, StageSave
<1>16. /\ w.n = lastMail /\ w.gold = With(w0.gold, p, g) /\ w.bags = w0.bags
       /\ w.mails = With(w0.mails, p, Saved(box))
       /\ w.lost = thrown /\ w.open = {} /\ w.s.auction = settled.auction
  BY <1>13, <1>15 DEF SavesAll
<1>17. Mirrors(w, G, B, X, gold', bags', mails')
  <2>1. Tracks(Online, G, gold, w.gold, gold')
    BY <1>2, <1>4, <1>10, <1>16, TracksWith DEF Mirrors
  <2>2. Tracks(Online, X, mails, w.mails, mails')
    BY <1>2, <1>4, <1>10, <1>16, TracksWith DEF Mirrors
  <2> QED
    BY <1>2, <1>10, <1>16, <2>1, <2>2 DEF Mirrors
<1>18. Ran(w, <<r>>)
  BY <1>2, <1>15, RanOne
<1>19. dirty' \in [Players -> BOOLEAN]
  BY <1>2, <1>10
<1>20. Finishes(w, <<r>>, ok)
  BY <1>2, <1>10, <1>16, <1>18, <1>19 DEF Finishes, Shut
<1> QED
  BY <1>1, <1>15, <1>17, <1>20, HandlerKeeps

LEMMA WithPosted ==
    ASSUME NEW X, NEW p \in Players, NEW on, NEW d, NEW v
    PROVE  With(Post(X, on, d), p, v) = With(Post(X, on \ {p}, d), p, v)
<1> DEFINE Y == Post(X, on, d)
           Z == Post(X, on \ {p}, d)
<1>1. IsTable(Y, Players) /\ IsTable(Z, Players)
  BY DEF Post, IsTable
<1>2. \A q \in Players : q # p => Y[q] = Z[q]
  BY DEF Post
<1> HIDE DEF Y, Z
<1>3. Y = [q \in Players |-> Y[q]] /\ Z = [q \in Players |-> Z[q]]
  BY <1>1 DEF IsTable
<1>4. With(Y, p, v) = [q \in Players |-> IF q = p THEN v ELSE Y[q]]
  BY <1>3 DEF With
<1>5. With(Z, p, v) = [q \in Players |-> IF q = p THEN v ELSE Z[q]]
  BY <1>3 DEF With
<1>6. With(Y, p, v) = With(Z, p, v)
  BY <1>2, <1>4, <1>5
<1> QED
  BY <1>6 DEF Y, Z

LEMMA SentOne == \A d : Sent({d}) = <<InsertMail(d)>> /\ Cardinality({d}) = 1
BY FS_Singleton DEF Sent

LEMMA SentNone == Sent({}) = <<>> /\ Cardinality({}) = 0
BY FS_EmptySet DEF Sent

LEMMA TakeItemKeeps ==
    ASSUME IInv, NEW p \in Players, NEW m \in mails[p], HandleMailTakeItem(p, m)
    PROVE  IInv'
<1>1. PICK ds, K, G, B, X, K1, w0, ok : Start(ds, K, G, B, X, K1, w0, "normal", {}, ok)
  BY HandlerStarts
<1> PICK type : type = "normal"
  OBVIOUS
<1>2. /\ K1 \in Kinds /\ lastMail \in Nat /\ lastMail <= MaxMails
      /\ Active(phase) \subseteq Players
      /\ house = settled.auction
      /\ Stage(settled, w0, K1, Active(phase), ok) /\ Starting(w0)
      /\ Holds(w0, lastMail, settled, G, B, X, thrown, {})
      /\ Mirrors(w0, G, B, X, gold, bags, mails)
      /\ gold \in [Players -> Nat] /\ dirty \in [Players -> BOOLEAN]
      /\ mails \in Boxes(K1, lastMail)
  BY <1>1, StartFacts DEF Mirrors, Holds
<1>3. online(p)
  BY DEF HandleMailTakeItem, ready
<1>4. p \in Online /\ p \in Active(phase)
  BY <1>1, <1>3, StartOnline
<1>5. m \in Mails(K1, lastMail)
  BY <1>1, <1>3, OwnMails
<1>6. PICK m1 : m1 = [m EXCEPT !.item = None, !.cod = 0, !.state = "changed"]
  OBVIOUS
<1>7. PICK box : box = (mails[p] \ {m}) \cup {m1}
  OBVIOUS
<1>8. PICK left : left = gold[p] - m.cod
  OBVIOUS
<1>9. PICK d : d = Draft(NewId(1), "normal", p, m.sender, m.cod, 0, None)
  OBVIOUS
<1>10. PICK payment : payment = IF m.cod = 0 THEN {} ELSE {d}
  OBVIOUS
<1>11. PICK r : r = Txn(TakeStatements(p, m.item, left) \cup SaveMail(box))
  OBVIOUS
<1>12. PICK x1 : x1 = IF m.cod = 0 THEN mails ELSE Post(mails, Online \ {p}, d)
  OBVIOUS
<1>13. /\ m.item # None /\ gold[p] >= m.cod
       /\ GenerateMailID(Cardinality(payment))
       /\ gold' = With(gold, p, left) /\ bags' = With(bags, p, bags[p] \cup {m.item})
       /\ mails' = With(Received(payment), p, Saved(box))
       /\ dirty' = [dirty EXCEPT ![p] = FALSE] /\ Request(Sent(payment) \o <<r>>)
       /\ UNCHANGED <<phase, loaded, db, swept, thrown, house>>
  BY <1>6, <1>7, <1>8, <1>9, <1>10, <1>11
     DEF HandleMailTakeItem, SaveTaken, TakeStatements, CanPay, With, world, history
<1>14. left \in Nat /\ m.cod \in Nat /\ m.id <= lastMail
  BY <1>2, <1>5, <1>8, <1>13 DEF Mails
<1>15. mails' = With(x1, p, Saved(box))
  <2>1. CASE m.cod = 0
    <3>1. IsTable(mails, Players)
      BY <1>2 DEF Boxes, IsTable
    <3> QED
      BY <1>10, <1>12, <1>13, <2>1, <3>1, ReceivedNone
  <2>2. CASE m.cod # 0
    BY <1>10, <1>12, <1>13, <2>2, ReceivedOne, WithPosted
  <2> QED
    BY <2>1, <2>2
<1>16. \E w : /\ Stage(settled, w, K1, Active(phase), ok)
              /\ Ran(w, Sent(payment)) /\ w.n = lastMail' /\ w.open = {} /\ w.lost \subseteq thrown
              /\ lastMail <= w.n /\ w.n <= MaxMails
              /\ Mirrors(w, G, B, X, gold, bags, x1) /\ w.s.auction = settled.auction
  <2>1. CASE m.cod = 0
    <3>1. payment = {} /\ Sent(payment) = <<>> /\ Cardinality(payment) = 0
      BY <1>10, <2>1, SentNone
    <3>2. lastMail' = lastMail
      BY <1>2, <1>13, <3>1 DEF GenerateMailID
    <3> QED
      BY <1>2, <1>12, <2>1, <3>1, <3>2 DEF Holds, Starting, Ran
  <2>2. CASE m.cod # 0
    <3>1. payment = {d} /\ Sent(payment) = <<InsertMail(d)>> /\ Cardinality(payment) = 1
      BY <1>10, <2>2, SentOne
    <3>2. lastMail' = lastMail + 1 /\ lastMail + 1 <= MaxMails
      BY <1>2, <1>13, <3>1 DEF GenerateMailID
    <3>3. PICK id : id = lastMail + 1
      OBVIOUS
    <3>4. id \in MailIds /\ K1[id] = "normal" /\ id = NewId(1)
      <4>1. OfType(K1, lastMail, "normal")
        BY <1>1 DEF Start
      <4> QED
        BY <1>2, <3>2, <3>3, <4>1, AuctionMailAssumption DEF MailIds, OfType, NewId
    <3>5. m.sender \in Players
      <4>1. Row(m) \in Rows(K1[m.id]) /\ Row(m).cod = m.cod /\ Row(m).sender = m.sender
            /\ Row(m).messageType = m.messageType
        BY <1>5 DEF Mails, Row
      <4> QED
        BY <1>14, <2>2, <4>1 DEF Rows
    <3>6. /\ d \in Mails(K1, d.id) /\ d.id = id /\ d.id \in MailIds /\ d.item = None
          /\ d.receiver = m.sender
      BY <1>2, <1>9, <1>14, <3>4, <3>5, Drafted
    <3>7. w0.n = lastMail /\ w0.s = settled /\ w0.open = {} /\ w0.lost = thrown
      BY <1>2 DEF Holds
    <3>8. d.id = w0.n + 1 /\ (ok /\ d.item # None => Loose(w0.s, d.item, w0.open))
      BY <3>3, <3>6, <3>7
    <3>9. PICK on1 : on1 = Online \ {p}
      OBVIOUS
    <3>10. PICK w : /\ Stage(settled, w, K1, Active(phase), ok)
                    /\ Queued(w0, w, InsertMail(d)) /\ Sends(w0, w, d, on1)
      BY <1>2, <3>6, <3>8, StageMail
    <3>11. /\ w.n = id /\ w.gold = w0.gold /\ w.bags = w0.bags /\ w.mails = Post(w0.mails, on1, d)
           /\ w.lost \subseteq thrown /\ w.open = {} /\ w.s.auction = settled.auction
      BY <3>6, <3>7, <3>10 DEF Sends
    <3>12. Ran(w, Sent(payment))
      BY <1>2, <3>1, <3>10, RanOne
    <3>13. Tracks(Online, X, mails, w.mails, x1)
      BY <1>2, <1>12, <2>2, <3>9, <3>11, TracksPost DEF Mirrors
    <3>14. Mirrors(w, G, B, X, gold, bags, x1)
      BY <1>2, <3>11, <3>13 DEF Mirrors
    <3> QED
      BY <1>2, <3>2, <3>3, <3>10, <3>11, <3>12, <3>14
  <2> QED
    BY <2>1, <2>2
<1>17. PICK w1 : /\ Stage(settled, w1, K1, Active(phase), ok)
                 /\ Ran(w1, Sent(payment)) /\ w1.n = lastMail' /\ w1.open = {}
                 /\ w1.lost \subseteq thrown /\ lastMail <= w1.n /\ w1.n <= MaxMails
                 /\ Mirrors(w1, G, B, X, gold, bags, x1) /\ w1.s.auction = settled.auction
  BY <1>16
<1>18. w1.mails[p] = mails[p] /\ w1.bags[p] = bags[p]
  <2>1. x1[p] = mails[p]
    BY <1>12 DEF Post
  <2> QED
    BY <1>4, <1>17, <2>1 DEF Mirrors, Tracks
<1>19. Rest(w1.mails, p, m, m1) = box
  BY <1>7, <1>18 DEF Rest
<1>20. PICK w2 : /\ Stage(settled, w2, K1, Active(phase), ok)
                 /\ Queued(w1, w2, r) /\ Takes(w1, w2, p, m, m1, left)
  <2>1. Emptied(m, m1) /\ Shut(w1, ok) /\ m \in w1.mails[p]
    BY <1>6, <1>17, <1>18 DEF Emptied, Shut
  <2>2. PICK w2 : /\ Stage(settled, w2, K1, Active(phase), ok)
                  /\ Queued(w1, w2, Txn(TakeStatements(p, m.item, left)
                                          \cup SaveMail(Rest(w1.mails, p, m, m1))))
                  /\ Takes(w1, w2, p, m, m1, left)
    BY <1>2, <1>4, <1>13, <1>14, <1>17, <2>1, StageTake
  <2> QED
    BY <1>11, <1>19, <2>2
<1>21. /\ w2.n = w1.n /\ w2.gold = With(w1.gold, p, left)
       /\ w2.bags = With(w1.bags, p, bags[p] \cup {m.item})
       /\ w2.mails = With(w1.mails, p, Saved(box))
       /\ w2.lost \subseteq thrown /\ w2.open = {} /\ w2.s.auction = settled.auction
  BY <1>17, <1>18, <1>19, <1>20 DEF Takes
<1>22. Mirrors(w2, G, B, X, gold', bags', mails')
  <2>1. Tracks(Online, G, gold, w2.gold, gold')
    BY <1>4, <1>13, <1>17, <1>21, TracksWith DEF Mirrors
  <2>2. Tracks(Online, B, bags, w2.bags, bags')
    BY <1>4, <1>13, <1>17, <1>21, TracksWith DEF Mirrors
  <2>3. Tracks(Online, X, mails, w2.mails, mails')
    BY <1>4, <1>15, <1>17, <1>21, TracksWith DEF Mirrors
  <2> QED
    BY <2>1, <2>2, <2>3 DEF Mirrors
<1>23. Ran(w2, Sent(payment) \o <<r>>)
  BY <1>17, <1>20 DEF Ran, Queued
<1>24. dirty' \in [Players -> BOOLEAN]
  BY <1>2, <1>13
<1>25. Finishes(w2, Sent(payment) \o <<r>>, ok)
  BY <1>2, <1>13, <1>17, <1>21, <1>23, <1>24 DEF Finishes, Shut
<1> QED
  BY <1>1, <1>20, <1>22, <1>25, HandlerKeeps

LEMMA ReturnedDraft ==
    ASSUME NEW K, NEW n, NEW d \in Mails(K, n), NEW back, back = [d EXCEPT !.returned = TRUE]
    PROVE  /\ back \in Mails(K, n) /\ back.id = d.id /\ back.item = d.item
           /\ back.receiver = d.receiver
<1> DEFINE R == [id : MailIds, messageType : {"normal", "auction"}, sender : Players \cup {None},
                 receiver : Players, money : Nat, cod : Nat, returned : BOOLEAN,
                 item : Items \cup {None}, state : {"unchanged", "changed", "deleted"}]
<1>1. d \in R /\ d.id <= n /\ Row(d) \in Rows(K[d.id])
  BY DEF Mails
<1>2. /\ back.id = d.id /\ back.messageType = d.messageType /\ back.sender = d.sender
      /\ back.receiver = d.receiver /\ back.money = d.money /\ back.cod = d.cod
      /\ back.returned = TRUE /\ back.item = d.item
  BY <1>1
<1>3. back \in R
  BY <1>1
<1>4. Row(back) \in Rows(K[back.id])
  BY <1>1, <1>2 DEF Row, Rows, MailRow
<1> QED
  BY <1>1, <1>2, <1>3, <1>4 DEF Mails

LEMMA PostedWithout ==
    ASSUME NEW X, IsTable(X, Players), NEW p \in Players, NEW on, NEW d, NEW m, m # d
    PROVE  With(Post(X, on, d), p, Post(X, on, d)[p] \ {m}) = Post(With(X, p, X[p] \ {m}), on, d)
<1> DEFINE Y == Post(X, on, d)
           Z == With(X, p, X[p] \ {m})
<1>1. Y = [q \in Players |-> X[q] \cup {x \in {d} : x.receiver = q /\ q \in on}]
  BY DEF Post
<1>2. Z[p] = X[p] \ {m} /\ \A q \in Players : q # p => Z[q] = X[q]
  BY WithRows
<1>3. With(Y, p, Y[p] \ {m}) = [q \in Players |-> IF q = p THEN Y[p] \ {m} ELSE Y[q]]
  BY <1>1 DEF With
<1>4. ASSUME NEW q \in Players
      PROVE  (IF q = p THEN Y[p] \ {m} ELSE Y[q])
             = Z[q] \cup {x \in {d} : x.receiver = q /\ q \in on}
  <2> DEFINE S == {x \in {d} : x.receiver = q /\ q \in on}
  <2>1. m \notin S /\ Y[q] = X[q] \cup S
    BY <1>1
  <2>2. Z[q] = IF q = p THEN X[p] \ {m} ELSE X[q]
    BY <1>2
  <2> HIDE DEF S, Y, Z
  <2>3. (IF q = p THEN Y[p] \ {m} ELSE Y[q]) = Z[q] \cup S
    <3>1. CASE q = p
      BY <2>1, <2>2, <3>1
    <3>2. CASE q # p
      BY <2>1, <2>2, <3>2
    <3> QED
      BY <3>1, <3>2
  <2> QED
    BY <2>3 DEF S
<1> HIDE DEF Y, Z
<1>5. With(Y, p, Y[p] \ {m}) = Post(Z, on, d)
  BY <1>3, <1>4 DEF Post
<1> QED
  BY <1>5 DEF Y, Z

LEMMA ReturnKeeps ==
    ASSUME IInv, NEW p \in Players, NEW m \in mails[p], HandleMailReturnToSender(p, m)
    PROVE  IInv'
<1>1. PICK ds, K, G, B, X, K1, w0, ok : Start(ds, K, G, B, X, K1, w0, "normal", {}, ok)
  BY HandlerStarts
<1> PICK type : type = "normal"
  OBVIOUS
<1>2. /\ K1 \in Kinds /\ lastMail \in Nat /\ lastMail <= MaxMails
      /\ Active(phase) \subseteq Players
      /\ house = settled.auction
      /\ Stage(settled, w0, K1, Active(phase), ok) /\ Starting(w0)
      /\ Holds(w0, lastMail, settled, G, B, X, thrown, {})
      /\ Mirrors(w0, G, B, X, gold, bags, mails)
      /\ gold \in [Players -> Nat] /\ dirty \in [Players -> BOOLEAN]
      /\ mails \in Boxes(K1, lastMail)
  BY <1>1, StartFacts DEF Mirrors, Holds
<1>3. online(p)
  BY DEF HandleMailReturnToSender, ready
<1>4. p \in Online /\ p \in Active(phase) /\ w0.mails[p] = mails[p]
  BY <1>1, <1>3, StartOnline
<1>5. m \in Mails(K1, lastMail) /\ m.id <= lastMail /\ IsTable(mails, Players)
  <2>1. m \in Mails(K1, lastMail)
    BY <1>1, <1>3, OwnMails
  <2> QED
    BY <1>2, <2>1 DEF Mails, IsTable, Boxes
<1>6. PICK d : d = Draft(NewId(1), "normal", p, m.sender, m.money, 0, m.item)
  OBVIOUS
<1>7. PICK back : back = [d EXCEPT !.returned = TRUE]
  OBVIOUS
<1>8. PICK sent : sent = IF m.messageType = "normal" THEN {back} ELSE {}
  OBVIOUS
<1>9. PICK r : r = Txn({Delete("mail", m.id), Unlink(m.id)})
  OBVIOUS
<1>10. PICK own : own = With(mails, p, mails[p] \ {m})
  OBVIOUS
<1>11. /\ GenerateMailID(Cardinality(sent))
       /\ mails' = With(Received(sent), p, Received(sent)[p] \ {m})
       /\ Request(<<r>> \o Sent(sent))
       /\ thrown' = (IF sent = {} THEN thrown \cup {m.item} ELSE thrown)
       /\ UNCHANGED <<phase, loaded, db, swept, house, gold, bags, dirty>>
  BY <1>6, <1>7, <1>8, <1>9 DEF HandleMailReturnToSender, With, characters
<1>12. PICK w1 : /\ Stage(settled, w1, K1, Active(phase), ok)
                 /\ Queued(w0, w1, r) /\ Removed(w0, w1, p, m)
                 /\ (ok /\ m.item # None => Loose(w1.s, m.item, {}))
  <2>1. Shut(w0, ok) /\ m \in w0.mails[p]
    BY <1>2, <1>4 DEF Holds, Shut
  <2> QED
    BY <1>2, <1>4, <1>9, <2>1, StageRemove
<1>13. /\ w1.n = lastMail /\ w1.gold = w0.gold /\ w1.bags = w0.bags
       /\ w1.mails = With(w0.mails, p, mails[p] \ {m})
       /\ w1.lost = thrown \cup {m.item} /\ w1.open = {} /\ w1.s.auction = settled.auction
  BY <1>2, <1>4, <1>12 DEF Removed, Holds
<1>14. Mirrors(w1, G, B, X, gold, bags, own)
  BY <1>2, <1>4, <1>10, <1>13, TracksWith DEF Mirrors
<1>15. Ran(w1, <<r>>)
  BY <1>2, <1>12, RanOne
<1>16. CASE m.messageType # "normal"
  <2>1. sent = {} /\ Sent(sent) = <<>> /\ Cardinality(sent) = 0
    BY <1>8, <1>16, SentNone
  <2>2. lastMail' = lastMail
    BY <1>2, <1>11, <2>1 DEF GenerateMailID
  <2>3. mails' = own
    BY <1>5, <1>10, <1>11, <2>1, ReceivedNone
  <2>4. Mirrors(w1, G, B, X, gold', bags', mails')
    BY <1>11, <1>14, <2>3
  <2>5. <<r>> \o Sent(sent) = <<r>>
    BY <2>1, JoinNone
  <2>6. Ran(w1, <<r>> \o Sent(sent))
    BY <1>15, <2>5
  <2>7. Finishes(w1, <<r>> \o Sent(sent), ok)
    BY <1>2, <1>11, <1>13, <2>1, <2>2, <2>6 DEF Finishes, Shut
  <2> QED
    BY <1>1, <1>12, <2>4, <2>7, HandlerKeeps
<1>17. CASE m.messageType = "normal"
  <2>1. sent = {back} /\ Sent(sent) = <<InsertMail(back)>> /\ Cardinality(sent) = 1
    BY <1>8, <1>17, SentOne
  <2>2. lastMail' = lastMail + 1 /\ lastMail + 1 <= MaxMails
    BY <1>2, <1>11, <2>1 DEF GenerateMailID
  <2>3. PICK id : id = lastMail + 1
    OBVIOUS
  <2>4. id \in MailIds /\ K1[id] = "normal" /\ id = NewId(1)
    <3>1. OfType(K1, lastMail, "normal")
      BY <1>1 DEF Start
    <3> QED
      BY <1>2, <2>2, <2>3, <3>1, AuctionMailAssumption DEF MailIds, OfType, NewId
  <2>5. m.sender \in Players /\ m.money \in Nat /\ m.item \in Items \cup {None}
    <3>1. /\ Row(m) \in Rows(K1[m.id]) /\ Row(m).sender = m.sender
          /\ Row(m).messageType = m.messageType
          /\ m.money \in Nat /\ m.item \in Items \cup {None}
      BY <1>5 DEF Mails, Row
    <3> QED
      BY <1>17, <3>1 DEF Rows
  <2>6. /\ d \in Mails(K1, d.id) /\ d.id = id /\ d.id \in MailIds /\ d.item = m.item
        /\ d.receiver = m.sender
    <3>1. PICK to, money, item : to = m.sender /\ money = m.money /\ item = m.item
      OBVIOUS
    <3>2. d = Draft(id, "normal", p, to, money, 0, item)
      BY <1>6, <2>4, <3>1
    <3>3. to \in Players /\ money \in Nat /\ item \in Items \cup {None}
      BY <2>5, <3>1
    <3>4. /\ d \in Mails(K1, d.id) /\ d.id = id /\ d.id \in MailIds /\ d.item = item
          /\ d.receiver = to
      BY <1>2, <2>4, <3>2, <3>3, Drafted
    <3> QED
      BY <3>1, <3>4
  <2>7. /\ back \in Mails(K1, back.id) /\ back.id = id /\ back.id \in MailIds
        /\ back.item = m.item
    BY <1>7, <2>6, ReturnedDraft
  <2>8. back.id = w1.n + 1 /\ (ok /\ back.item # None => Loose(w1.s, back.item, w1.open))
    BY <1>12, <1>13, <2>3, <2>7
  <2>9. PICK w2 : /\ Stage(settled, w2, K1, Active(phase), ok)
                  /\ Queued(w1, w2, InsertMail(back)) /\ Sends(w1, w2, back, Online)
    BY <1>2, <1>12, <2>7, <2>8, StageMail
  <2>10. /\ w2.n = id /\ w2.gold = w1.gold /\ w2.bags = w1.bags
         /\ w2.mails = Post(w1.mails, Online, back)
         /\ w2.lost \subseteq thrown /\ w2.open = {} /\ w2.s.auction = settled.auction
    BY <1>13, <2>7, <2>9 DEF Sends
  <2>11. Ran(w2, <<r>> \o Sent(sent))
    BY <1>15, <2>1, <2>9 DEF Ran, Queued
  <2>12. mails' = Post(own, Online, back)
    <3>1. m # back
      BY <1>2, <1>5, <2>3, <2>7
    <3>2. Received(sent) = Post(mails, Online, back)
      BY <2>1, ReceivedOne
    <3>3. With(Post(mails, Online, back), p, Post(mails, Online, back)[p] \ {m})
          = Post(With(mails, p, mails[p] \ {m}), Online, back)
      BY <1>5, <3>1, PostedWithout
    <3> QED
      BY <1>10, <1>11, <3>2, <3>3
  <2>13. Mirrors(w2, G, B, X, gold', bags', mails')
    BY <1>11, <1>14, <2>10, <2>12, TracksPost DEF Mirrors
  <2>14. Finishes(w2, <<r>> \o Sent(sent), ok)
    BY <1>2, <1>11, <2>1, <2>2, <2>3, <2>10, <2>11 DEF Finishes, Shut
  <2> QED
    BY <1>1, <2>9, <2>13, <2>14, HandlerKeeps
<1> QED
  BY <1>16, <1>17

\* No request is made.
LEMMA NoRequest ==
    ASSUME NEW K, NEW n \in Nat, NEW s \in Tables(K, n), NEW q, IsSeq(q)
    PROVE  q \o <<>> = q /\ Settled(s, <<>>) = s
<1>1. q \o <<>> = q
  BY DEF IsSeq
<1>2. Len(<<>>) = 0
  OBVIOUS
<1>3. \A k \in 1..Len(<<>>) : SoundRequest(<<>>[k], K, n)
  BY <1>2
<1>4. Passes(Course(s, <<>>), s, <<>>)
  BY <1>2, <1>3, CourseFollows
<1> QED
  BY <1>1, <1>2, <1>4 DEF Passes, Settled

\* A mail with another state.
Marked(own, m, m1, box) ==
    /\ \E state \in {"changed", "deleted"} : m1 = [m EXCEPT !.state = state]
    /\ box = (own \ {m}) \cup {m1}

LEMMA MarkedMails ==
    ASSUME NEW K, NEW n, NEW t, NEW p, NEW own \in SUBSET Mails(K, n), NEW m \in own,
           NEW m1, NEW box, Marked(own, m, m1, box), NEW ok, Own(t, p, own, ok)
    PROVE  box \in SUBSET Mails(K, n) /\ Own(t, p, box, ok)
<1> DEFINE R == [id : MailIds, messageType : {"normal", "auction"}, sender : Players \cup {None},
                 receiver : Players, money : Nat, cod : Nat, returned : BOOLEAN,
                 item : Items \cup {None}, state : {"unchanged", "changed", "deleted"}]
<1>1. m \in R /\ m.id <= n /\ Row(m) \in Rows(K[m.id])
  BY DEF Mails
<1>2. PICK state \in {"changed", "deleted"} : m1 = [m EXCEPT !.state = state]
  BY DEF Marked
<1>3. box = (own \ {m}) \cup {m1}
  BY DEF Marked
<1>4. /\ m1.id = m.id /\ m1.messageType = m.messageType /\ m1.sender = m.sender
      /\ m1.receiver = m.receiver /\ m1.money = m.money /\ m1.cod = m.cod
      /\ m1.returned = m.returned /\ m1.item = m.item
  BY <1>1, <1>2
<1>5. m1 \in R
  BY <1>1, <1>2
<1>6. Row(m1) = Row(m)
  BY <1>4 DEF Row
<1>7. m1 \in Mails(K, n)
  BY <1>1, <1>4, <1>5, <1>6 DEF Mails
<1> HIDE DEF R
<1>8. ASSUME ok PROVE Distinct(box) /\ \A y \in box : CurrentMail(t, y, p)
  <2>0. Distinct(own) /\ \A y \in own : CurrentMail(t, y, p)
    BY <1>8 DEF Own
  <2>1. \A y \in own : y # m => y.id # m1.id
    BY <1>4, <2>0 DEF Distinct
  <2>2. ASSUME NEW y1 \in box, NEW y2 \in box, y1.id = y2.id PROVE y1 = y2
    <3>2. y1 = m1 \/ (y1 \in own /\ y1 # m)
      BY <1>3
    <3>3. y2 = m1 \/ (y2 \in own /\ y2 # m)
      BY <1>3
    <3>4. CASE y1 = m1
      BY <2>1, <2>2, <3>3, <3>4
    <3>5. CASE y1 # m1
      <4>1. y2 # m1
        BY <2>1, <2>2, <3>2, <3>5
      <4> QED
        BY <2>0, <2>2, <3>2, <3>3, <3>5, <4>1 DEF Distinct
    <3> QED
      BY <3>4, <3>5
  <2>3. CurrentMail(t, m1, p)
    BY <1>4, <1>6, <2>0 DEF CurrentMail
  <2> QED
    BY <1>3, <2>0, <2>2, <2>3 DEF Distinct
<1> QED
  BY <1>3, <1>7, <1>8 DEF Own

\* The mails of p become box in memory, and nothing is saved.
LEMMA MemoryKeeps ==
    ASSUME IInv, NEW p \in Players, online(p), NEW m \in mails[p], NEW m1, NEW box,
           Marked(mails[p], m, m1, box), mails' = mails \/ mails' = With(mails, p, box),
           dirty' = [dirty EXCEPT ![p] = TRUE],
           UNCHANGED <<phase, loaded, gold, bags, house, db, queue, settled, lastMail, thrown, swept>>
    PROVE  IInv'
<1>1. PICK ds, K, G, B, X, K1, w0, ok : Start(ds, K, G, B, X, K1, w0, "normal", {}, ok)
  BY HandlerStarts
<1> PICK type : type = "normal"
  OBVIOUS
<1>2. /\ K1 \in Kinds /\ lastMail \in Nat /\ lastMail <= MaxMails
      /\ Active(phase) \subseteq Players
      /\ house = settled.auction /\ settled \in Tables(K1, lastMail)
      /\ Stage(settled, w0, K1, Active(phase), ok) /\ Starting(w0)
      /\ Holds(w0, lastMail, settled, G, B, X, thrown, {})
      /\ Mirrors(w0, G, B, X, gold, bags, mails)
      /\ G \in [Players -> Nat] /\ B \in [Players -> SUBSET Items] /\ X \in Boxes(K1, lastMail)
      /\ dirty \in [Players -> BOOLEAN]
  BY <1>1, StartFacts DEF Mirrors, Holds
<1>3. p \in Online /\ p \in Active(phase) /\ w0.mails[p] = mails[p]
  BY <1>1, StartOnline
<1>4. mails[p] \in SUBSET Mails(K1, lastMail) /\ Own(settled, p, mails[p], ok)
  BY <1>1, OwnMails
<1>5. box \in SUBSET Mails(K1, lastMail) /\ Own(settled, p, box, ok)
  BY <1>4, MarkedMails
<1>6. IsSeq(queue) /\ ok = ~swept
      /\ Sane(ds, G, B, X, queue, settled, Active(phase), thrown, swept)
  BY <1>1 DEF Start, Backlog
<1>7. queue = queue \o <<>> /\ Settled(settled, <<>>) = settled
  BY <1>2, <1>6, NoRequest
<1>8. Request(<<>>)
  BY <1>7 DEF Request
<1>9. dirty' \in [Players -> BOOLEAN]
  BY <1>2
<1>10. CASE mails' = mails
  <2>1. Mirrors(w0, G, B, X, gold', bags', mails')
    BY <1>2, <1>10
  <2>2. Finishes(w0, <<>>, ok)
    BY <1>2, <1>8, <1>9 DEF Finishes, Shut, Holds, Starting, Ran
  <2> QED
    BY <1>1, <1>2, <2>1, <2>2, HandlerKeeps
<1>11. CASE mails' = With(mails, p, box)
  <2>1. PICK X1 : X1 = With(X, p, box)
    OBVIOUS
  <2>2. X1 \in Boxes(K1, lastMail)
    BY <1>2, <1>3, <1>5, <2>1 DEF Boxes, With
  <2>3. X1[p] = box /\ \A q \in Players : q # p => X1[q] = X[q]
    <3>1. IsTable(X, Players)
      BY <1>2 DEF Boxes, IsTable
    <3> QED
      BY <2>1, <3>1, WithRows
  <2>4. ok => Whole(settled, B, X1, Active(phase), thrown, {})
    <3>1. ok => Whole(settled, B, X, Active(phase), thrown, {})
      BY <1>6 DEF Sane
    <3>2. ok => Views(settled, B, X1, Active(phase))
      BY <1>2, <1>5, <2>3, <3>1 DEF Whole, Views, Own
    <3> QED
      BY <3>1, <3>2 DEF Whole
  <2>5. \A q \in Active(phase) : G[q] = settled.money[q]
    BY <1>6 DEF Sane
  <2>6. PICK w : /\ Stage(settled, w, K1, Active(phase), ok)
                 /\ Starting(w) /\ Holds(w, lastMail, settled, G, B, X1, thrown, {})
    BY <1>2, <2>2, <2>4, <2>5, Begins
  <2>7. Mirrors(w, G, B, X, gold', bags', mails')
    <3>1. w.gold = w0.gold /\ w.bags = w0.bags /\ w.mails = With(w0.mails, p, box)
      BY <1>2, <2>1, <2>6 DEF Holds
    <3> QED
      BY <1>2, <1>3, <1>11, <3>1, TracksWith DEF Mirrors
  <2>8. Finishes(w, <<>>, ok)
    BY <1>2, <1>8, <1>9, <2>6 DEF Finishes, Shut, Holds, Starting, Ran
  <2> QED
    BY <1>1, <2>6, <2>7, <2>8, HandlerKeeps
<1> QED
  BY <1>10, <1>11

LEMMA MarkAsReadKeeps ==
    ASSUME IInv, NEW p \in Players, NEW m \in mails[p], HandleMailMarkAsRead(p, m)
    PROVE  IInv'
<1>1. PICK m1 : m1 = [m EXCEPT !.state = "changed"]
  OBVIOUS
<1>2. PICK box : box = (mails[p] \ {m}) \cup {m1}
  OBVIOUS
<1>3. Marked(mails[p], m, m1, box)
  BY <1>1, <1>2 DEF Marked
<1>4. online(p) /\ mails' = With(mails, p, box)
  BY <1>1, <1>2 DEF HandleMailMarkAsRead, ready, With
<1>5. /\ dirty' = [dirty EXCEPT ![p] = TRUE]
      /\ UNCHANGED <<phase, loaded, gold, bags, house, db, queue, settled, lastMail, thrown, swept>>
  BY DEF HandleMailMarkAsRead, characters, requests, history
<1> QED
  BY <1>3, <1>4, <1>5, MemoryKeeps

LEMMA DeleteKeeps ==
    ASSUME IInv, NEW p \in Players, NEW m \in mails[p], HandleMailDelete(p, m)
    PROVE  IInv'
<1>1. PICK m1 : m1 = [m EXCEPT !.state = "deleted"]
  OBVIOUS
<1>2. PICK box : box = (mails[p] \ {m}) \cup {m1}
  OBVIOUS
<1>3. Marked(mails[p], m, m1, box)
  BY <1>1, <1>2 DEF Marked
<1>4. online(p) /\ (mails' = mails \/ mails' = With(mails, p, box))
  BY <1>1, <1>2 DEF HandleMailDelete, ready, With
<1>5. /\ dirty' = [dirty EXCEPT ![p] = TRUE]
      /\ UNCHANGED <<phase, loaded, gold, bags, house, db, queue, settled, lastMail, thrown, swept>>
  BY DEF HandleMailDelete, characters, requests, history
<1> QED
  BY <1>3, <1>4, <1>5, MemoryKeeps

LEMMA SellKeeps ==
    ASSUME IInv, NEW p \in Players, NEW i \in Items, NEW startbid \in Nat, NEW buyout \in Nat,
           HandleAuctionSellItem(p, i, startbid, buyout)
    PROVE  IInv'
<1>1. PICK ds, K, G, B, X, K1, w0, ok : Start(ds, K, G, B, X, K1, w0, "auction", {}, ok)
  BY HandlerStarts
<1>2. /\ K1 \in Kinds /\ lastMail \in Nat /\ lastMail <= MaxMails
      /\ Active(phase) \subseteq Players
      /\ house = settled.auction
      /\ Stage(settled, w0, K1, Active(phase), ok) /\ Starting(w0)
      /\ Holds(w0, lastMail, settled, G, B, X, thrown, {})
      /\ Mirrors(w0, G, B, X, gold, bags, mails)
      /\ gold \in [Players -> Nat] /\ dirty \in [Players -> BOOLEAN]
  BY <1>1, StartFacts DEF Mirrors, Holds
<1>3. online(p)
  BY DEF HandleAuctionSellItem, ready
<1>4. p \in Online /\ p \in Active(phase) /\ w0.bags[p] = bags[p]
  BY <1>1, <1>3, StartOnline
<1>5. PICK a : a = [owner |-> p, startbid |-> startbid, buyout |-> buyout, bid |-> 0,
                    bidder |-> None]
  OBVIOUS
<1>6. a \in Auction
  BY <1>5 DEF Auction
<1>7. PICK g : g = gold[p] - Deposit[i]
  OBVIOUS
<1>8. PICK r : r = Txn({Delete("character_inventory", i), Put("auction", i, a), SaveGold(p, g)})
  OBVIOUS
<1>9. /\ i \in bags[p] /\ gold[p] >= Deposit[i]
      /\ gold' = With(gold, p, g) /\ bags' = With(bags, p, bags[p] \ {i})
      /\ house' = With(house, i, a) /\ Request(<<r>>)
      /\ UNCHANGED <<phase, loaded, db, swept, thrown, mails, dirty, lastMail>>
  BY <1>5, <1>7, <1>8 DEF HandleAuctionSellItem, CanPay, With, world, history
<1>10. g \in Nat
  BY <1>2, <1>7, <1>9, AuctionMailAssumption
<1>11. i \in w0.bags[p]
  BY <1>4, <1>9
<1>12. PICK w : /\ Stage(settled, w, K1, Active(phase), ok)
                /\ Queued(w0, w, r) /\ Trades(w0, w, p, i, g, a) /\ Sold(w0, w, p, i)
  BY <1>2, <1>4, <1>6, <1>8, <1>10, <1>11, StageSell
<1>13. /\ w.n = lastMail /\ w.gold = With(w0.gold, p, g)
       /\ w.bags = With(w0.bags, p, bags[p] \ {i}) /\ w.mails = w0.mails
       /\ w.lost = thrown /\ w.open = {} /\ w.s.auction = house'
  BY <1>2, <1>4, <1>9, <1>12 DEF Trades, Holds, Sold
<1>14. Mirrors(w, G, B, X, gold', bags', mails')
  <2>1. Tracks(Online, G, gold, w.gold, gold')
    BY <1>2, <1>4, <1>9, <1>13, TracksWith DEF Mirrors
  <2>2. Tracks(Online, B, bags, w.bags, bags')
    BY <1>2, <1>4, <1>9, <1>13, TracksWith DEF Mirrors
  <2> QED
    BY <1>2, <1>9, <1>13, <2>1, <2>2 DEF Mirrors
<1>15. Ran(w, <<r>>)
  BY <1>2, <1>12, RanOne
<1>16. Finishes(w, <<r>>, ok)
  BY <1>2, <1>9, <1>13, <1>15 DEF Finishes, Shut
<1> QED
  BY <1>1, <1>12, <1>14, <1>16, HandlerKeeps

\* How far a handler of the auction house is.
At(w, G, B, X, g, b, x, n, open) ==
    /\ Mirrors(w, G, B, X, g, b, x) /\ w.n = n /\ w.open = open
    /\ w.lost \subseteq thrown /\ w.s.auction = house

\* The item that a mail takes is nowhere else.
MayCarry(w, item, C, ok) == ok /\ item # None => Loose(w.s, item, C)

\* A letter of the auction house.
LEMMA LetterSent ==
    ASSUME NEW K1 \in Kinds, OfType(K1, lastMail, "auction"), NEW A \in SUBSET Players, NEW ok,
           NEW w, Stage(settled, w, K1, A, ok),
           NEW G, NEW B, NEW X, NEW g, NEW b, NEW x, NEW n \in Nat, NEW open,
           At(w, G, B, X, g, b, x, n, open),
           lastMail \in Nat, lastMail <= n, NEW id, id = n + 1, id <= MaxMails,
           NEW to \in Players, NEW money \in Nat, NEW item \in Items \cup {None},
           NEW d, d = AuctionLetter(id, to, money, item),
           MayCarry(w, item, open, ok)
    PROVE  \E w1 : /\ Stage(settled, w1, K1, A, ok) /\ Queued(w, w1, InsertMail(d))
                   /\ At(w1, G, B, X, g, b, Post(x, Online, d), id, open)
                   /\ Sends(w, w1, d, Online)
<1>1. id \in MailIds /\ K1[id] = "auction" /\ id > lastMail
  BY AuctionMailAssumption DEF MailIds, OfType
<1>2. PICK from : from = None
  OBVIOUS
<1>3. d = Draft(id, "auction", from, to, money, 0, item)
  BY <1>2 DEF AuctionLetter
<1>4. /\ d \in Mails(K1, d.id) /\ d.id = id /\ d.id \in MailIds /\ d.item = item
      /\ d.receiver = to
  BY <1>1, <1>2, <1>3, Drafted
<1>5. d.id = w.n + 1 /\ (ok /\ d.item # None => Loose(w.s, d.item, w.open))
  BY <1>4 DEF At, MayCarry
<1>6. PICK w1 : /\ Stage(settled, w1, K1, A, ok)
                /\ Queued(w, w1, InsertMail(d)) /\ Sends(w, w1, d, Online)
  BY <1>4, <1>5, StageMail
<1>7. /\ w1.n = id /\ w1.gold = w.gold /\ w1.bags = w.bags /\ w1.mails = Post(w.mails, Online, d)
      /\ w1.lost \subseteq thrown /\ w1.open = open /\ w1.s.auction = house
  BY <1>4, <1>6 DEF Sends, At
<1>8. Tracks(Online, X, mails, w1.mails, Post(x, Online, d))
  BY <1>7, TracksPost DEF At, Mirrors
<1>9. At(w1, G, B, X, g, b, Post(x, Online, d), id, open)
  BY <1>7, <1>8 DEF At, Mirrors
<1> QED
  BY <1>6, <1>9

LEMMA LooseStill ==
    ASSUME NEW w, NEW w1, NEW d, NEW on, Sends(w, w1, d, on), d.item = None, NEW i, NEW C,
           Loose(w.s, i, C)
    PROVE  Loose(w1.s, i, C)
BY DEF Sends, Loose, Exists

\* The item of an auction is nowhere else.
LEMMA LooseOnSale ==
    ASSUME NEW t, NEW B, NEW X, NEW A, NEW lost, NEW ok, ok => Whole(t, B, X, A, lost, {}),
           NEW i \in Items, t.auction[i] # None
    PROVE  ok => Loose(t, i, {i})
BY DEF Whole, OneHand, Placed, Loose

LEMMA CutIsLess ==
    ASSUME NEW price \in Nat PROVE GetAuctionCut(price) \in Nat /\ GetAuctionCut(price) <= price
<1> DEFINE q == price \div CutShare
<1>1. CutShare \in Nat /\ CutShare >= 1
  BY AuctionMailAssumption
<1>2. q \in Nat /\ CutShare * q <= price
  BY <1>1
<1>3. q <= CutShare * q
  BY <1>1, <1>2
<1>4. CutShare * q \in Nat
  BY <1>1, <1>2
<1> HIDE DEF q
<1>5. q \in Nat /\ q <= price
  BY <1>2, <1>3, <1>4
<1> QED
  BY <1>5 DEF q, GetAuctionCut

\* The letters to the seller and to the winner of auction a of item i.
Wins(i, a, k, d1, d2) ==
    \A save : LET win == BidWinning(i, a, k, save)
              IN /\ win.drafts = {d1, d2}
                 /\ win.requests = <<InsertMail(d1), InsertMail(d2), Txn({Delete("auction", i)} \cup save)>>

InMail(w, i, ok) == ok => w.s.mail_items[i] # None

\* From w to w2 both letters are sent.
Won(w, w2, i, a, k, d1, d2, ok) ==
    /\ Wins(i, a, k, d1, d2) /\ InMail(w2, i, ok)
    /\ \E w1 : Queued(w, w1, InsertMail(d1)) /\ Queued(w1, w2, InsertMail(d2))

LEMMA Winning ==
    ASSUME NEW K1 \in Kinds, OfType(K1, lastMail, "auction"), NEW A \in SUBSET Players, NEW ok,
           NEW w, Stage(settled, w, K1, A, ok),
           NEW G, NEW B, NEW X, NEW g, NEW b, NEW x, NEW k \in Nat, NEW i \in Items,
           lastMail \in Nat, NEW n, n = lastMail + k,
           NEW open, At(w, G, B, X, g, b, x, n, open), NEW n2, n2 = n + 2, n2 <= MaxMails,
           NEW a \in Auction, NEW to \in Players, to = a.bidder, MayCarry(w, i, open, ok)
    PROVE  \E d1, d2, w2 :
              /\ Stage(settled, w2, K1, A, ok) /\ Won(w, w2, i, a, k, d1, d2, ok)
              /\ At(w2, G, B, X, g, b, Post(Post(x, Online, d1), Online, d2), n2, open)
<1>1. PICK profit : profit = a.bid + Deposit[i] - GetAuctionCut(a.bid)
  OBVIOUS
<1>2. profit \in Nat /\ a.owner \in Players
  <2>1. a.bid \in Nat /\ Deposit[i] \in Nat /\ a.owner \in Players
    BY AuctionMailAssumption DEF Auction
  <2>2. GetAuctionCut(a.bid) \in Nat /\ GetAuctionCut(a.bid) <= a.bid
    BY <2>1, CutIsLess
  <2> QED
    BY <1>1, <2>1, <2>2
<1>3. PICK id1, id2 : id1 = n + 1 /\ id2 = n2
  OBVIOUS
<1>4. NewId(k + 1) = id1 /\ NewId(k + 2) = id2 /\ n \in Nat /\ lastMail <= n
      /\ id1 \in Nat /\ id1 <= MaxMails /\ id2 = id1 + 1 /\ lastMail <= id1 /\ id2 <= MaxMails
  BY <1>3, AuctionMailAssumption DEF NewId
<1>5. PICK d1, d2 : /\ d1 = AuctionLetter(id1, a.owner, profit, None)
                        /\ d2 = AuctionLetter(id2, to, 0, i)
  OBVIOUS
<1>6. Wins(i, a, k, d1, d2)
  BY <1>1, <1>4, <1>5 DEF Wins, BidWinning
<1>7. PICK item : item = None
  OBVIOUS
<1>8. d1 = AuctionLetter(id1, a.owner, profit, item) /\ item \in Items \cup {None}
      /\ MayCarry(w, item, open, ok)
  BY <1>5, <1>7 DEF MayCarry
<1>9. PICK w1 : /\ Stage(settled, w1, K1, A, ok) /\ Queued(w, w1, InsertMail(d1))
                /\ At(w1, G, B, X, g, b, Post(x, Online, d1), id1, open)
                /\ Sends(w, w1, d1, Online)
  BY <1>2, <1>3, <1>4, <1>8, LetterSent
<1>10. d1.item = None /\ d2.item = i
  BY <1>5 DEF AuctionLetter, Draft
<1>12. MayCarry(w1, i, open, ok)
  BY <1>9, <1>10, LooseStill DEF MayCarry
<1>13. PICK x1, money : x1 = Post(x, Online, d1) /\ money = 0
  OBVIOUS
<1>14. At(w1, G, B, X, g, b, x1, id1, open) /\ d2 = AuctionLetter(id2, to, money, i)
       /\ to \in Players /\ money \in Nat
  BY <1>2, <1>5, <1>9, <1>13
<1>15. PICK w2 : /\ Stage(settled, w2, K1, A, ok) /\ Queued(w1, w2, InsertMail(d2))
                 /\ At(w2, G, B, X, g, b, Post(x1, Online, d2), id2, open)
                 /\ Sends(w1, w2, d2, Online)
  BY <1>4, <1>9, <1>12, <1>14, LetterSent
<1>16. InMail(w2, i, ok)
  <2>1. i # None
    BY AuctionMailAssumption
  <2> QED
    BY <1>10, <1>15, <2>1 DEF Sends, InMail
<1>17. Won(w, w2, i, a, k, d1, d2, ok)
  BY <1>6, <1>9, <1>15, <1>16 DEF Won
<1> QED
  BY <1>3, <1>13, <1>15, <1>17

\* Who has bid is known.
BidsAreMade == \A i \in Items : house[i] # None /\ house[i].bid # 0 => house[i].bidder # None

LEMMA StartAt ==
    ASSUME NEW ds, NEW K, NEW G, NEW B, NEW X, NEW K1, NEW w, NEW open, NEW ok,
           Start(ds, K, G, B, X, K1, w, "auction", open, ok)
    PROVE  /\ At(w, G, B, X, gold, bags, mails, lastMail, open) /\ OfType(K1, lastMail, "auction")
           /\ house \in [Items -> Auction \cup {None}]
           /\ \A i \in Items : house[i] # None => MayCarry(w, i, {i}, ok)
<1>1. PICK type : type = "auction"
  OBVIOUS
<1>2. Start(ds, K, G, B, X, K1, w, type, open, ok)
  BY <1>1
<1>3. /\ house = settled.auction /\ settled \in Tables(K1, lastMail)
      /\ Holds(w, lastMail, settled, G, B, X, thrown, open)
      /\ Tracks(Online, G, gold, G, gold) /\ Tracks(Online, B, bags, B, bags)
      /\ Tracks(Online, X, mails, X, mails)
  BY <1>2, StartFacts
<1>4. At(w, G, B, X, gold, bags, mails, lastMail, open)
  BY <1>3 DEF At, Mirrors, Holds
<1>5. house \in [Items -> Auction \cup {None}]
  BY <1>3, Columns
<1>6. ok => Whole(settled, B, X, Active(phase), thrown, {})
  BY DEF Start, Sane
<1>7. ASSUME NEW i \in Items, house[i] # None PROVE MayCarry(w, i, {i}, ok)
  <2>1. settled.auction[i] # None /\ w.s = settled
    BY <1>3, <1>7 DEF Holds
  <2> QED
    BY <1>6, <2>1, LooseOnSale DEF MayCarry
<1> QED
  BY <1>1, <1>2, <1>4, <1>5, <1>7 DEF Start

LEMMA AuctionUpdateKeeps ==
    ASSUME IInv, BidsAreMade, NEW i \in Items, AuctionUpdate(i)
    PROVE  IInv'
<1>0. PICK open : open = {i}
  OBVIOUS
<1>1. PICK ds, K, G, B, X, K1, w0, ok : Start(ds, K, G, B, X, K1, w0, "auction", open, ok)
  BY HandlerStarts
<1>2. /\ K1 \in Kinds /\ lastMail \in Nat /\ lastMail <= MaxMails
      /\ Active(phase) \subseteq Players
      /\ Stage(settled, w0, K1, Active(phase), ok) /\ Starting(w0)
      /\ dirty \in [Players -> BOOLEAN]
  BY <1>1, StartFacts
<1>3. PICK a : a = house[i]
  OBVIOUS
<1>4. a # None /\ UNCHANGED <<phase, loaded, db, swept, thrown, gold, bags, dirty>>
      /\ house' = With(house, i, None)
  BY <1>3 DEF AuctionUpdate, With, world, history
<1>5. /\ At(w0, G, B, X, gold, bags, mails, lastMail, open) /\ OfType(K1, lastMail, "auction")
      /\ house \in [Items -> Auction \cup {None}] /\ MayCarry(w0, i, open, ok)
  BY <1>0, <1>1, <1>3, <1>4, StartAt
<1>6. a \in Auction
  BY <1>3, <1>4, <1>5
<1>7. CASE a.bid # 0
  <2>1. a.bidder \in Players
    BY <1>3, <1>4, <1>6, <1>7 DEF BidsAreMade, Auction
  <2>2. /\ lastMail' = lastMail + 2 /\ lastMail + 2 <= MaxMails
        /\ mails' = Received(BidWinning(i, a, 0, {}).drafts)
        /\ Request(BidWinning(i, a, 0, {}).requests)
    BY <1>3, <1>7 DEF AuctionUpdate, GenerateMailID
  <2>3. PICK n, k, n2, to : k = 0 /\ n = lastMail + k /\ n2 = n + 2 /\ to = a.bidder
    OBVIOUS
  <2>4. k \in Nat /\ n = lastMail /\ n2 <= MaxMails /\ to \in Players /\ n2 = lastMail'
    BY <1>2, <2>1, <2>2, <2>3
  <2>5. PICK d1, d2, w2 :
              /\ Stage(settled, w2, K1, Active(phase), ok) /\ Won(w0, w2, i, a, k, d1, d2, ok)
              /\ At(w2, G, B, X, gold, bags, Post(Post(mails, Online, d1), Online, d2), n2, open)
    BY <1>2, <1>5, <1>6, <2>3, <2>4, Winning
  <2>15. PICK w1 : Queued(w0, w1, InsertMail(d1)) /\ Queued(w1, w2, InsertMail(d2))
    BY <2>5 DEF Won
  <2>16. Wins(i, a, k, d1, d2) /\ (ok => w2.s.mail_items[i] # None)
    BY <2>5 DEF Won, InMail
  <2>6. PICK w3 : /\ Stage(settled, w3, K1, Active(phase), ok)
                  /\ Queued(w2, w3, Txn({Delete("auction", i)}))
                  /\ Ended(w2, w3, i) /\ SameGold(w2, w3)
    BY <1>2, <2>5, <2>16, StageEnd
  <2>7. PICK reqs : reqs = <<InsertMail(d1), InsertMail(d2), Txn({Delete("auction", i)})>>
    OBVIOUS
  <2>8. mails' = Received({d1, d2}) /\ Request(reqs)
    <3>1. {Delete("auction", i)} \cup {} = {Delete("auction", i)}
      OBVIOUS
    <3> QED
      BY <2>2, <2>3, <2>16, <2>7, <3>1 DEF Wins
  <2>9. Ran(w3, reqs)
    BY <1>2, <2>15, <2>6, <2>7, RanOne, RanTwo, RanThree
  <2>10. Mirrors(w3, G, B, X, gold', bags', mails')
    BY <1>4, <2>5, <2>6, <2>8, ReceivedTwo DEF At, Mirrors, Ended, SameGold
  <2>11. /\ w3.n = lastMail' /\ w3.open = {} /\ w3.lost \subseteq thrown
         /\ w3.s.auction = house'
    BY <1>0, <1>4, <2>2, <2>4, <2>5, <2>6 DEF At, Ended
  <2>12. Finishes(w3, reqs, ok)
    BY <1>2, <1>4, <2>2, <2>8, <2>9, <2>11 DEF Finishes, Shut
  <2> QED
    BY <1>1, <2>6, <2>10, <2>12, HandlerKeeps
<1>8. CASE a.bid = 0
  <2>1. PICK id, money, to, n : /\ id = lastMail + 1 /\ money = 0 /\ to = a.owner
                              /\ n = lastMail
    OBVIOUS
  <2>2. PICK d : d = AuctionLetter(id, to, money, i)
    OBVIOUS
  <2>3. PICK reqs : reqs = <<InsertMail(d), Txn({Delete("auction", i)})>>
    OBVIOUS
  <2>4. /\ lastMail' = lastMail + 1 /\ lastMail + 1 <= MaxMails
        /\ mails' = Received({d}) /\ Request(reqs)
    BY <1>3, <1>8, <2>1, <2>2, <2>3 DEF AuctionUpdate, GenerateMailID, NewId
  <2>5. to \in Players /\ money \in Nat /\ id <= MaxMails
    BY <1>6, <2>1, <2>4 DEF Auction
  <2>6. /\ At(w0, G, B, X, gold, bags, mails, n, open) /\ n \in Nat /\ lastMail <= n
        /\ id = n + 1
    BY <1>2, <1>5, <2>1
  <2>7. PICK w1 : /\ Stage(settled, w1, K1, Active(phase), ok) /\ Queued(w0, w1, InsertMail(d))
                  /\ At(w1, G, B, X, gold, bags, Post(mails, Online, d), id, open)
                  /\ Sends(w0, w1, d, Online)
    BY <1>2, <1>5, <2>2, <2>5, <2>6, LetterSent
  <2>8. w1.s.mail_items[i] # None
    <3>1. d.item = i /\ i # None
      BY <2>2, AuctionMailAssumption DEF AuctionLetter, Draft
    <3> QED
      BY <2>7, <3>1 DEF Sends
  <2>9. PICK w2 : /\ Stage(settled, w2, K1, Active(phase), ok)
                  /\ Queued(w1, w2, Txn({Delete("auction", i)}))
                  /\ Ended(w1, w2, i) /\ SameGold(w1, w2)
    BY <1>2, <2>7, <2>8, StageEnd
  <2>10. Ran(w2, reqs)
    BY <1>2, <2>3, <2>7, <2>9, RanOne, RanTwo
  <2>11. Mirrors(w2, G, B, X, gold', bags', mails')
    BY <1>4, <2>4, <2>7, <2>9, ReceivedOne DEF At, Mirrors, Ended, SameGold
  <2>12. /\ w2.n = lastMail' /\ w2.open = {} /\ w2.lost \subseteq thrown
         /\ w2.s.auction = house'
    BY <1>0, <1>4, <2>1, <2>4, <2>7, <2>9 DEF At, Ended
  <2>13. Finishes(w2, reqs, ok)
    BY <1>2, <1>4, <2>4, <2>10, <2>12 DEF Finishes, Shut
  <2> QED
    BY <1>1, <2>9, <2>11, <2>13, HandlerKeeps
<1> QED
  BY <1>7, <1>8

LEMMA ReceivedMore ==
    ASSUME NEW S, NEW d PROVE Received(S \cup {d}) = Post(Received(S), Online, d)
<1> DEFINE R == Received(S)
<1>1. R = [p \in Players |-> mails[p] \cup {x \in S : x.receiver = p /\ online(p)}]
  BY DEF Received
<1>2. ASSUME NEW p \in Players
      PROVE  mails[p] \cup {x \in S \cup {d} : x.receiver = p /\ online(p)}
             = R[p] \cup {x \in {d} : x.receiver = p /\ p \in Online}
  <2>1. R[p] = mails[p] \cup {x \in S : x.receiver = p /\ online(p)}
    BY <1>1
  <2>2. online(p) <=> p \in Online
    BY DEF Online, online
  <2> HIDE DEF R
  <2> QED
    BY <2>1, <2>2
<1> HIDE DEF R
<1>3. Received(S \cup {d}) = Post(R, Online, d)
  BY <1>2 DEF Received, Post
<1> QED
  BY <1>3 DEF R

\* What follows at most one mail.
LEMMA SentThenOne ==
    ASSUME NEW S, NEW w, Ran(w, Sent(S)), NEW w1, NEW b, Queued(w, w1, b)
    PROVE  Ran(w1, Append(Sent(S), b))
<1>1. CASE S = {}
  BY <1>1 DEF Ran, Queued, Sent
<1>2. CASE S # {}
  <2>1. PICK a : a = InsertMail(CHOOSE d \in S : TRUE)
    OBVIOUS
  <2>2. Sent(S) = <<a>>
    BY <1>2, <2>1 DEF Sent
  <2> QED
    BY <2>2, JoinOne DEF Ran, Queued
<1> QED
  BY <1>1, <1>2

LEMMA SentThenTwo ==
    ASSUME NEW S, NEW w, Ran(w, Sent(S)), NEW w1, NEW b, Queued(w, w1, b),
           NEW w2, NEW c, Queued(w1, w2, c)
    PROVE  Ran(w2, Sent(S) \o <<b, c>>)
<1>1. CASE S = {}
  <2>1. Sent(S) = <<>>
    BY <1>1 DEF Sent
  <2>2. Ran(w1, <<b>>)
    BY <2>1, RanOne DEF Ran, Starting
  <2>3. Ran(w2, <<b, c>>)
    BY <2>2, RanTwo
  <2> QED
    BY <2>1, <2>3
<1>2. CASE S # {}
  <2>1. PICK a : a = InsertMail(CHOOSE d \in S : TRUE)
    OBVIOUS
  <2>2. Sent(S) = <<a>>
    BY <1>2, <2>1 DEF Sent
  <2>3. Ran(w2, <<a, b, c>>)
    BY <2>2, RanTwo, RanThree
  <2> QED
    BY <2>2, <2>3, JoinTwo
<1> QED
  BY <1>1, <1>2

LEMMA SentThenThree ==
    ASSUME NEW S, NEW w, Ran(w, Sent(S)), NEW w1, NEW b, Queued(w, w1, b),
           NEW w2, NEW c, Queued(w1, w2, c), NEW w3, NEW d, Queued(w2, w3, d)
    PROVE  Ran(w3, Sent(S) \o <<b, c, d>>)
<1>1. CASE S = {}
  <2>1. Sent(S) = <<>>
    BY <1>1 DEF Sent
  <2>2. Ran(w1, <<b>>)
    BY <2>1, RanOne DEF Ran, Starting
  <2>3. Ran(w3, <<b, c, d>>)
    BY <2>2, RanTwo, RanThree
  <2> QED
    BY <2>1, <2>3
<1>2. CASE S # {}
  <2>1. PICK a : a = InsertMail(CHOOSE x \in S : TRUE)
    OBVIOUS
  <2>2. Sent(S) = <<a>>
    BY <1>2, <2>1 DEF Sent
  <2>3. Ran(w3, <<a, b, c, d>>)
    BY <2>2, RanTwo, RanThree, RanFour
  <2> QED
    BY <2>2, <2>3, JoinThree
<1> QED
  BY <1>1, <1>2

\* The money of at most one bidder is sent back.
Refund(S, a) == S = {} \/ (a.bidder # None /\ S = {AuctionLetter(NewId(1), a.bidder, a.bid, None)})

Refunded(w, S, i, open, ok) ==
    Ran(w, Sent(S)) /\ MayCarry(w, i, open, ok) /\ Cardinality(S) \in {0, 1}

LEMMA Refunds ==
    ASSUME NEW ds, NEW K, NEW G, NEW B, NEW X, NEW K1, NEW w, NEW open, NEW ok,
           Start(ds, K, G, B, X, K1, w, "auction", open, ok),
           NEW a \in Auction, NEW S, Refund(S, a), lastMail + Cardinality(S) <= MaxMails,
           NEW i \in Items \cup {None}, MayCarry(w, i, open, ok)
    PROVE  \E w1 : /\ Stage(settled, w1, K1, Active(phase), ok)
                   /\ Refunded(w1, S, i, open, ok)
                   /\ At(w1, G, B, X, gold, bags, Received(S), lastMail + Cardinality(S), open)
<1>1. PICK type : type = "auction"
  OBVIOUS
<1>2. Start(ds, K, G, B, X, K1, w, type, open, ok)
  BY <1>1
<1>3. /\ K1 \in Kinds /\ lastMail \in Nat /\ lastMail <= MaxMails
      /\ Active(phase) \subseteq Players
      /\ Stage(settled, w, K1, Active(phase), ok) /\ Starting(w)
      /\ mails \in Boxes(K1, lastMail)
  BY <1>2, StartFacts
<1>4. /\ At(w, G, B, X, gold, bags, mails, lastMail, open) /\ OfType(K1, lastMail, "auction")
  BY StartAt
<1>5. CASE S = {}
  <2>1. Sent(S) = <<>> /\ Cardinality(S) = 0
    BY <1>5, SentNone
  <2>2. Received(S) = mails
    <3>1. IsTable(mails, Players)
      BY <1>3 DEF Boxes, IsTable
    <3> QED
      BY <1>5, <3>1, ReceivedNone
  <2>3. Refunded(w, S, i, open, ok)
    BY <1>3, <2>1 DEF Refunded, Starting, Ran
  <2> QED
    BY <1>3, <1>4, <2>1, <2>2, <2>3
<1>6. CASE S # {}
  <2>1. PICK id, to, money, item, n, d :
           /\ id = lastMail + 1 /\ to = a.bidder /\ money = a.bid /\ item = None /\ n = lastMail
           /\ d = AuctionLetter(id, to, money, item)
    OBVIOUS
  <2>2. S = {d} /\ to \in Players /\ money \in Nat
    BY <1>6, <2>1 DEF Refund, Auction, NewId
  <2>3. Sent(S) = <<InsertMail(d)>> /\ Cardinality(S) = 1 /\ Received(S) = Post(mails, Online, d)
    BY <2>2, SentOne, ReceivedOne
  <2>4. /\ At(w, G, B, X, gold, bags, mails, n, open) /\ n \in Nat /\ lastMail <= n
        /\ id = n + 1 /\ id <= MaxMails /\ item \in Items \cup {None}
        /\ MayCarry(w, item, open, ok)
    BY <1>3, <1>4, <2>1, <2>3 DEF MayCarry
  <2>5. PICK w1 : /\ Stage(settled, w1, K1, Active(phase), ok) /\ Queued(w, w1, InsertMail(d))
                  /\ At(w1, G, B, X, gold, bags, Post(mails, Online, d), id, open)
                  /\ Sends(w, w1, d, Online)
    BY <1>3, <1>4, <2>1, <2>2, <2>4, LetterSent
  <2>6. MayCarry(w1, i, open, ok)
    <3>1. d.item = None
      BY <2>1 DEF AuctionLetter, Draft
    <3> QED
      BY <2>5, <3>1, LooseStill DEF MayCarry
  <2>7. Ran(w1, Sent(S))
    BY <1>3, <2>3, <2>5, RanOne
  <2> QED
    BY <2>1, <2>3, <2>5, <2>6, <2>7 DEF Refunded
<1> QED
  BY <1>5, <1>6

LEMMA RemoveItemKeeps ==
    ASSUME IInv, NEW p \in Players, NEW i \in Items, HandleAuctionRemoveItem(p, i)
    PROVE  IInv'
<1>0. PICK open : open = {i}
  OBVIOUS
<1>1. PICK ds, K, G, B, X, K1, w0, ok : Start(ds, K, G, B, X, K1, w0, "auction", open, ok)
  BY HandlerStarts
<1>2. /\ K1 \in Kinds /\ lastMail \in Nat /\ lastMail <= MaxMails
      /\ Active(phase) \subseteq Players
      /\ Stage(settled, w0, K1, Active(phase), ok) /\ Starting(w0)
      /\ gold \in [Players -> Nat] /\ dirty \in [Players -> BOOLEAN]
  BY <1>1, StartFacts
<1>3. online(p)
  BY DEF HandleAuctionRemoveItem, ready
<1>4. p \in Online
  BY <1>3 DEF Online, online
<1>5. PICK a : a = house[i]
  OBVIOUS
<1>6. PICK left : left = IF a.bid = 0 THEN gold[p] ELSE gold[p] - GetAuctionCut(a.bid)
  OBVIOUS
<1>7. PICK S : S = IF a.bidder = None THEN {} ELSE {AuctionLetter(NewId(1), a.bidder, a.bid, None)}
  OBVIOUS
<1>8. PICK back : back = AuctionLetter(NewId(Cardinality(S) + 1), p, 0, i)
  OBVIOUS
<1>9. PICK r : r = Txn({Delete("auction", i), SaveGold(p, left)})
  OBVIOUS
<1>10. /\ a # None /\ (a.bid # 0 => gold[p] >= GetAuctionCut(a.bid))
       /\ GenerateMailID(Cardinality(S) + 1)
       /\ gold' = With(gold, p, left) /\ house' = With(house, i, None)
       /\ mails' = Received(S \cup {back})
       /\ Request(Sent(S) \o <<InsertMail(back), r>>)
       /\ UNCHANGED <<phase, loaded, db, swept, thrown, bags, dirty>>
  BY <1>5, <1>6, <1>7, <1>8, <1>9 DEF HandleAuctionRemoveItem, CanPay, With, world, history
<1>11. MayCarry(w0, i, open, ok) /\ a \in Auction /\ OfType(K1, lastMail, "auction")
  BY <1>0, <1>1, <1>5, <1>10, StartAt
<1>12. left \in Nat
  <2>1. a.bid \in Nat
    BY <1>11 DEF Auction
  <2>2. GetAuctionCut(a.bid) \in Nat
    BY <2>1, CutIsLess
  <2> QED
    BY <1>2, <1>6, <1>10, <2>2
<1>13. Refund(S, a) /\ Cardinality(S) \in Nat
  <2>1. CASE a.bidder = None
    <3>1. S = {}
      BY <1>7, <2>1
    <3> QED
      BY <3>1, SentNone DEF Refund
  <2>2. CASE a.bidder # None
    <3>1. PICK d : d = AuctionLetter(NewId(1), a.bidder, a.bid, None)
      OBVIOUS
    <3>2. S = {d}
      BY <1>7, <2>2, <3>1
    <3>3. Cardinality(S) = 1
      BY <3>2, SentOne
    <3> QED
      BY <2>2, <3>1, <3>2, <3>3 DEF Refund
  <2> QED
    BY <2>1, <2>2
<1>14. /\ lastMail' = lastMail + (Cardinality(S) + 1)
       /\ lastMail + (Cardinality(S) + 1) <= MaxMails
  BY <1>10 DEF GenerateMailID
<1>15. PICK n, id, item, money : /\ n = lastMail + Cardinality(S) /\ id = n + 1
                                 /\ item = i /\ money = 0
  OBVIOUS
<1>16. /\ n \in Nat /\ lastMail <= n /\ id <= MaxMails /\ n <= MaxMails /\ id = lastMail'
       /\ item \in Items \cup {None} /\ money \in Nat /\ id \in Nat /\ lastMail <= id
  BY <1>2, <1>13, <1>14, <1>15, AuctionMailAssumption
<1>17. PICK w1 : /\ Stage(settled, w1, K1, Active(phase), ok)
                 /\ Refunded(w1, S, i, open, ok)
                 /\ At(w1, G, B, X, gold, bags, Received(S), n, open)
  BY <1>1, <1>11, <1>13, <1>15, <1>16, Refunds
<1>18. back = AuctionLetter(id, p, money, item)
  BY <1>2, <1>8, <1>13, <1>15 DEF NewId
<1>19. MayCarry(w1, item, open, ok) /\ Ran(w1, Sent(S))
  BY <1>15, <1>17 DEF Refunded
<1>20. PICK w2 : /\ Stage(settled, w2, K1, Active(phase), ok) /\ Queued(w1, w2, InsertMail(back))
                 /\ At(w2, G, B, X, gold, bags, Post(Received(S), Online, back), id, open)
                 /\ Sends(w1, w2, back, Online)
  BY <1>2, <1>11, <1>15, <1>16, <1>17, <1>18, <1>19, LetterSent
<1>21. w2.s.mail_items[i] # None
  <2>1. back.item = i /\ i # None
    BY <1>8, AuctionMailAssumption DEF AuctionLetter, Draft
  <2> QED
    BY <1>20, <2>1 DEF Sends
<1>22. PICK w3 : /\ Stage(settled, w3, K1, Active(phase), ok) /\ Queued(w2, w3, r)
                 /\ Ended(w2, w3, i) /\ Charged(w2, w3, p, left)
  BY <1>2, <1>9, <1>12, <1>20, <1>21, StageEndAndGold
<1>23. /\ w3.n = id /\ w3.mails = w2.mails /\ w3.bags = w2.bags
       /\ w3.gold = With(w2.gold, p, left)
       /\ w3.lost \subseteq thrown /\ w3.open = {} /\ w3.s.auction = house'
  BY <1>0, <1>10, <1>20, <1>22 DEF At, Ended, Charged
<1>24. Mirrors(w3, G, B, X, gold', bags', mails')
  <2>1. Mirrors(w2, G, B, X, gold, bags, mails')
    BY <1>10, <1>20, ReceivedMore DEF At
  <2>2. Tracks(Online, G, gold, w3.gold, gold')
    BY <1>4, <1>10, <1>23, <2>1, TracksWith DEF Mirrors
  <2> QED
    BY <1>10, <1>23, <2>1, <2>2 DEF Mirrors
<1>25. PICK reqs : reqs = Sent(S) \o <<InsertMail(back), r>>
  OBVIOUS
<1>26. Ran(w3, reqs)
  BY <1>19, <1>20, <1>22, <1>25, SentThenTwo
<1>27. Finishes(w3, reqs, ok)
  BY <1>2, <1>10, <1>16, <1>23, <1>25, <1>26 DEF Finishes, Shut
<1> QED
  BY <1>1, <1>22, <1>24, <1>27, HandlerKeeps

\* A bid, and what of it the handlers see.
Bids(a, p, price, newbid, b) ==
    /\ newbid = IF a.buyout # 0 /\ price > a.buyout THEN a.buyout ELSE price
    /\ b = [a EXCEPT !.bidder = p, !.bid = newbid]

LEMMA BidIsAuction ==
    ASSUME NEW a \in Auction, NEW p \in Players, NEW price \in Nat, NEW newbid, NEW b,
           Bids(a, p, price, newbid, b)
    PROVE  /\ newbid \in Nat /\ newbid <= price
           /\ b \in Auction /\ b.bidder = p
           /\ b = Updated(a, [bidder |-> p, bid |-> newbid])
<1>1. newbid \in Nat /\ newbid <= price
  BY DEF Bids, Auction
<1>2. b = [a EXCEPT !.bidder = p, !.bid = newbid]
  BY DEF Bids
<1>3. b \in Auction /\ b.bidder = p
  BY <1>1, <1>2 DEF Auction
<1>4. DOMAIN a = {"owner", "startbid", "buyout", "bid", "bidder"}
  BY DEF Auction
<1>5. Updated(a, [bidder |-> p, bid |-> newbid])
      = [c \in DOMAIN a |-> IF c = "bidder" THEN p ELSE IF c = "bid" THEN newbid ELSE a[c]]
  BY DEF Updated
<1>6. a = [c \in DOMAIN a |-> a[c]]
  BY DEF Auction
<1>7. b = [c \in DOMAIN a |-> IF c = "bidder" THEN p ELSE IF c = "bid" THEN newbid ELSE a[c]]
  BY <1>2, <1>4, <1>6
<1> QED
  BY <1>1, <1>3, <1>5, <1>7

\* The bid is entered.
LEMMA BidKeeps ==
    ASSUME NEW ds, NEW K, NEW G, NEW B, NEW X, NEW K1, NEW w0, NEW ok,
           Start(ds, K, G, B, X, K1, w0, "auction", {}, ok),
           NEW p \in Players, p \in Online, NEW i \in Items,
           NEW a, a = house[i], a # None,
           NEW price \in Nat, NEW newbid, NEW b, Bids(a, p, price, newbid, b),
           NEW S, Refund(S, a), NEW left \in Nat,
           GenerateMailID(Cardinality(S)), Cardinality(S) \in Nat,
           gold' = With(gold, p, left), house' = With(house, i, b), mails' = Received(S),
           Request(Append(Sent(S), SaveBid(i, b, left))),
           UNCHANGED <<phase, loaded, db, swept, thrown, bags, dirty>>
    PROVE  IInv'
<1>1. /\ K1 \in Kinds /\ lastMail \in Nat /\ lastMail <= MaxMails
      /\ Active(phase) \subseteq Players
      /\ dirty \in [Players -> BOOLEAN]
  BY StartFacts
<1>2. house \in [Items -> Auction \cup {None}]
  BY StartAt
<1>3. a \in Auction
  BY <1>2
<1>4. /\ newbid \in Nat /\ b \in Auction /\ b.bidder = p
      /\ b = Updated(a, [bidder |-> p, bid |-> newbid]) /\ b.bid = newbid
  <2>1. b.bid = newbid
    BY <1>3 DEF Bids, Auction
  <2> QED
    BY <1>3, <2>1, BidIsAuction
<1>5. PICK r : r = Txn({Update("auction", i, [bidder |-> p, bid |-> newbid]), SaveGold(p, left)})
  OBVIOUS
<1>6. SaveBid(i, b, left) = r
  BY <1>4, <1>5 DEF SaveBid
<1>7. PICK n, item, open : n = lastMail + Cardinality(S) /\ item = None /\ open = {}
  OBVIOUS
<1>8. n \in Nat /\ lastMail <= n /\ n <= MaxMails /\ lastMail' = n
  BY <1>1, <1>7 DEF GenerateMailID
<1>9. Start(ds, K, G, B, X, K1, w0, "auction", open, ok) /\ MayCarry(w0, item, open, ok)
      /\ item \in Items \cup {None}
  BY <1>7 DEF MayCarry
<1>10. PICK w1 : /\ Stage(settled, w1, K1, Active(phase), ok)
                 /\ Refunded(w1, S, item, open, ok)
                 /\ At(w1, G, B, X, gold, bags, Received(S), n, open)
  BY <1>3, <1>7, <1>8, <1>9, Refunds
<1>11. PICK old : old = w1.s.auction[i]
  OBVIOUS
<1>12. old = a
  BY <1>10, <1>11 DEF At
<1>13. PICK w2 : /\ Stage(settled, w2, K1, Active(phase), ok) /\ Queued(w1, w2, r)
                 /\ Trades(w1, w2, p, i, left, b) /\ Offered(w1, w2)
  BY <1>1, <1>4, <1>5, <1>10, <1>11, <1>12, StageBid
<1>14. /\ w2.n = n /\ w2.mails = w1.mails /\ w2.bags = w1.bags
       /\ w2.gold = With(w1.gold, p, left)
       /\ w2.lost \subseteq thrown /\ w2.open = {} /\ w2.s.auction = house'
  BY <1>7, <1>10, <1>13 DEF At, Trades, Offered
<1>15. Mirrors(w2, G, B, X, gold', bags', mails')
  <2>1. Mirrors(w1, G, B, X, gold, bags, mails')
    BY <1>10 DEF At
  <2>2. Tracks(Online, G, gold, w2.gold, gold')
    BY <1>14, <2>1, TracksWith DEF Mirrors
  <2> QED
    BY <1>14, <2>1, <2>2 DEF Mirrors
<1>16. PICK reqs : reqs = Append(Sent(S), r)
  OBVIOUS
<1>17. Ran(w1, Sent(S))
  BY <1>10 DEF Refunded
<1>18. Ran(w2, reqs)
  BY <1>13, <1>16, <1>17, SentThenOne
<1>19. Finishes(w2, reqs, ok)
  BY <1>1, <1>6, <1>8, <1>14, <1>16, <1>18 DEF Finishes, Shut
<1> QED
  BY <1>13, <1>15, <1>19, HandlerKeeps

\* The bid is the buyout price.
LEMMA BuyoutKeeps ==
    ASSUME NEW ds, NEW K, NEW G, NEW B, NEW X, NEW K1, NEW w0, NEW ok, NEW i \in Items,
           NEW open, open = {i},
           Start(ds, K, G, B, X, K1, w0, "auction", open, ok),
           NEW p \in Players, p \in Online,
           NEW a, a = house[i], a # None,
           NEW price \in Nat, NEW newbid, NEW b, Bids(a, p, price, newbid, b),
           NEW S, Refund(S, a), NEW left \in Nat,
           NEW k \in Nat, k = Cardinality(S), GenerateMailID(k + 2),
           gold' = With(gold, p, left), house' = With(house, i, None),
           mails' = Received(S \cup BidWinning(i, b, k, {SaveGold(p, left)}).drafts),
           Request(Sent(S) \o BidWinning(i, b, k, {SaveGold(p, left)}).requests),
           UNCHANGED <<phase, loaded, db, swept, thrown, bags, dirty>>
    PROVE  IInv'
<1>1. /\ K1 \in Kinds /\ lastMail \in Nat /\ lastMail <= MaxMails
      /\ Active(phase) \subseteq Players
      /\ dirty \in [Players -> BOOLEAN]
  BY StartFacts
<1>2. /\ house \in [Items -> Auction \cup {None}] /\ MayCarry(w0, i, open, ok)
      /\ OfType(K1, lastMail, "auction")
  BY StartAt
<1>3. a \in Auction
  BY <1>2
<1>4. b \in Auction /\ b.bidder = p
  BY <1>3 DEF Bids, Auction
<1>5. PICK n, n2, to : n = lastMail + k /\ n2 = n + 2 /\ to = p
  OBVIOUS
<1>6. /\ n \in Nat /\ n <= MaxMails /\ n2 <= MaxMails /\ lastMail' = n2 /\ lastMail <= n2
      /\ to \in Players /\ to = b.bidder
  BY <1>1, <1>4, <1>5, AuctionMailAssumption DEF GenerateMailID
<1>7. PICK w1 : /\ Stage(settled, w1, K1, Active(phase), ok)
                /\ Refunded(w1, S, i, open, ok)
                /\ At(w1, G, B, X, gold, bags, Received(S), n, open)
  BY <1>2, <1>3, <1>5, <1>6, Refunds
<1>8. Ran(w1, Sent(S)) /\ MayCarry(w1, i, open, ok)
  BY <1>7 DEF Refunded
<1>9. PICK x : x = Received(S)
  OBVIOUS
<1>10. PICK d1, d2, w2 :
          /\ Stage(settled, w2, K1, Active(phase), ok) /\ Won(w1, w2, i, b, k, d1, d2, ok)
          /\ At(w2, G, B, X, gold, bags, Post(Post(x, Online, d1), Online, d2), n2, open)
  BY <1>1, <1>2, <1>4, <1>5, <1>6, <1>7, <1>8, <1>9, Winning
<1>11. PICK w3 : Queued(w1, w3, InsertMail(d1)) /\ Queued(w3, w2, InsertMail(d2))
  BY <1>10 DEF Won
<1>12. Wins(i, b, k, d1, d2) /\ (ok => w2.s.mail_items[i] # None)
  BY <1>10 DEF Won, InMail
<1>13. PICK r : r = Txn({Delete("auction", i), SaveGold(p, left)})
  OBVIOUS
<1>14. PICK w4 : /\ Stage(settled, w4, K1, Active(phase), ok) /\ Queued(w2, w4, r)
                 /\ Ended(w2, w4, i) /\ Charged(w2, w4, p, left)
  BY <1>1, <1>10, <1>12, <1>13, StageEndAndGold
<1>15. /\ BidWinning(i, b, k, {SaveGold(p, left)}).drafts = {d1, d2}
       /\ BidWinning(i, b, k, {SaveGold(p, left)}).requests = <<InsertMail(d1), InsertMail(d2), r>>
  <2>1. {Delete("auction", i)} \cup {SaveGold(p, left)} = {Delete("auction", i), SaveGold(p, left)}
    OBVIOUS
  <2> QED
    BY <1>12, <1>13, <2>1 DEF Wins
<1>16. mails' = Post(Post(x, Online, d1), Online, d2)
  <2>1. S \cup {d1, d2} = (S \cup {d1}) \cup {d2}
    OBVIOUS
  <2>2. Received((S \cup {d1}) \cup {d2}) = Post(Received(S \cup {d1}), Online, d2)
    BY ReceivedMore
  <2>3. Received(S \cup {d1}) = Post(x, Online, d1)
    BY <1>9, ReceivedMore
  <2> QED
    BY <1>15, <2>1, <2>2, <2>3
<1>17. /\ w4.n = n2 /\ w4.mails = w2.mails /\ w4.bags = w2.bags
       /\ w4.gold = With(w2.gold, p, left)
       /\ w4.lost \subseteq thrown /\ w4.open = {} /\ w4.s.auction = house'
  BY <1>10, <1>14 DEF At, Ended, Charged
<1>18. Mirrors(w4, G, B, X, gold', bags', mails')
  <2>1. Mirrors(w2, G, B, X, gold, bags, mails')
    BY <1>10, <1>16 DEF At
  <2>2. Tracks(Online, G, gold, w4.gold, gold')
    BY <1>17, <2>1, TracksWith DEF Mirrors
  <2> QED
    BY <1>17, <2>1, <2>2 DEF Mirrors
<1>19. PICK reqs : reqs = Sent(S) \o <<InsertMail(d1), InsertMail(d2), r>>
  OBVIOUS
<1>20. Ran(w4, reqs)
  BY <1>8, <1>11, <1>14, <1>19, SentThenThree
<1>21. Finishes(w4, reqs, ok)
  BY <1>1, <1>6, <1>15, <1>17, <1>19, <1>20 DEF Finishes, Shut
<1> QED
  BY <1>14, <1>18, <1>21, HandlerKeeps

LEMMA PlaceBidKeeps ==
    ASSUME IInv, NEW p \in Players, NEW i \in Items, NEW price \in 1..gold[p],
           HandleAuctionPlaceBid(p, i, price)
    PROVE  IInv'
<1>1. PICK open : open = {i}
  OBVIOUS
<1>2. PICK ds, K, G, B, X, K1, w0, ok : Start(ds, K, G, B, X, K1, w0, "auction", {}, ok)
  BY HandlerStarts
<1>3. PICK ds1, K2, G1, B1, X1, K3, w1, ok1 :
         Start(ds1, K2, G1, B1, X1, K3, w1, "auction", open, ok1)
  BY HandlerStarts
<1>4. PICK a : a = house[i]
  OBVIOUS
<1>5. PICK newbid : newbid = IF a.buyout # 0 /\ price > a.buyout THEN a.buyout ELSE price
  OBVIOUS
<1>6. PICK left : left = gold[p] - (IF a.bidder = p THEN newbid - a.bid ELSE newbid)
  OBVIOUS
<1>7. PICK b : b = [a EXCEPT !.bidder = p, !.bid = newbid]
  OBVIOUS
<1>8. PICK S : S = IF a.bidder \in {p, None} THEN {} ELSE {OutbiddedMail(a, b)}
  OBVIOUS
<1>9. PICK k : k = Cardinality(S)
  OBVIOUS
<1>10. PICK wins : wins = ~(newbid < a.buyout \/ a.buyout = 0)
  OBVIOUS
<1>11. /\ online(p) /\ a # None /\ gold[p] >= price
       /\ GenerateMailID(k + IF wins THEN 2 ELSE 0)
       /\ gold' = With(gold, p, left)
       /\ UNCHANGED <<phase, loaded, db, swept, thrown, bags, dirty>>
  BY <1>4, <1>5, <1>6, <1>7, <1>8, <1>9, <1>10
     DEF HandleAuctionPlaceBid, CanPay, With, world, history, ready
<1>12. wins => /\ house' = With(house, i, None)
               /\ mails' = Received(S \cup BidWinning(i, b, k, {SaveGold(p, left)}).drafts)
               /\ Request(Sent(S) \o BidWinning(i, b, k, {SaveGold(p, left)}).requests)
  BY <1>4, <1>5, <1>6, <1>7, <1>8, <1>9, <1>10 DEF HandleAuctionPlaceBid, With
<1>13. ~wins => /\ house' = With(house, i, b) /\ mails' = Received(S)
                /\ Request(Append(Sent(S), SaveBid(i, b, left)))
  BY <1>4, <1>5, <1>6, <1>7, <1>8, <1>9, <1>10 DEF HandleAuctionPlaceBid, With
<1>14. p \in Online
  BY <1>11 DEF Online, online
<1>15. gold \in [Players -> Nat] /\ lastMail \in Nat
  BY <1>2, StartFacts
<1>16. house \in [Items -> Auction \cup {None}]
  BY <1>2, StartAt
<1>17. a \in Auction /\ price \in Nat /\ Bids(a, p, price, newbid, b)
  BY <1>4, <1>5, <1>7, <1>11, <1>15, <1>16 DEF Bids
<1>18. left \in Nat
  <2>1. newbid \in Nat /\ newbid <= price
    BY <1>17, BidIsAuction
  <2>2. a.bid \in Nat
    BY <1>17 DEF Auction
  <2>3. gold[p] \in Nat
    BY <1>15
  <2> QED
    BY <1>6, <1>11, <1>17, <2>1, <2>2, <2>3
<1>19. Refund(S, a) /\ k \in Nat
  <2>1. CASE a.bidder \in {p, None}
    <3>1. S = {}
      BY <1>8, <2>1
    <3> QED
      BY <1>9, <3>1, SentNone DEF Refund
  <2>2. CASE a.bidder \notin {p, None}
    <3>1. PICK d : d = AuctionLetter(NewId(1), a.bidder, a.bid, None)
      OBVIOUS
    <3>2. S = {d}
      BY <1>8, <2>2, <3>1 DEF OutbiddedMail
    <3>3. Cardinality(S) = 1
      BY <3>2, SentOne
    <3> QED
      BY <1>9, <2>2, <3>1, <3>2, <3>3 DEF Refund
  <2> QED
    BY <2>1, <2>2
<1>20. CASE wins
  <2>1. GenerateMailID(k + 2)
    BY <1>11, <1>20
  <2> QED
    BY <1>1, <1>3, <1>4, <1>9, <1>11, <1>12, <1>14, <1>17, <1>18, <1>19, <1>20, <2>1, BuyoutKeeps
<1>21. CASE ~wins
  <2>1. GenerateMailID(k)
    BY <1>11, <1>15, <1>19, <1>21 DEF GenerateMailID
  <2> QED
    BY <1>2, <1>4, <1>9, <1>11, <1>13, <1>14, <1>17, <1>18, <1>19, <1>21, <2>1, BidKeeps
<1> QED
  BY <1>10, <1>20, <1>21

-----------------------------------------------------------------------------
\* Saving and logging out.

LEMMA OwnIsCovered ==
    ASSUME NEW K, NEW n, NEW t, NEW p, NEW box \in SUBSET Mails(K, n), NEW ok, Own(t, p, box, ok)
    PROVE  ok => Covers(t, p, box)
<1> SUFFICES ASSUME ok PROVE Covers(t, p, box)
  OBVIOUS
<1>1. \A m \in box : Row(m) \in MailRow
  BY DEF Mails, Rows
<1>2. \A m \in box : CurrentMail(t, m, p) /\ Row(m) # None
  BY <1>1, RowIsSome DEF Own
<1>3. Distinct(box)
  BY DEF Own
<1> QED
  BY <1>2, <1>3, CoversOwn

LEMMA PeriodicSaveKeeps ==
    ASSUME IInv, NEW p \in Players, PeriodicSave(p)
    PROVE  IInv'
<1>1. PICK ds, K, G, B, X, K1, w0, ok : Start(ds, K, G, B, X, K1, w0, "normal", {}, ok)
  BY HandlerStarts
<1>2. /\ lastMail \in Nat /\ lastMail <= MaxMails /\ Active(phase) \subseteq Players
      /\ house = settled.auction
      /\ Stage(settled, w0, K1, Active(phase), ok) /\ Starting(w0)
      /\ Holds(w0, lastMail, settled, G, B, X, thrown, {})
      /\ Mirrors(w0, G, B, X, gold, bags, mails)
      /\ gold \in [Players -> Nat] /\ dirty \in [Players -> BOOLEAN]
  BY <1>1, StartFacts DEF Mirrors, Holds
<1>3. online(p)
  BY DEF PeriodicSave, ready
<1>4. p \in Online /\ p \in Active(phase)
  BY <1>1, <1>3, StartOnline
<1>5. /\ mails[p] \in SUBSET Mails(K1, lastMail)
      /\ Own(settled, p, mails[p], ok)
  BY <1>1, <1>3, OwnMails
<1>6. PICK g, box : g = gold[p] /\ box = mails[p]
  OBVIOUS
<1>7. PICK r : r = Txn({SaveGold(p, g)} \cup SaveMail(box))
  OBVIOUS
<1>8. /\ mails' = With(mails, p, Saved(box))
      /\ dirty' = [dirty EXCEPT ![p] = FALSE] /\ Request(<<r>>)
      /\ UNCHANGED <<phase, loaded, db, swept, thrown, house, gold, bags, lastMail>>
  BY <1>6, <1>7 DEF PeriodicSave, SaveToDB, With, world, history
<1>9. g \in Nat /\ gold' = With(gold, p, g)
  BY <1>2, <1>6, <1>8 DEF With
<1>10. w0.n = lastMail /\ w0.s = settled /\ w0.open = {} /\ w0.lost = thrown
  BY <1>2 DEF Holds
<1>11. ok => Covers(settled, p, box)
  BY <1>5, <1>6, OwnIsCovered
<1>12. box \in SUBSET Mails(K1, w0.n) /\ (ok => Covers(w0.s, p, box)) /\ Shut(w0, ok)
  BY <1>5, <1>6, <1>10, <1>11 DEF Shut
<1>13. PICK w : /\ Stage(settled, w, K1, Active(phase), ok)
                /\ Queued(w0, w, r) /\ SavesAll(w0, w, p, g, box)
  BY <1>2, <1>7, <1>9, <1>12, StageSave
<1>14. /\ w.n = lastMail /\ w.gold = With(w0.gold, p, g) /\ w.bags = w0.bags
       /\ w.mails = With(w0.mails, p, Saved(box))
       /\ w.lost = thrown /\ w.open = {} /\ w.s.auction = settled.auction
  BY <1>10, <1>13 DEF SavesAll
<1>15. Mirrors(w, G, B, X, gold', bags', mails')
  <2>1. Tracks(Online, G, gold, w.gold, gold')
    BY <1>2, <1>4, <1>9, <1>14, TracksWith DEF Mirrors
  <2>2. Tracks(Online, X, mails, w.mails, mails')
    BY <1>2, <1>4, <1>8, <1>14, TracksWith DEF Mirrors
  <2> QED
    BY <1>2, <1>8, <1>14, <2>1, <2>2 DEF Mirrors
<1>16. Ran(w, <<r>>)
  BY <1>2, <1>13, RanOne
<1>17. dirty' \in [Players -> BOOLEAN]
  BY <1>2, <1>8
<1>18. Finishes(w, <<r>>, ok)
  BY <1>2, <1>8, <1>14, <1>16, <1>17 DEF Finishes, Shut
<1> QED
  BY <1>1, <1>13, <1>15, <1>18, HandlerKeeps

\* The others see nothing of what p saves.
SavesFor(w, w1, p) ==
    /\ w1.n = w.n /\ w1.lost = w.lost /\ w1.open = w.open /\ w1.s.auction = w.s.auction
    /\ \A q \in Players : q # p => /\ w1.gold[q] = w.gold[q] /\ w1.bags[q] = w.bags[q]
                                   /\ w1.mails[q] = w.mails[q]

LEMMA StageLeave ==
    ASSUME NEW ds, NEW K, NEW G, NEW B, NEW X, NEW K1, NEW w0, NEW ok,
           Start(ds, K, G, B, X, K1, w0, "normal", {}, ok), NEW p \in Players, online(p)
    PROVE  \E w : /\ Stage(settled, w, K1, Active(phase), ok)
                  /\ Queued(w0, w, SaveToDB(p)) /\ SavesFor(w0, w, p)
<1>1. /\ lastMail \in Nat /\ lastMail <= MaxMails /\ Active(phase) \subseteq Players
      /\ Stage(settled, w0, K1, Active(phase), ok)
      /\ Holds(w0, lastMail, settled, G, B, X, thrown, {})
      /\ gold \in [Players -> Nat] /\ dirty \in [Players -> BOOLEAN]
  BY StartFacts
<1>2. /\ mails[p] \in SUBSET Mails(K1, lastMail)
      /\ Own(settled, p, mails[p], ok)
  BY OwnMails
<1>3. PICK g, box : g = gold[p] /\ box = mails[p]
  OBVIOUS
<1>4. g \in Nat
  BY <1>1, <1>3
<1>5. w0.n = lastMail /\ w0.s = settled /\ w0.open = {} /\ w0.lost = thrown
  BY <1>1 DEF Holds
<1>6. IsTable(w0.gold, Players) /\ IsTable(w0.mails, Players)
  BY <1>1 DEF Stage, IsTable, Boxes
<1>7. CASE dirty[p]
  <2>1. PICK r : r = Txn({SaveGold(p, g)} \cup SaveMail(box))
    OBVIOUS
  <2>2. SaveToDB(p) = r
    BY <1>3, <1>7, <2>1 DEF SaveToDB
  <2>3. ok => Covers(settled, p, box)
    BY <1>2, <1>3, OwnIsCovered
  <2>4. box \in SUBSET Mails(K1, w0.n) /\ (ok => Covers(w0.s, p, box)) /\ Shut(w0, ok)
    BY <1>2, <1>3, <1>5, <2>3 DEF Shut
  <2>5. PICK w : /\ Stage(settled, w, K1, Active(phase), ok)
                 /\ Queued(w0, w, r) /\ SavesAll(w0, w, p, g, box)
    BY <1>1, <1>4, <2>1, <2>4, StageSave
  <2>6. SavesFor(w0, w, p)
    <3>1. /\ w.n = w0.n /\ w.gold = With(w0.gold, p, g) /\ w.bags = w0.bags
          /\ w.mails = With(w0.mails, p, Saved(box))
          /\ w.lost = w0.lost /\ w.open = w0.open /\ w.s.auction = w0.s.auction
      BY <2>5 DEF SavesAll
    <3>2. \A q \in Players : q # p => w.gold[q] = w0.gold[q]
      BY <1>6, <3>1, WithRows
    <3>3. \A q \in Players : q # p => w.mails[q] = w0.mails[q]
      BY <1>6, <3>1, WithRows
    <3> QED
      BY <3>1, <3>2, <3>3 DEF SavesFor
  <2> QED
    BY <2>2, <2>5, <2>6
<1>8. CASE ~dirty[p]
  <2>1. PICK r : r = Txn({SaveGold(p, g)})
    OBVIOUS
  <2>2. SaveToDB(p) = r
    <3>1. {SaveGold(p, g)} \cup {} = {SaveGold(p, g)}
      OBVIOUS
    <3> QED
      BY <1>3, <1>8, <2>1, <3>1 DEF SaveToDB
  <2>3. PICK w : /\ Stage(settled, w, K1, Active(phase), ok)
                 /\ Queued(w0, w, r) /\ Pays(w0, w, p, g)
    BY <1>1, <1>4, <2>1, StageGold
  <2>4. SavesFor(w0, w, p)
    <3>1. /\ w.n = w0.n /\ w.gold = With(w0.gold, p, g) /\ w.bags = w0.bags
          /\ w.mails = w0.mails
          /\ w.lost = w0.lost /\ w.open = w0.open /\ w.s.auction = w0.s.auction
      BY <2>3 DEF Pays
    <3>2. \A q \in Players : q # p => w.gold[q] = w0.gold[q]
      BY <1>6, <3>1, WithRows
    <3> QED
      BY <3>1, <3>2 DEF SavesFor
  <2> QED
    BY <2>2, <2>3, <2>4
<1> QED
  BY <1>7, <1>8

LEMMA LogoutKeeps ==
    ASSUME IInv, NEW p \in Players, LogoutPlayer(p)
    PROVE  IInv'
<1>1. PICK ds, K, G, B, X, K1, w0, ok : Start(ds, K, G, B, X, K1, w0, "normal", {}, ok)
  BY HandlerStarts
<1>2. /\ lastMail \in Nat /\ lastMail <= MaxMails
      /\ house = settled.auction /\ Starting(w0)
      /\ Holds(w0, lastMail, settled, G, B, X, thrown, {})
      /\ gold \in [Players -> Nat] /\ bags \in [Players -> SUBSET Items]
      /\ mails \in Boxes(K1, lastMail) /\ dirty \in [Players -> BOOLEAN]
  BY <1>1, StartFacts
<1>3. /\ Typed(K) /\ Backlog(ds, K, lastMail, db, queue, settled)
      /\ Seen(ds, K, lastMail, G, B, X, queue, phase, loaded, gold, bags, mails)
      /\ Sane(ds, G, B, X, queue, settled, Active(phase), thrown, swept)
      /\ K1 \in Kinds /\ Agree(K, lastMail, K1) /\ ok = ~swept
  BY <1>1 DEF Start
<1>4. /\ phase \in [Players -> {"offline", "loading", "online"}] /\ swept \in BOOLEAN
      /\ IsTable(loaded, Players)
  BY <1>3 DEF Typed
<1>5. /\ phase[p] = "online" /\ phase' = With(phase, p, "offline")
      /\ gold' = With(gold, p, 0) /\ bags' = With(bags, p, {}) /\ mails' = With(mails, p, {})
      /\ dirty' = [dirty EXCEPT ![p] = FALSE] /\ Request(<<SaveToDB(p)>>)
      /\ UNCHANGED <<loaded, house, db, lastMail, thrown, swept>>
  BY DEF LogoutPlayer, online, With, history
<1>6. PICK w : /\ Stage(settled, w, K1, Active(phase), ok)
               /\ Queued(w0, w, SaveToDB(p)) /\ SavesFor(w0, w, p)
  BY <1>1, <1>5, StageLeave DEF online
<1>7. PICK r : r = SaveToDB(p)
  OBVIOUS
<1>8. w.done = <<r>>
  <2>1. Ran(w, <<r>>)
    BY <1>2, <1>6, <1>7, RanOne
  <2> QED
    BY <2>1 DEF Ran
<1>9. /\ w.n = lastMail /\ w.lost = thrown /\ w.open = {} /\ w.s.auction = house
      /\ \A q \in Players : q # p => w.gold[q] = G[q] /\ w.bags[q] = B[q] /\ w.mails[q] = X[q]
  BY <1>2, <1>6 DEF SavesFor, Holds
<1>10. PICK ph, g1, b1, x1 : ph = phase' /\ g1 = gold' /\ b1 = bags' /\ x1 = mails'
  OBVIOUS
<1>11. /\ IsTable(phase, Players) /\ IsTable(gold, Players) /\ IsTable(bags, Players)
       /\ IsTable(mails, Players)
  BY <1>2, <1>4 DEF IsTable, Boxes
<1>12. ph[p] = "offline" /\ \A q \in Players : q # p => ph[q] = phase[q]
  BY <1>5, <1>10, <1>11, WithRows
<1>13. g1[p] = 0 /\ \A q \in Players : q # p => g1[q] = gold[q]
  BY <1>5, <1>10, <1>11, WithRows
<1>14. b1[p] = {} /\ \A q \in Players : q # p => b1[q] = bags[q]
  BY <1>5, <1>10, <1>11, WithRows
<1>15. x1[p] = {} /\ \A q \in Players : q # p => x1[q] = mails[q]
  BY <1>5, <1>10, <1>11, WithRows
<1>16. Leaves(phase, ph)
  BY <1>5, <1>12 DEF Leaves
<1>17. Agrees(w, G, B, X, phase, ph, g1, b1, x1)
  BY <1>3, <1>5, <1>9, <1>12, <1>13, <1>14, <1>15 DEF Agrees, Seen
<1>18. Stage(settled, w, K1, Active(phase), ~swept) /\ Shut(w, ~swept)
  BY <1>3, <1>6, <1>9 DEF Shut
<1>19. lastMail <= w.n /\ w.lost \subseteq thrown
  BY <1>2, <1>9
<1>20. Closed(K1, w, db, queue, settled, ph, loaded, g1, b1, x1, thrown, swept)
  BY <1>2, <1>3, <1>16, <1>17, <1>18, <1>19, Closes
<1>21. Closed(K1, w, db, queue, settled, phase', loaded', gold', bags', mails', thrown', swept')
  BY <1>5, <1>10, <1>20
<1>22. Request(w.done) /\ w.n \in 0..MaxMails
  BY <1>2, <1>5, <1>7, <1>8, <1>9, AuctionMailAssumption
<1>23. Kept(K1, w.n, phase', gold', bags', mails')
  <2>1. IsTable(g1, Players) /\ IsTable(b1, Players) /\ IsTable(x1, Players)
    BY <1>5, <1>10, <1>11 DEF IsTable, With
  <2>2. \A q \in Players : gold[q] \in Nat /\ bags[q] \in SUBSET Items
                           /\ mails[q] \in SUBSET Mails(K1, lastMail)
    BY <1>2 DEF Boxes
  <2>3. \A q \in Players : g1[q] \in Nat /\ b1[q] \in SUBSET Items
                           /\ x1[q] \in SUBSET Mails(K1, lastMail)
    BY <1>13, <1>14, <1>15, <2>2
  <2> QED
    BY <1>9, <1>10, <2>1, <2>3 DEF Kept
<1>24. /\ phase' \in [Players -> {"offline", "loading", "online"}]
       /\ dirty' \in [Players -> BOOLEAN]
  BY <1>2, <1>4, <1>5 DEF With
<1> QED
  BY <1>3, <1>4, <1>5, <1>9, <1>21, <1>22, <1>23, <1>24, ClosedKeeps

-----------------------------------------------------------------------------
\* Logging in, and the delay thread.

\* The query of a login is queued, and the tables it will find are those of now.
AsksOn(es, ds, K, n, d, q, s, r) ==
    /\ Settled(s, <<r>>) = s
    /\ Backlog(es, K, n, d, q \o <<r>>, s)
    /\ \A k \in 0..Len(q) : es[k] = ds[k]
    /\ es[Len(q) + 1] = s

LEMMA QueryQueued ==
    ASSUME NEW ds, NEW K, NEW n \in Nat, NEW d, NEW q, NEW s, Backlog(ds, K, n, d, q, s),
           NEW p \in Players, NEW r, r = LoginQuery(p)
    PROVE  \E es : AsksOn(es, ds, K, n, d, q, s, r)
<1>1. /\ IsSeq(q) /\ Passes(ds, d, q) /\ ds[Len(q)] = s
      /\ \A k \in 1..Len(q) : q[k].player \in Players \cup {None}
      /\ \A k \in 0..Len(q) : ds[k] \in Tables(K, n)
  BY DEF Backlog
<1>2. /\ IsSeq(q \o <<r>>) /\ Len(q) \in Nat /\ Len(q \o <<r>>) = Len(q) + 1
      /\ \A k \in 1..Len(q) : (q \o <<r>>)[k] = q[k]
      /\ (q \o <<r>>)[Len(q) + 1] = r
  BY <1>1, OneRequest
<1>3. s \in Tables(K, n)
  BY <1>1, <1>2
<1>4. Committed(s, r) = s
  BY <1>3, EffectOfLogin
<1>5. PICK reqs : reqs = <<r>>
  OBVIOUS
<1>6. IsSeq(reqs) /\ Len(reqs) = 1 /\ reqs[1] = r
  <2>1. <<r>> \in Seq({r})
    OBVIOUS
  <2> QED
    BY <1>5, <2>1 DEF IsSeq
<1>7. SoundRequest(r, K, n) /\ r.player = p
  BY DEF LoginQuery, SoundRequest
<1>8. Settled(s, reqs) = s
  <2>1. Passes(Course(s, reqs), s, reqs)
    BY <1>3, <1>6, <1>7, CourseFollows
  <2> DEFINE c == Course(s, reqs)
  <2>2. c[0] = s /\ c[1] = Committed(c[1 - 1], reqs[1])
    BY <1>6, <2>1 DEF Passes
  <2> HIDE DEF c
  <2>3. c[1] = s
    BY <1>4, <1>6, <2>2
  <2> QED
    BY <1>6, <2>3 DEF Settled, c
<1>9. PICK cs : cs = [k \in 0..1 |-> s]
  OBVIOUS
<1>10. Passes(cs, s, reqs)
  BY <1>4, <1>6, <1>9 DEF Passes
<1>11. PICK es : es = Joined(ds, Len(q), cs, Len(reqs))
  OBVIOUS
<1>12. Passes(es, d, q \o reqs) /\ Spans(es, ds, Len(q), cs, Len(reqs))
  BY <1>1, <1>6, <1>10, <1>11, PassesOn
<1>13. (\A k \in 0..Len(q) : es[k] = ds[k]) /\ es[Len(q) + 1] = s
  BY <1>6, <1>9, <1>12 DEF Spans
<1>14. \A k \in 0..(Len(q) + 1) : es[k] \in Tables(K, n)
  BY <1>1, <1>2, <1>3, <1>13
<1>15. \A k \in 1..(Len(q) + 1) : (q \o reqs)[k].player \in Players \cup {None}
  <2> SUFFICES ASSUME NEW k \in 1..(Len(q) + 1)
               PROVE  (q \o reqs)[k].player \in Players \cup {None}
    OBVIOUS
  <2>1. CASE k = Len(q) + 1
    BY <1>2, <1>5, <1>7, <2>1
  <2>2. CASE k # Len(q) + 1
    <3>1. k \in 1..Len(q)
      BY <1>2, <2>2
    <3> QED
      BY <1>1, <1>2, <1>5, <3>1
  <2> QED
    BY <2>1, <2>2
<1>16. Backlog(es, K, n, d, q \o reqs, s)
  BY <1>2, <1>5, <1>12, <1>13, <1>14, <1>15 DEF Backlog
<1> QED
  BY <1>5, <1>8, <1>13, <1>16 DEF AsksOn

\* What the queued requests keep from being in two hands stays so when one more is queued.
LEMMA HandsLogin ==
    ASSUME NEW ds, NEW es, NEW q, IsSeq(q), NEW r, NEW s, OneHand(s, {}),
           \A k \in 0..Len(q) : OneHand(ds[k], Deleted(q, k)),
           \A k \in 0..Len(q) : es[k] = ds[k], es[Len(q) + 1] = s
    PROVE  \A k \in 0..Len(q \o <<r>>) : OneHand(es[k], Deleted(q \o <<r>>, k))
<1>1. PICK reqs, all, N : reqs = <<r>> /\ all = q \o <<r>> /\ N = Len(q)
  OBVIOUS
<1>2. N \in Nat /\ Len(all) = N + 1
  BY <1>1, OneRequest
<1>3. IsSeq(reqs)
  <2>1. <<r>> \in Seq({r})
    OBVIOUS
  <2> QED
    BY <1>1, <2>1 DEF IsSeq
<1>4. \A k \in 0..N : Deleted(q, k) \subseteq Deleted(all, k)
  BY <1>1, <1>3, DeletedMore
<1>5. ASSUME NEW k \in 0..(N + 1) PROVE OneHand(es[k], Deleted(all, k))
  <2>1. CASE k = N + 1
    <3>1. OneHand(s, Deleted(all, k))
      BY OneHandLess
    <3> QED
      BY <1>1, <2>1, <3>1
  <2>2. CASE k # N + 1
    <3>1. k \in 0..N
      BY <1>2, <2>2
    <3>2. OneHand(ds[k], Deleted(q, k)) /\ es[k] = ds[k]
      BY <1>1, <3>1
    <3>3. Deleted(q, k) \cap Items \subseteq Deleted(all, k)
      BY <1>4, <3>1
    <3>4. OneHand(ds[k], Deleted(all, k))
      BY <3>2, <3>3, OneHandLess
    <3> QED
      BY <3>2, <3>4
  <2> QED
    BY <2>1, <2>2
<1> QED
  BY <1>1, <1>2, <1>5

LEMMA LoginOpcodeKeeps ==
    ASSUME IInv, NEW p \in Players, HandlePlayerLoginOpcode(p)
    PROVE  IInv'
<1>1. PICK ds, K, G, B, X :
        /\ Typed(K)
        /\ Backlog(ds, K, lastMail, db, queue, settled)
        /\ Seen(ds, K, lastMail, G, B, X, queue, phase, loaded, gold, bags, mails)
        /\ Sane(ds, G, B, X, queue, settled, Active(phase), thrown, swept)
  BY DEF IInv
<1>2. lastMail \in Nat
  BY <1>1 DEF Typed
<1>3. PICK r : r = LoginQuery(p)
  OBVIOUS
<1>4. /\ phase[p] = "offline" /\ phase' = With(phase, p, "loading") /\ Request(<<r>>)
      /\ UNCHANGED <<loaded, gold, bags, mails, dirty, house, db, lastMail, thrown, swept>>
  BY <1>3 DEF HandlePlayerLoginOpcode, With, history
<1>37. PICK es : AsksOn(es, ds, K, lastMail, db, queue, settled, r)
  BY <1>1, <1>2, <1>3, QueryQueued
<1>5. /\ Backlog(es, K, lastMail, db, queue \o <<r>>, settled)
      /\ \A k \in 0..Len(queue) : es[k] = ds[k]
      /\ es[Len(queue) + 1] = settled
  BY <1>37 DEF AsksOn
<1>6. Settled(settled, <<r>>) = settled
  BY <1>37 DEF AsksOn
<1>7. queue' = queue \o <<r>> /\ settled' = settled
  BY <1>4, <1>6 DEF Request
<1>8. PICK N, q, q1 : N = Len(queue) /\ q = queue /\ q1 = queue \o <<r>>
  OBVIOUS
<1>9. IsSeq(q) /\ Passes(ds, db, q) /\ ds[N] = settled
  BY <1>1, <1>8 DEF Backlog
<1>10. /\ N \in Nat /\ Len(q1) = N + 1 /\ \A k \in 1..N : q1[k] = q[k]
       /\ q1[N + 1] = r
  BY <1>8, <1>9, OneRequest
<1>11. r.player = p /\ p # None
  BY <1>3, RowIsSome DEF LoginQuery
<1>12. settled \in Tables(K, lastMail)
  BY <1>1, <1>8, <1>9, <1>10 DEF Backlog
<1>13. PICK g, b, x : g = settled.money[p] /\ b = LoadInventory(settled, p) /\ x = LoadMails(settled, p)
  OBVIOUS
<1>14. g \in Nat /\ b \in SUBSET Items /\ x \in SUBSET Mails(K, lastMail)
  <2>1. settled.money \in [Players -> Nat]
    BY <1>12, Columns
  <2>2. x \in SUBSET Mails(K, lastMail)
    BY <1>12, <1>13, LoadedMails
  <2> QED
    BY <1>13, <2>1, <2>2 DEF LoadInventory
<1>15. PICK G1, B1, X1 : G1 = With(G, p, g) /\ B1 = With(B, p, b) /\ X1 = With(X, p, x)
  OBVIOUS
<1>16. /\ G \in [Players -> Nat] /\ B \in [Players -> SUBSET Items] /\ X \in Boxes(K, lastMail)
       /\ IsTable(G, Players) /\ IsTable(B, Players) /\ IsTable(X, Players)
  BY <1>1 DEF Seen, IsTable, Boxes
<1>17. /\ G1 \in [Players -> Nat] /\ B1 \in [Players -> SUBSET Items] /\ X1 \in Boxes(K, lastMail)
  BY <1>14, <1>15, <1>16 DEF With, Boxes
<1>18. G1[p] = g /\ \A c \in Players : c # p => G1[c] = G[c]
  BY <1>15, <1>16, WithRows
<1>19. B1[p] = b /\ \A c \in Players : c # p => B1[c] = B[c]
  BY <1>15, <1>16, WithRows
<1>20. X1[p] = x /\ \A c \in Players : c # p => X1[c] = X[c]
  BY <1>15, <1>16, WithRows
<1>21. PICK ph : ph = phase'
  OBVIOUS
<1>22. ph[p] = "loading" /\ \A c \in Players : c # p => ph[c] = phase[c]
  <2>1. IsTable(phase, Players)
    BY <1>1 DEF Typed, IsTable
  <2> QED
    BY <1>4, <1>21, <2>1, WithRows
<1>23. /\ \A c \in Players :
            /\ phase[c] = "online" => G[c] = gold[c] /\ B[c] = bags[c] /\ X[c] = mails[c]
            /\ loaded[c] # None => phase[c] = "loading" /\ loaded[c] = View(G, B, X, c)
       /\ \A c \in Players : \A k \in 1..N : q[k].player = c =>
            /\ phase[c] = "loading" /\ loaded[c] = None
            /\ Load(ds[k - 1], c) = View(G, B, X, c)
            /\ \A j \in 1..N : q[j].player = c => j = k
  BY <1>1, <1>8 DEF Seen
<1>24. \A c \in Players : c # p => View(G1, B1, X1, c) = View(G, B, X, c)
  BY <1>18, <1>19, <1>20 DEF View
<1>25. View(G1, B1, X1, p) = Load(settled, p)
  BY <1>13, <1>18, <1>19, <1>20 DEF View, Load
<1>26. \A k \in 1..(N + 1) : k \in 1..N \/ k = N + 1
  BY <1>10
<1>27. ASSUME NEW c \in Players, c # p
       PROVE  /\ ph[c] = "online" => G1[c] = gold[c] /\ B1[c] = bags[c] /\ X1[c] = mails[c]
              /\ loaded[c] # None => ph[c] = "loading" /\ loaded[c] = View(G1, B1, X1, c)
              /\ \A k \in 1..(N + 1) : q1[k].player = c =>
                    /\ ph[c] = "loading" /\ loaded[c] = None
                    /\ Load(es[k - 1], c) = View(G1, B1, X1, c)
                    /\ \A j \in 1..(N + 1) : q1[j].player = c => j = k
  <2>1. ph[c] = "online" => G1[c] = gold[c] /\ B1[c] = bags[c] /\ X1[c] = mails[c]
    BY <1>18, <1>19, <1>20, <1>22, <1>23, <1>27
  <2>2. loaded[c] # None => ph[c] = "loading" /\ loaded[c] = View(G1, B1, X1, c)
    BY <1>22, <1>23, <1>24, <1>27
  <2>3. ASSUME NEW k \in 1..(N + 1), q1[k].player = c PROVE k \in 1..N /\ q[k].player = c
    BY <1>10, <1>11, <1>26, <1>27, <2>3
  <2>4. ASSUME NEW k \in 1..(N + 1), q1[k].player = c
        PROVE  /\ ph[c] = "loading" /\ loaded[c] = None
               /\ Load(es[k - 1], c) = View(G1, B1, X1, c)
               /\ \A j \in 1..(N + 1) : q1[j].player = c => j = k
    <3>1. k \in 1..N /\ q[k].player = c
      BY <2>3, <2>4
    <3>2. /\ phase[c] = "loading" /\ loaded[c] = None
          /\ Load(ds[k - 1], c) = View(G, B, X, c)
          /\ \A j \in 1..N : q[j].player = c => j = k
      BY <1>23, <3>1
    <3>3. es[k - 1] = ds[k - 1]
      <4>1. k - 1 \in 0..N
        BY <1>10, <3>1
      <4> QED
        BY <1>5, <1>8, <4>1
    <3> QED
      BY <1>22, <1>24, <1>27, <2>3, <3>2, <3>3
  <2> QED
    BY <2>1, <2>2, <2>4
<1>28. /\ ph[p] # "online" /\ loaded[p] = None
       /\ \A k \in 1..(N + 1) : q1[k].player = p =>
             /\ ph[p] = "loading"
             /\ Load(es[k - 1], p) = View(G1, B1, X1, p)
             /\ \A j \in 1..(N + 1) : q1[j].player = p => j = k
  <2>1. loaded[p] = None /\ ph[p] # "online"
    BY <1>4, <1>22, <1>23
  <2>2. \A k \in 1..(N + 1) : q1[k].player = p => k = N + 1
    BY <1>4, <1>10, <1>23, <1>26
  <2>3. (N + 1) - 1 = N /\ es[N] = settled
    <3>1. N \in 0..N
      BY <1>10
    <3> QED
      BY <1>5, <1>8, <1>9, <1>10, <3>1
  <2> QED
    BY <1>22, <1>25, <2>1, <2>2, <2>3
<1>29. Seen(es, K, lastMail, G1, B1, X1, q1, ph, loaded, gold, bags, mails)
  BY <1>10, <1>17, <1>27, <1>28 DEF Seen
<1>30. Active(ph) = Active(phase) \cup {p}
  BY <1>22 DEF Active
<1>31. \A c \in Active(ph) : G1[c] = settled.money[c]
  BY <1>1, <1>13, <1>18, <1>30 DEF Sane, Active
<1>32. ~swept => Whole(settled, B1, X1, Active(ph), thrown, {})
  <2> SUFFICES ASSUME ~swept PROVE Whole(settled, B1, X1, Active(ph), thrown, {})
    OBVIOUS
  <2>1. PICK A, C : A = Active(phase) /\ C = {}
    OBVIOUS
  <2>2. Whole(settled, B, X, A, thrown, C)
    BY <1>1, <2>1 DEF Sane
  <2>3. \A c \in A : c # p => B1[c] = B[c] /\ X1[c] = X[c]
    BY <1>19, <1>20, <2>1 DEF Active
  <2>4. Whole(settled, B1, X1, A \cup {p}, thrown, C)
    BY <1>12, <1>13, <1>19, <1>20, <2>2, <2>3, WholeLogin
  <2> QED
    BY <1>30, <2>1, <2>4
<1>33. ~swept => \A k \in 0..Len(q1) : OneHand(es[k], Deleted(q1, k))
  <2> SUFFICES ASSUME ~swept PROVE \A k \in 0..Len(q1) : OneHand(es[k], Deleted(q1, k))
    OBVIOUS
  <2>1. OneHand(settled, {}) /\ \A k \in 0..Len(q) : OneHand(ds[k], Deleted(q, k))
    BY <1>1, <1>8 DEF Sane, Whole
  <2> QED
    BY <1>5, <1>8, <1>9, <2>1, HandsLogin
<1>34. Sane(es, G1, B1, X1, q1, settled, Active(ph), thrown, swept)
  BY <1>31, <1>32, <1>33 DEF Sane
<1>35. Typed(K)'
  BY <1>1, <1>4, <1>7 DEF Typed, With
<1>36. /\ Backlog(es, K, lastMail', db', queue', settled')
       /\ Seen(es, K, lastMail', G1, B1, X1, queue', phase', loaded', gold', bags', mails')
       /\ Sane(es, G1, B1, X1, queue', settled', Active(phase'), thrown', swept')
  BY <1>4, <1>5, <1>7, <1>8, <1>21, <1>29, <1>34
<1> QED
  BY <1>35, <1>36 DEF IInv

LEMMA ExecuteKeeps ==
    ASSUME IInv, Execute
    PROVE  IInv'
<1>1. PICK ds, K, G, B, X :
        /\ Typed(K)
        /\ Backlog(ds, K, lastMail, db, queue, settled)
        /\ Seen(ds, K, lastMail, G, B, X, queue, phase, loaded, gold, bags, mails)
        /\ Sane(ds, G, B, X, queue, settled, Active(phase), thrown, swept)
  BY DEF IInv
<1>2. PICK N, q, q1, r : N = Len(queue) /\ q = queue /\ q1 = Tail(queue) /\ r = Head(queue)
  OBVIOUS
<1>3. /\ q # <<>> /\ queue' = q1 /\ db' = Committed(db, r)
      /\ loaded' = IF r.player = None THEN loaded ELSE With(loaded, r.player, Load(db, r.player))
      /\ UNCHANGED <<phase, gold, bags, mails, dirty, house, settled, lastMail, thrown, swept>>
  BY <1>2 DEF Execute, With, history
<1>4. IsSeq(q) /\ Passes(ds, db, q) /\ ds[N] = settled
  BY <1>1, <1>2 DEF Backlog
<1>5. PICK es : es = [k \in 0..(Len(q) - 1) |-> ds[k + 1]]
  OBVIOUS
<1>6. /\ IsSeq(q1) /\ N \in Nat /\ N > 0 /\ Len(q1) = N - 1 /\ r = q[1]
      /\ \A k \in 1..(N - 1) : q1[k] = q[k + 1]
  BY <1>2, <1>3, <1>4, TailIs
<1>7. /\ ds[1] = Committed(db, r) /\ Passes(es, ds[1], q1)
      /\ \A k \in 0..(N - 1) : es[k] = ds[k + 1]
  BY <1>2, <1>3, <1>4, <1>5, PassesTail
<1>8. ds[0] = db
  BY <1>4 DEF Passes
<1>9. \A k \in 1..(N - 1) : k + 1 \in 1..N /\ k - 1 \in 0..(N - 1) /\ (k - 1) + 1 = k /\ (k + 1) - 1 = k
                            /\ k + 1 # 1
  BY <1>6
<1>10. Backlog(es, K, lastMail, db', q1, settled)
  <2>1. \A k \in 1..(N - 1) : q1[k].player \in Players \cup {None}
    BY <1>1, <1>2, <1>6, <1>9 DEF Backlog
  <2>2. \A k \in 0..(N - 1) : es[k] \in Tables(K, lastMail)
    <3>1. \A k \in 0..(N - 1) : k + 1 \in 0..N
      BY <1>6
    <3> QED
      BY <1>1, <1>2, <1>7, <3>1 DEF Backlog
  <2>3. es[N - 1] = settled
    <3>1. N - 1 \in 0..(N - 1) /\ (N - 1) + 1 = N
      BY <1>6
    <3> QED
      BY <1>4, <1>7, <3>1
  <2> QED
    BY <1>3, <1>6, <1>7, <2>1, <2>2, <2>3 DEF Backlog
<1>11. /\ G \in [Players -> Nat] /\ B \in [Players -> SUBSET Items] /\ X \in Boxes(K, lastMail)
       /\ \A c \in Players :
             /\ phase[c] = "online" => G[c] = gold[c] /\ B[c] = bags[c] /\ X[c] = mails[c]
             /\ loaded[c] # None => phase[c] = "loading" /\ loaded[c] = View(G, B, X, c)
       /\ \A c \in Players : \A k \in 1..N : q[k].player = c =>
             /\ phase[c] = "loading" /\ loaded[c] = None
             /\ Load(ds[k - 1], c) = View(G, B, X, c)
             /\ \A j \in 1..N : q[j].player = c => j = k
  BY <1>1, <1>2 DEF Seen
<1>12. PICK ld : ld = loaded'
  OBVIOUS
<1>13. IsTable(loaded, Players)
  BY <1>1 DEF Typed
<1>14. 1 \in 1..N /\ 1 - 1 = 0
  BY <1>6
<1>15. r.player \in Players \cup {None}
  BY <1>1, <1>2, <1>6, <1>14 DEF Backlog
<1>16. /\ IsTable(ld, Players)
       /\ \A c \in Players : c # r.player => ld[c] = loaded[c]
       /\ r.player # None => ld[r.player] = Load(db, r.player)
  <2>1. CASE r.player = None
    BY <1>3, <1>12, <1>13, <2>1
  <2>2. CASE r.player # None
    <3>1. PICK c, v : c = r.player /\ v = Load(db, c)
      OBVIOUS
    <3>2. c \in Players /\ ld = With(loaded, c, v)
      BY <1>3, <1>12, <1>15, <2>2, <3>1
    <3>3. ld[c] = v /\ \A e \in Players : e # c => ld[e] = loaded[e]
      BY <1>13, <3>2, WithRows
    <3>4. IsTable(ld, Players)
      BY <1>13, <3>2 DEF With, IsTable
    <3> QED
      BY <3>1, <3>3, <3>4
  <2> QED
    BY <2>1, <2>2
<1>17. ASSUME NEW c \in Players
       PROVE  /\ ld[c] # None => phase[c] = "loading" /\ ld[c] = View(G, B, X, c)
              /\ \A k \in 1..(N - 1) : q1[k].player = c =>
                    /\ phase[c] = "loading" /\ ld[c] = None
                    /\ Load(es[k - 1], c) = View(G, B, X, c)
                    /\ \A j \in 1..(N - 1) : q1[j].player = c => j = k
  <2>1. ld[c] # None => phase[c] = "loading" /\ ld[c] = View(G, B, X, c)
    <3>1. CASE c # r.player
      BY <1>11, <1>16, <3>1
    <3>2. CASE c = r.player
      <4>1. r.player # None
        BY <3>2, RowIsSome
      <4>2. phase[c] = "loading" /\ Load(db, c) = View(G, B, X, c)
        BY <1>6, <1>8, <1>11, <1>14, <3>2
      <4> QED
        BY <1>16, <3>2, <4>1, <4>2
    <3> QED
      BY <3>1, <3>2
  <2>2. ASSUME NEW k \in 1..(N - 1), q1[k].player = c
        PROVE  /\ phase[c] = "loading" /\ ld[c] = None
               /\ Load(es[k - 1], c) = View(G, B, X, c)
               /\ \A j \in 1..(N - 1) : q1[j].player = c => j = k
    <3>1. k + 1 \in 1..N /\ q[k + 1].player = c /\ (k + 1) - 1 = k
      BY <1>6, <1>9, <2>2
    <3>2. /\ phase[c] = "loading" /\ loaded[c] = None
          /\ Load(ds[(k + 1) - 1], c) = View(G, B, X, c)
          /\ \A j \in 1..N : q[j].player = c => j = k + 1
      BY <1>11, <3>1
    <3>3. c # r.player
      BY <1>6, <1>9, <1>14, <3>2
    <3>4. es[k - 1] = ds[k]
      BY <1>7, <1>9
    <3>5. \A j \in 1..(N - 1) : q1[j].player = c => j = k
      <4> SUFFICES ASSUME NEW j \in 1..(N - 1), q1[j].player = c PROVE j = k
        OBVIOUS
      <4>1. j + 1 \in 1..N /\ q[j + 1].player = c
        BY <1>6, <1>9
      <4>2. j + 1 = k + 1
        BY <3>2, <4>1
      <4> QED
        BY <1>6, <4>2
    <3> QED
      BY <1>16, <3>1, <3>2, <3>3, <3>4, <3>5
  <2> QED
    BY <2>1, <2>2
<1>18. Seen(es, K, lastMail, G, B, X, q1, phase, ld, gold, bags, mails)
  BY <1>6, <1>11, <1>17 DEF Seen
<1>19. ASSUME ~swept, NEW k \in 0..(N - 1) PROVE OneHand(es[k], Deleted(q1, k))
  <2>1. k + 1 \in 0..N /\ es[k] = ds[k + 1]
    BY <1>6, <1>7
  <2>2. OneHand(ds[k + 1], Deleted(q, k + 1))
    BY <1>1, <1>2, <1>19, <2>1 DEF Sane
  <2>3. Deleted(q, k + 1) \subseteq Deleted(q1, k)
    <3> SUFFICES ASSUME NEW i \in Deleted(q, k + 1) PROVE i \in Deleted(q1, k)
      OBVIOUS
    <3>1. PICK j \in ((k + 1) + 1)..N : Delete("auction", i) \in q[j].body
      BY <1>2 DEF Deleted
    <3>2. j - 1 \in (k + 1)..(N - 1) /\ j - 1 \in 1..(N - 1) /\ (j - 1) + 1 = j
      BY <1>6
    <3>3. q1[j - 1] = q[j]
      BY <1>6, <3>2
    <3>4. i \in Items
      BY DEF Deleted
    <3> QED
      BY <1>6, <3>1, <3>2, <3>3, <3>4 DEF Deleted
  <2>4. Deleted(q, k + 1) \cap Items \subseteq Deleted(q1, k)
    BY <2>3
  <2> QED
    BY <2>1, <2>2, <2>4, OneHandLess
<1>20. Sane(es, G, B, X, q1, settled, Active(phase), thrown, swept)
  BY <1>1, <1>6, <1>19 DEF Sane
<1>21. Typed(K)'
  BY <1>1, <1>3, <1>12, <1>16 DEF Typed
<1>22. /\ Backlog(es, K, lastMail', db', queue', settled')
       /\ Seen(es, K, lastMail', G, B, X, queue', phase', loaded', gold', bags', mails')
       /\ Sane(es, G, B, X, queue', settled', Active(phase'), thrown', swept')
  BY <1>3, <1>10, <1>12, <1>18, <1>20
<1> QED
  BY <1>21, <1>22 DEF IInv

LEMMA LoginKeeps ==
    ASSUME IInv, NEW p \in Players, HandlePlayerLogin(p)
    PROVE  IInv'
<1>1. PICK ds, K, G, B, X :
        /\ Typed(K)
        /\ Backlog(ds, K, lastMail, db, queue, settled)
        /\ Seen(ds, K, lastMail, G, B, X, queue, phase, loaded, gold, bags, mails)
        /\ Sane(ds, G, B, X, queue, settled, Active(phase), thrown, swept)
  BY DEF IInv
<1>2. /\ G \in [Players -> Nat] /\ B \in [Players -> SUBSET Items] /\ X \in Boxes(K, lastMail)
      /\ \A c \in Players :
            /\ phase[c] = "online" => G[c] = gold[c] /\ B[c] = bags[c] /\ X[c] = mails[c]
            /\ loaded[c] # None => phase[c] = "loading" /\ loaded[c] = View(G, B, X, c)
            /\ \A k \in 1..Len(queue) : queue[k].player = c =>
                  /\ phase[c] = "loading" /\ loaded[c] = None
                  /\ Load(ds[k - 1], c) = View(G, B, X, c)
                  /\ \A j \in 1..Len(queue) : queue[j].player = c => j = k
  BY <1>1 DEF Seen
<1>3. loaded[p] # None
  BY DEF HandlePlayerLogin
<1>4. phase[p] = "loading" /\ loaded[p] = View(G, B, X, p)
  BY <1>2, <1>3
<1>5. loaded[p].gold = G[p] /\ loaded[p].bags = B[p] /\ loaded[p].mails = X[p]
  BY <1>4 DEF View
<1>6. /\ phase' = With(phase, p, "online") /\ gold' = With(gold, p, G[p])
      /\ bags' = With(bags, p, B[p]) /\ mails' = With(mails, p, X[p])
      /\ loaded' = With(loaded, p, None)
      /\ UNCHANGED <<dirty, house, db, queue, settled, lastMail, thrown, swept>>
  BY <1>5 DEF HandlePlayerLogin, With, requests, history
<1>7. PICK ph, g, b, x, ld : ph = phase' /\ g = gold' /\ b = bags' /\ x = mails' /\ ld = loaded'
  OBVIOUS
<1>8. /\ phase \in [Players -> {"offline", "loading", "online"}]
      /\ gold \in [Players -> Nat] /\ bags \in [Players -> SUBSET Items]
      /\ mails \in Boxes(K, lastMail) /\ IsTable(loaded, Players)
  BY <1>1 DEF Typed
<1>9. /\ IsTable(phase, Players) /\ IsTable(gold, Players) /\ IsTable(bags, Players)
      /\ IsTable(mails, Players)
  BY <1>8 DEF IsTable, Boxes
<1>10. ph[p] = "online" /\ \A c \in Players : c # p => ph[c] = phase[c]
  BY <1>6, <1>7, <1>9, WithRows
<1>11. g[p] = G[p] /\ \A c \in Players : c # p => g[c] = gold[c]
  BY <1>6, <1>7, <1>9, WithRows
<1>12. b[p] = B[p] /\ \A c \in Players : c # p => b[c] = bags[c]
  BY <1>6, <1>7, <1>9, WithRows
<1>13. x[p] = X[p] /\ \A c \in Players : c # p => x[c] = mails[c]
  BY <1>6, <1>7, <1>9, WithRows
<1>14. ld[p] = None /\ \A c \in Players : c # p => ld[c] = loaded[c]
  <2>1. PICK v : v = None
    OBVIOUS
  <2>2. ld = With(loaded, p, v)
    BY <1>6, <1>7, <2>1
  <2> QED
    BY <1>8, <2>1, <2>2, WithRows
<1>15. \A k \in 1..Len(queue) : queue[k].player # p
  BY <1>2, <1>3
<1>16. ASSUME NEW c \in Players
       PROVE  /\ ph[c] = "online" => G[c] = g[c] /\ B[c] = b[c] /\ X[c] = x[c]
              /\ ld[c] # None => ph[c] = "loading" /\ ld[c] = View(G, B, X, c)
              /\ \A k \in 1..Len(queue) : queue[k].player = c =>
                    /\ ph[c] = "loading" /\ ld[c] = None
                    /\ Load(ds[k - 1], c) = View(G, B, X, c)
                    /\ \A j \in 1..Len(queue) : queue[j].player = c => j = k
  <2>1. CASE c = p
    BY <1>10, <1>11, <1>12, <1>13, <1>14, <1>15, <2>1
  <2>2. CASE c # p
    BY <1>2, <1>10, <1>11, <1>12, <1>13, <1>14, <2>2
  <2> QED
    BY <2>1, <2>2
<1>17. Seen(ds, K, lastMail, G, B, X, queue, ph, ld, g, b, x)
  BY <1>2, <1>16 DEF Seen
<1>18. Active(ph) = Active(phase)
  BY <1>4, <1>10 DEF Active
<1>19. G[p] \in Nat /\ B[p] \in SUBSET Items /\ X[p] \in SUBSET Mails(K, lastMail)
  BY <1>2 DEF Boxes
<1>20. phase' \in [Players -> {"offline", "loading", "online"}]
  BY <1>6, <1>8 DEF With
<1>21. gold' \in [Players -> Nat]
  BY <1>6, <1>8, <1>19 DEF With
<1>22. bags' \in [Players -> SUBSET Items]
  BY <1>6, <1>8, <1>19 DEF With
<1>23. mails' \in Boxes(K, lastMail)
  BY <1>6, <1>8, <1>19 DEF With, Boxes
<1>24. IsTable(loaded', Players)
  BY <1>6, <1>8 DEF With, IsTable
<1>25. Typed(K)'
  BY <1>1, <1>6, <1>20, <1>21, <1>22, <1>23, <1>24 DEF Typed
<1>26. /\ Backlog(ds, K, lastMail', db', queue', settled')
       /\ Seen(ds, K, lastMail', G, B, X, queue', phase', loaded', gold', bags', mails')
       /\ Sane(ds, G, B, X, queue', settled', Active(phase'), thrown', swept')
  BY <1>1, <1>6, <1>7, <1>17, <1>18
<1> QED
  BY <1>25, <1>26 DEF IInv

-----------------------------------------------------------------------------
\* The old mails that are swept.

LEMMA SparesKeep ==
    ASSUME NEW kind, NEW n, NEW t \in Tables(kind, n), NEW sts, NEW u, u = Committed(t, Txn(sts)),
           Spares(sts, "money"), Spares(sts, "auction")
    PROVE  u.money = t.money /\ u.auction = t.auction
<1>1. u = Committed(t, [player |-> None, body |-> sts])
  BY DEF Txn
<1> QED
  BY <1>1, CommittedTables, AreTables, AfterNothing

\* What is queued for a mail that no one in the world has changes nothing of the world.
Unseen(w, w1, u) ==
    /\ w1.n = w.n /\ w1.s = u /\ w1.gold = w.gold /\ w1.bags = w.bags /\ w1.mails = w.mails
    /\ w1.lost = w.lost /\ w1.open = w.open

LEMMA StageUnseen ==
    ASSUME NEW K, NEW s, NEW A, NEW no, ~no, NEW w, Stage(s, w, K, A, no),
           NEW r, SoundRequest(r, K, w.n), r.player = None,
           NEW u, u = Committed(w.s, r), u.money = w.s.money
    PROVE  \E w1 : Stage(s, w1, K, A, no) /\ Queued(w, w1, r) /\ Unseen(w, w1, u)
<1>1. PICK n, G, B, X, lost, open : /\ n = w.n /\ G = w.gold /\ B = w.bags /\ X = w.mails
                                    /\ lost = w.lost /\ open = w.open
  OBVIOUS
<1>2. /\ n \in Nat /\ w.n <= n /\ G \in [Players -> Nat] /\ B \in [Players -> SUBSET Items]
      /\ X \in Boxes(K, n) /\ SoundRequest(r, K, n)
  BY <1>1 DEF Stage
<1>3. Owns(G, A, u)
  BY <1>1 DEF Stage, Owns
<1>4. Suits(w, r, u, B, X, A, lost, open, no)
  BY DEF Suits
<1>5. PICK w1 : /\ Stage(s, w1, K, A, no) /\ Queued(w, w1, r)
                /\ Holds(w1, n, u, G, B, X, lost, open)
  BY <1>2, <1>3, <1>4, Queues
<1> QED
  BY <1>1, <1>5 DEF Holds, Unseen

\* What was queued unseen leaves the items where they should be.
Proper(w, B, X, A, lost, ok) ==
    ok => Whole(w.s, B, X, A, lost, {}) /\ \A k \in 0..Len(w.done) : OneHand(w.cs[k], {})

LEMMA StageProper ==
    ASSUME NEW K, NEW s, NEW A, NEW no, NEW w, Stage(s, w, K, A, no), w.open = {},
           NEW ok, Proper(w, w.bags, w.mails, A, w.lost, ok)
    PROVE  Stage(s, w, K, A, ok)
<1>1. ok => Whole(w.s, w.bags, w.mails, A, w.lost, w.open)
  BY DEF Proper
<1>2. ok => \A k \in 0..Len(w.done) : OneHand(w.cs[k], Deleted(w.done, k) \cup w.open)
  BY OneHandLess DEF Proper
<1> QED
  BY <1>1, <1>2 DEF Stage

\* The items are nowhere else than before, or gone.
LEMMA OneHandSame ==
    ASSUME NEW t, NEW u, OneHand(t, {}), u.character_inventory = t.character_inventory,
           u.auction = t.auction,
           \A i \in Items : /\ Exists(u, i) => Exists(t, i)
                            /\ u.mail_items[i] # None => t.mail_items[i] # None
    PROVE  OneHand(u, {})
BY DEF OneHand

LEMMA CourseOfOne ==
    ASSUME NEW cs, NEW s, NEW r, Passes(cs, s, <<r>>), NEW u, u = Committed(s, r),
           OneHand(s, {}), OneHand(u, {})
    PROVE  \A k \in 0..Len(<<r>>) : OneHand(cs[k], {})
<1>1. Len(<<r>>) = 1 /\ <<r>>[1] = r
  OBVIOUS
<1>2. cs[0] = s /\ cs[1] = u
  BY <1>1 DEF Passes
<1>3. \A k \in 0..1 : k = 0 \/ k = 1
  OBVIOUS
<1> QED
  BY <1>1, <1>2, <1>3

LEMMA CourseOfTwo ==
    ASSUME NEW cs, NEW s, NEW r1, NEW r2, Passes(cs, s, <<r1, r2>>),
           NEW u1, u1 = Committed(s, r1), NEW u2, u2 = Committed(u1, r2),
           OneHand(s, {}), OneHand(u1, {}), OneHand(u2, {})
    PROVE  \A k \in 0..Len(<<r1, r2>>) : OneHand(cs[k], {})
<1>1. Len(<<r1, r2>>) = 2 /\ <<r1, r2>>[1] = r1 /\ <<r1, r2>>[2] = r2
  OBVIOUS
<1>2. cs[0] = s /\ \A k \in 1..2 : cs[k] = Committed(cs[k - 1], <<r1, r2>>[k])
  BY <1>1 DEF Passes
<1>3. 1 \in 1..2 /\ 2 \in 1..2 /\ 1 - 1 = 0 /\ 2 - 1 = 1
  OBVIOUS
<1>4. cs[1] = u1
  BY <1>1, <1>2, <1>3
<1>5. cs[2] = u2
  BY <1>1, <1>2, <1>3, <1>4
<1>6. \A k \in 0..2 : k = 0 \/ k = 1 \/ k = 2
  OBVIOUS
<1> QED
  BY <1>1, <1>2, <1>4, <1>5, <1>6

\* A sweep is done.
Sweeps(w, ok1) ==
    /\ UNCHANGED <<phase, loaded, gold, bags, mails, dirty, house, db, lastMail, thrown>>
    /\ w.n = lastMail /\ w.lost = thrown /\ w.open = {} /\ w.s.auction = house
    /\ Request(w.done) /\ swept' \in BOOLEAN /\ (swept => swept') /\ ok1 = ~swept'

LEMMA SweepKeeps ==
    ASSUME NEW ds, NEW K, NEW G, NEW B, NEW X, NEW K1, NEW w0, NEW type, NEW open, NEW ok,
           Start(ds, K, G, B, X, K1, w0, type, open, ok),
           NEW no, NEW w, Stage(settled, w, K1, Active(phase), no),
           w.gold = G, w.bags = B, w.mails = X, NEW ok1, Sweeps(w, ok1),
           Proper(w, B, X, Active(phase), thrown, ok1)
    PROVE  IInv'
<1>1. /\ Typed(K) /\ Backlog(ds, K, lastMail, db, queue, settled)
      /\ Seen(ds, K, lastMail, G, B, X, queue, phase, loaded, gold, bags, mails)
      /\ Sane(ds, G, B, X, queue, settled, Active(phase), thrown, swept)
      /\ K1 \in Kinds /\ Agree(K, lastMail, K1)
  BY DEF Start
<1>2. /\ lastMail \in Nat /\ lastMail <= MaxMails
      /\ gold \in [Players -> Nat] /\ bags \in [Players -> SUBSET Items]
      /\ mails \in Boxes(K1, lastMail) /\ dirty \in [Players -> BOOLEAN]
  BY StartFacts
<1>3. /\ phase \in [Players -> {"offline", "loading", "online"}] /\ IsTable(loaded, Players)
  BY <1>1 DEF Typed
<1>4. /\ UNCHANGED <<phase, loaded, gold, bags, mails, dirty, house, db, lastMail, thrown>>
      /\ w.n = lastMail /\ w.lost = thrown /\ w.open = {} /\ w.s.auction = house
      /\ Request(w.done) /\ swept' \in BOOLEAN /\ (swept => swept') /\ ok1 = ~swept'
  BY DEF Sweeps
<1>5. Stage(settled, w, K1, Active(phase), ok1)
  BY <1>4, StageProper
<1>6. PICK ph, sw1 : ph = phase /\ sw1 = swept'
  OBVIOUS
<1>7. Leaves(phase, ph)
  BY <1>6 DEF Leaves
<1>8. Agrees(w, G, B, X, phase, ph, gold, bags, mails)
  BY <1>1, <1>6 DEF Agrees, Seen
<1>9. Stage(settled, w, K1, Active(phase), ~sw1) /\ Shut(w, ~sw1) /\ (swept => sw1)
  BY <1>4, <1>5, <1>6 DEF Shut
<1>10. lastMail <= w.n /\ w.lost \subseteq thrown
  BY <1>2, <1>4
<1>11. Closed(K1, w, db, queue, settled, ph, loaded, gold, bags, mails, thrown, sw1)
  BY <1>1, <1>2, <1>7, <1>8, <1>9, <1>10, Closes
<1>12. Closed(K1, w, db, queue, settled, phase', loaded', gold', bags', mails', thrown', swept')
  BY <1>4, <1>6, <1>11
<1>13. Kept(K1, w.n, phase', gold', bags', mails')
  BY <1>2, <1>4 DEF Kept, Boxes, IsTable
<1>14. w.n \in 0..MaxMails
  BY <1>2, <1>4, AuctionMailAssumption
<1> QED
  BY <1>1, <1>2, <1>3, <1>4, <1>12, <1>13, <1>14, ClosedKeeps

LinkedTo(t, j, id) == t.mail_items[j] # None /\ t.mail_items[j].mail_id = id

SameLinks(id) == \A j \in Items : LinkedTo(settled, j, id) <=> LinkedTo(db, j, id)

LEMMA LinksAgree ==
    ASSUME NEW id, LinksOf(settled, id) = LinksOf(db, id)
    PROVE  SameLinks(id)
<1>1. ASSUME NEW t, NEW j \in Items
      PROVE  LinkedTo(t, j, id) <=> \E row : <<j, row>> \in LinksOf(t, id)
  BY DEF LinksOf, LinkedTo
<1> QED
  BY <1>1 DEF SameLinks

\* What is swept is what the tables say, and its receiver is not there.
Idle(id, row, B, X, ok1) ==
    ok1 => /\ settled.mail[id] = row /\ row # None /\ SameLinks(id)
           /\ row.receiver \notin Active(phase)
           /\ Whole(settled, B, X, Active(phase), thrown, {})

\* A sweep begins, with nothing queued yet.
SweepStart(ds, K, G, B, X, K1, w, ok, no, ok1, id, row) ==
    /\ Start(ds, K, G, B, X, K1, w, "normal", {}, ok) /\ ~no
    /\ Stage(settled, w, K1, Active(phase), no) /\ Starting(w)
    /\ w.n = lastMail /\ w.s = settled /\ w.gold = G /\ w.bags = B /\ w.mails = X
    /\ w.lost = thrown /\ w.open = {}
    /\ settled \in Tables(K1, lastMail) /\ house = settled.auction /\ lastMail \in Nat
    /\ row = db.mail[id] /\ row \in Rows(K1[id]) /\ row \in MailRow
    /\ db \in Tables(K1, lastMail) /\ X \in Boxes(K1, lastMail) /\ Active(phase) \subseteq Players
    /\ ok1 = ~swept' /\ Idle(id, row, B, X, ok1)
    /\ swept' \in BOOLEAN /\ (swept => swept')
    /\ UNCHANGED <<phase, loaded, gold, bags, mails, dirty, house, db, lastMail, thrown>>

LEMMA SweepStarts ==
    ASSUME IInv, NEW id \in MailIds, ReturnOrDeleteOldMail(id)
    PROVE  \E ds, K, G, B, X, K1, w, ok, no, ok1, row :
              SweepStart(ds, K, G, B, X, K1, w, ok, no, ok1, id, row)
<1>1. PICK ds, K, G, B, X, K1, w, ok : Start(ds, K, G, B, X, K1, w, "normal", {}, ok)
  BY HandlerStarts
<1>2. PICK no, ok1, row : no = FALSE /\ ok1 = ~swept' /\ row = db.mail[id]
  OBVIOUS
<1>3. /\ lastMail \in Nat /\ Active(phase) \subseteq Players
      /\ house = settled.auction /\ settled \in Tables(K1, lastMail)
      /\ Stage(settled, w, K1, Active(phase), ok) /\ Starting(w)
      /\ Holds(w, lastMail, settled, G, B, X, thrown, {})
      /\ X \in Boxes(K1, lastMail)
  BY <1>1, StartFacts
<1>4. Stage(settled, w, K1, Active(phase), no)
  BY <1>2, <1>3 DEF Stage
<1>5. /\ row # None /\ swept' = (swept \/ InUse(id))
      /\ UNCHANGED <<phase, loaded, gold, bags, mails, dirty, house, db, lastMail, thrown>>
  BY <1>2 DEF ReturnOrDeleteOldMail, characters
<1>6. /\ Typed(K) /\ Backlog(ds, K, lastMail, db, queue, settled)
      /\ Sane(ds, G, B, X, queue, settled, Active(phase), thrown, swept)
      /\ Agree(K, lastMail, K1)
  BY <1>1 DEF Start
<1>7. db \in Tables(K1, lastMail)
  <2>1. ds[0] = db /\ 0 \in 0..Len(queue)
    <3>1. Len(queue) \in Nat
      BY <1>6 DEF Backlog, IsSeq
    <3> QED
      BY <1>6, <3>1 DEF Backlog, Passes
  <2>2. db \in Tables(K, lastMail)
    BY <1>6, <2>1 DEF Backlog
  <2> QED
    BY <1>6, <2>2, AgreeTypes
<1>8. row \in Rows(K1[id]) /\ row \in MailRow
  <2>1. row \in Rows(K1[id])
    BY <1>2, <1>5, <1>7, Columns
  <2> QED
    BY <2>1 DEF Rows
<1>9. swept \in BOOLEAN /\ phase \in [Players -> {"offline", "loading", "online"}]
  BY <1>6 DEF Typed
<1>10. swept' \in BOOLEAN /\ (swept => swept')
  BY <1>5, <1>9 DEF InUse
<1>11. Idle(id, row, B, X, ok1)
  <2> SUFFICES ASSUME ok1
               PROVE  /\ settled.mail[id] = row /\ row # None /\ SameLinks(id)
                      /\ row.receiver \notin Active(phase)
                      /\ Whole(settled, B, X, Active(phase), thrown, {})
    BY DEF Idle
  <2>1. ~swept /\ ~InUse(id)
    BY <1>2, <1>5
  <2>2. /\ phase[row.receiver] = "offline" /\ settled.mail[id] = row
        /\ LinksOf(settled, id) = LinksOf(db, id)
    BY <1>2, <2>1 DEF InUse
  <2>3. row.receiver \in Players
    BY <1>8 DEF MailRow
  <2>4. row.receiver \notin Active(phase)
    BY <2>2, <2>3 DEF Active
  <2>5. SameLinks(id)
    BY <2>2, LinksAgree
  <2> QED
    BY <1>5, <1>6, <2>1, <2>2, <2>4, <2>5 DEF Sane
<1>12. SweepStart(ds, K, G, B, X, K1, w, ok, no, ok1, id, row)
  BY <1>1, <1>2, <1>3, <1>4, <1>5, <1>7, <1>8, <1>10, <1>11 DEF SweepStart, Holds
<1> QED
  BY <1>12

\* The item of an old mail.
LEMMA ItemOfMail ==
    ASSUME NEW id
    PROVE  /\ MailItem(id) = None => \A j \in Items : ~LinkedTo(db, j, id)
           /\ MailItem(id) # None => MailItem(id) \in Items /\ LinkedTo(db, MailItem(id), id)
<1> DEFINE found == {j \in Items : LinkedTo(db, j, id)}
<1>1. MailItem(id) = IF found = {} THEN None ELSE CHOOSE j \in found : TRUE
  BY DEF MailItem, LinkedTo
<1>2. found # {} => (CHOOSE j \in found : TRUE) \in found
  OBVIOUS
<1>3. \A j \in Items : j # None
  BY AuctionMailAssumption
<1>4. \A j \in Items : LinkedTo(db, j, id) => j \in found
  OBVIOUS
<1>5. \A j \in found : j \in Items /\ LinkedTo(db, j, id)
  OBVIOUS
<1> HIDE DEF found
<1> QED
  BY <1>1, <1>2, <1>3, <1>4, <1>5

LEMMA JoinFirst == \A a : <<>> \o <<a>> = <<a>>
OBVIOUS

\* A mail without an item is deleted.
LEMMA SweepEmptyKeeps ==
    ASSUME IInv, NEW id \in MailIds, ReturnOrDeleteOldMail(id), MailItem(id) = None
    PROVE  IInv'
<1>1. PICK ds, K, G, B, X, K1, w0, ok, no, ok1, row :
         SweepStart(ds, K, G, B, X, K1, w0, ok, no, ok1, id, row)
  BY SweepStarts
<1>2. PICK r : r = Txn({Delete("mail", id)})
  OBVIOUS
<1>3. Request(<<r>>)
  <2>1. Request(<<>> \o <<r>>)
    BY <1>2 DEF ReturnOrDeleteOldMail
  <2> QED
    BY <2>1, JoinFirst
<1>4. PICK u : u = Committed(settled, r)
  OBVIOUS
<1>5. /\ settled \in Tables(K1, lastMail) /\ lastMail \in Nat /\ ~no
      /\ Stage(settled, w0, K1, Active(phase), no) /\ w0.n = lastMail /\ w0.s = settled
  BY <1>1 DEF SweepStart
<1>6. /\ u.money = settled.money /\ u.character_inventory = settled.character_inventory
      /\ u.item_instance = settled.item_instance /\ u.mail = With(settled.mail, id, None)
      /\ u.auction = settled.auction /\ u.mail_items = settled.mail_items
  BY <1>2, <1>4, <1>5, EffectOfSweptMail
<1>7. SoundRequest(r, K1, w0.n) /\ r.player = None
  <2>1. \A st \in {Delete("mail", id)} : Sound(st, K1, lastMail)
    BY <1>5, SoundStatements
  <2> QED
    BY <1>2, <1>5, <2>1, SoundTxn
<1>8. u = Committed(w0.s, r) /\ u.money = w0.s.money
  BY <1>4, <1>5, <1>6
<1>9. PICK w : Stage(settled, w, K1, Active(phase), no) /\ Queued(w0, w, r) /\ Unseen(w0, w, u)
  BY <1>5, <1>7, <1>8, StageUnseen
<1>10. w.done = <<r>>
  <2>1. Ran(w, <<r>>)
    BY <1>1, <1>9, RanOne DEF SweepStart
  <2> QED
    BY <2>1 DEF Ran
<1>11. /\ w.n = lastMail /\ w.s = u /\ w.gold = G /\ w.bags = B /\ w.mails = X
       /\ w.lost = thrown /\ w.open = {}
  BY <1>1, <1>9 DEF SweepStart, Unseen
<1>12. Sweeps(w, ok1)
  BY <1>1, <1>3, <1>6, <1>10, <1>11 DEF SweepStart, Sweeps
<1>13. ASSUME ok1 PROVE Whole(u, B, X, Active(phase), thrown, {}) /\ OneHand(settled, {})
  <2>1. /\ settled.mail[id] = row /\ row # None /\ SameLinks(id)
        /\ row.receiver \notin Active(phase)
        /\ Whole(settled, B, X, Active(phase), thrown, {})
        /\ X \in Boxes(K1, lastMail) /\ Active(phase) \subseteq Players
    BY <1>1, <1>13 DEF SweepStart, Idle
  <2>2. \A j \in Items : ~(settled.mail_items[j] # None /\ settled.mail_items[j].mail_id = id)
    BY <2>1, ItemOfMail DEF LinkedTo, SameLinks
  <2>3. Whole(u, B, X, Active(phase), thrown, {})
    BY <1>5, <1>6, <2>1, <2>2, WholeSwept
  <2> QED
    BY <2>1, <2>3 DEF Whole
<1>14. Passes(w.cs, settled, <<r>>)
  BY <1>9, <1>10 DEF Stage
<1>15. Proper(w, B, X, Active(phase), thrown, ok1)
  <2> SUFFICES ASSUME ok1
               PROVE  /\ Whole(w.s, B, X, Active(phase), thrown, {})
                      /\ \A k \in 0..Len(w.done) : OneHand(w.cs[k], {})
    BY DEF Proper
  <2>1. OneHand(settled, {}) /\ OneHand(u, {})
    BY <1>13 DEF Whole
  <2>2. \A k \in 0..Len(<<r>>) : OneHand(w.cs[k], {})
    BY <1>4, <1>14, <2>1, CourseOfOne
  <2> QED
    BY <1>10, <1>11, <1>13, <2>2
<1>16. PICK type, open : type = "normal" /\ open = {} /\ Start(ds, K, G, B, X, K1, w0, type, open, ok)
  BY <1>1 DEF SweepStart
<1> QED
  BY <1>9, <1>11, <1>12, <1>15, <1>16, SweepKeeps

\* A sweep queues two requests.
LEMMA StageTwo ==
    ASSUME NEW K, NEW s, NEW A, NEW no, ~no, NEW w0, Stage(s, w0, K, A, no), Starting(w0), w0.s = s,
           NEW r1, SoundRequest(r1, K, w0.n), r1.player = None,
           NEW u1, u1 = Committed(s, r1), u1.money = s.money,
           NEW r2, SoundRequest(r2, K, w0.n), r2.player = None,
           NEW u2, u2 = Committed(u1, r2), u2.money = u1.money
    PROVE  \E w : /\ Stage(s, w, K, A, no) /\ Ran(w, <<r1, r2>>) /\ Unseen(w0, w, u2)
<1>1. u1 = Committed(w0.s, r1) /\ u1.money = w0.s.money
  OBVIOUS
<1>2. PICK w1 : Stage(s, w1, K, A, no) /\ Queued(w0, w1, r1) /\ Unseen(w0, w1, u1)
  BY <1>1, StageUnseen
<1>3. w1.s = u1 /\ w1.n = w0.n
  BY <1>2 DEF Unseen
<1>4. u2 = Committed(w1.s, r2) /\ u2.money = w1.s.money /\ SoundRequest(r2, K, w1.n)
  BY <1>3
<1>5. PICK w2 : Stage(s, w2, K, A, no) /\ Queued(w1, w2, r2) /\ Unseen(w1, w2, u2)
  BY <1>2, <1>4, StageUnseen
<1>6. Ran(w2, <<r1, r2>>)
  BY <1>2, <1>5, RanOne, RanTwo
<1>7. Unseen(w0, w2, u2)
  BY <1>2, <1>5 DEF Unseen
<1> QED
  BY <1>5, <1>6, <1>7

\* It is done when they leave the items where they should be.
Fine(u1, u2, B, X, ok1) ==
    ok1 => /\ OneHand(settled, {}) /\ OneHand(u1, {})
           /\ Whole(u2, B, X, Active(phase), thrown, {})

LEMMA SweepTwoKeeps ==
    ASSUME NEW ds, NEW K, NEW G, NEW B, NEW X, NEW K1, NEW w0, NEW ok, NEW no, NEW ok1, NEW id, NEW row,
           SweepStart(ds, K, G, B, X, K1, w0, ok, no, ok1, id, row),
           NEW r1, SoundRequest(r1, K1, lastMail), r1.player = None,
           NEW u1, u1 = Committed(settled, r1), u1.money = settled.money,
           NEW r2, SoundRequest(r2, K1, lastMail), r2.player = None,
           NEW u2, u2 = Committed(u1, r2), u2.money = u1.money, u2.auction = settled.auction,
           Request(<<r1, r2>>), Fine(u1, u2, B, X, ok1)
    PROVE  IInv'
<1>1. /\ Stage(settled, w0, K1, Active(phase), no) /\ Starting(w0) /\ w0.s = settled
      /\ w0.n = lastMail /\ ~no
  BY DEF SweepStart
<1>2. SoundRequest(r1, K1, w0.n) /\ SoundRequest(r2, K1, w0.n)
  BY <1>1
<1>3. PICK w : /\ Stage(settled, w, K1, Active(phase), no) /\ Ran(w, <<r1, r2>>)
               /\ Unseen(w0, w, u2)
  BY <1>1, <1>2, StageTwo
<1>4. w.done = <<r1, r2>>
  BY <1>3 DEF Ran
<1>5. /\ w.n = lastMail /\ w.s = u2 /\ w.gold = G /\ w.bags = B /\ w.mails = X
      /\ w.lost = thrown /\ w.open = {}
  BY <1>3 DEF SweepStart, Unseen
<1>6. Sweeps(w, ok1)
  BY <1>4, <1>5 DEF SweepStart, Sweeps
<1>7. Passes(w.cs, settled, <<r1, r2>>)
  BY <1>3, <1>4 DEF Stage
<1>8. Proper(w, B, X, Active(phase), thrown, ok1)
  <2> SUFFICES ASSUME ok1
               PROVE  /\ Whole(w.s, B, X, Active(phase), thrown, {})
                      /\ \A k \in 0..Len(w.done) : OneHand(w.cs[k], {})
    BY DEF Proper
  <2>1. OneHand(settled, {}) /\ OneHand(u1, {}) /\ Whole(u2, B, X, Active(phase), thrown, {})
    BY DEF Fine
  <2>2. OneHand(u2, {})
    BY <2>1 DEF Whole
  <2>3. \A k \in 0..Len(<<r1, r2>>) : OneHand(w.cs[k], {})
    BY <1>7, <2>1, <2>2, CourseOfTwo
  <2> QED
    BY <1>4, <1>5, <2>1, <2>3
<1>9. PICK type, open : type = "normal" /\ open = {} /\ Start(ds, K, G, B, X, K1, w0, type, open, ok)
  BY DEF SweepStart
<1> QED
  BY <1>3, <1>5, <1>6, <1>8, <1>9, SweepKeeps

\* A mail is deleted with its item.
LEMMA SweepItemKeeps ==
    ASSUME IInv, NEW id \in MailIds, ReturnOrDeleteOldMail(id), NEW i, i = MailItem(id), i # None,
           ~(db.mail[id].messageType = "normal" /\ ~db.mail[id].returned)
    PROVE  IInv'
<1>1. PICK ds, K, G, B, X, K1, w0, ok, no, ok1, row :
         SweepStart(ds, K, G, B, X, K1, w0, ok, no, ok1, id, row)
  BY SweepStarts
<1>2. PICK r1, r2 : r1 = Txn({Delete("item_instance", i)}) /\ r2 = Txn({Delete("mail", id)})
  OBVIOUS
<1>3. Request(<<r1, r2>>)
  <2>1. Request(<<r1>> \o <<r2>>)
    BY <1>2 DEF ReturnOrDeleteOldMail
  <2> QED
    BY <2>1, JoinOne
<1>4. PICK u1, u2 : u1 = Committed(settled, r1) /\ u2 = Committed(u1, r2)
  OBVIOUS
<1>5. settled \in Tables(K1, lastMail) /\ lastMail \in Nat
  BY <1>1 DEF SweepStart
<1>6. i \in Items /\ LinkedTo(db, i, id)
  BY ItemOfMail
<1>7. /\ u1.money = settled.money /\ u1.character_inventory = settled.character_inventory
      /\ u1.item_instance = With(settled.item_instance, i, None) /\ u1.mail = settled.mail
      /\ u1.auction = settled.auction /\ u1.mail_items = settled.mail_items
  BY <1>2, <1>4, <1>5, <1>6, EffectOfSweptItem
<1>8. /\ SoundRequest(r1, K1, lastMail) /\ r1.player = None
      /\ SoundRequest(r2, K1, lastMail) /\ r2.player = None
  <2>1. \A st \in {Delete("item_instance", i)} : Sound(st, K1, lastMail)
    BY <1>5, SoundStatements
  <2>2. \A st \in {Delete("mail", id)} : Sound(st, K1, lastMail)
    BY <1>5, SoundStatements
  <2> QED
    BY <1>2, <2>1, <2>2, SoundTxn
<1>9. u1 \in Tables(K1, lastMail)
  BY <1>4, <1>5, <1>8, SoundCommitted
<1>10. /\ u2.money = u1.money /\ u2.character_inventory = u1.character_inventory
       /\ u2.item_instance = u1.item_instance /\ u2.mail = With(u1.mail, id, None)
       /\ u2.auction = u1.auction /\ u2.mail_items = u1.mail_items
  BY <1>2, <1>4, <1>9, EffectOfSweptMail
<1>11. u1.item_instance[i] = None /\ \A j \in Items : j # i => u1.item_instance[j] = settled.item_instance[j]
  BY <1>5, <1>6, <1>7, AreTables, WithRows
<1>12. ASSUME ok1
       PROVE  /\ OneHand(settled, {}) /\ OneHand(u1, {})
              /\ Whole(u2, B, X, Active(phase), thrown, {})
  <2>1. /\ settled.mail[id] = row /\ row # None /\ SameLinks(id)
        /\ row.receiver \notin Active(phase)
        /\ Whole(settled, B, X, Active(phase), thrown, {})
        /\ X \in Boxes(K1, lastMail) /\ Active(phase) \subseteq Players
    BY <1>1, <1>12 DEF SweepStart, Idle
  <2>2. OneHand(settled, {}) /\ OneItem(settled)
    BY <2>1 DEF Whole
  <2>3. settled.mail_items[i] # None /\ settled.mail_items[i].mail_id = id
    BY <1>6, <2>1 DEF LinkedTo, SameLinks
  <2>4. \A j \in Items : settled.mail_items[j] # None /\ settled.mail_items[j].mail_id = id => j = i
    BY <1>6, <2>2, <2>3 DEF OneItem
  <2>5. OneHand(u1, {})
    <3>1. \A j \in Items : Exists(u1, j) => Exists(settled, j)
      BY <1>11 DEF Exists
    <3> QED
      BY <1>7, <2>2, <3>1, OneHandSame
  <2>6. /\ u2.character_inventory = settled.character_inventory
        /\ u2.auction = settled.auction /\ u2.mail = With(settled.mail, id, None)
        /\ u2.mail_items = settled.mail_items
    BY <1>7, <1>10
  <2>7. \A j \in Items : /\ settled.mail_items[j] # None /\ settled.mail_items[j].mail_id = id
                         => u2.item_instance[j] = None
    BY <1>10, <1>11, <2>4
  <2>8. \A j \in Items : \/ settled.mail_items[j] # None /\ settled.mail_items[j].mail_id = id
                         \/ u2.item_instance[j] = settled.item_instance[j]
    BY <1>10, <1>11, <2>3
  <2>9. Whole(u2, B, X, Active(phase), thrown, {})
    BY <1>5, <2>1, <2>6, <2>7, <2>8, WholeSwept
  <2> QED
    BY <2>2, <2>5, <2>9
<1>13. Fine(u1, u2, B, X, ok1)
  BY <1>12 DEF Fine
<1>14. u2.auction = settled.auction /\ u2.money = u1.money
  BY <1>7, <1>10
<1> QED
  BY <1>1, <1>3, <1>4, <1>7, <1>8, <1>13, <1>14, SweepTwoKeeps

\* A mail is returned with its item.
LEMMA SweepReturnKeeps ==
    ASSUME IInv, NEW id \in MailIds, ReturnOrDeleteOldMail(id), NEW i, i = MailItem(id), i # None,
           db.mail[id].messageType = "normal", ~db.mail[id].returned
    PROVE  IInv'
<1>1. PICK ds, K, G, B, X, K1, w0, ok, no, ok1, row :
         SweepStart(ds, K, G, B, X, K1, w0, ok, no, ok1, id, row)
  BY SweepStarts
<1>2. PICK from, cols, new :
         /\ from = row.sender /\ new = [receiver |-> from]
         /\ cols = [sender |-> row.receiver, receiver |-> from, cod |-> 0, returned |-> TRUE]
  OBVIOUS
<1>3. PICK r1, r2 : r1 = Txn({Update("mail", id, cols)}) /\ r2 = Txn({Update("mail_items", i, new)})
  OBVIOUS
<1>4. /\ row = db.mail[id] /\ row \in Rows(K1[id]) /\ row \in MailRow
      /\ settled \in Tables(K1, lastMail) /\ lastMail \in Nat
  BY <1>1 DEF SweepStart
<1>5. Request(<<r1, r2>>)
  BY <1>2, <1>3, <1>4 DEF ReturnOrDeleteOldMail
<1>6. from \in Players /\ row.receiver \in Players
  BY <1>2, <1>4 DEF Rows, MailRow
<1>7. cols \in [sender : Players, receiver : Players, cod : {0}, returned : BOOLEAN]
  BY <1>2, <1>6
<1>8. /\ SoundRequest(r1, K1, lastMail) /\ r1.player = None
      /\ SoundRequest(r2, K1, lastMail) /\ r2.player = None
  <2>1. Sound(Update("mail", id, cols), K1, lastMail)
    <3>1. PICK st : st = Update("mail", id, cols)
      OBVIOUS
    <3>2. st[1] = "mail" /\ st[3] = "update" /\ st[4] = cols
      BY <3>1 DEF Update
    <3>3. Sound(st, K1, lastMail)
      BY <1>7, <3>2 DEF Sound
    <3> QED
      BY <3>1, <3>3
  <2>2. Sound(Update("mail_items", i, new), K1, lastMail)
    BY <1>2, <1>4, <1>6, SoundStatements
  <2>3. /\ \A st \in {Update("mail", id, cols)} : Sound(st, K1, lastMail)
        /\ \A st \in {Update("mail_items", i, new)} : Sound(st, K1, lastMail)
    BY <2>1, <2>2
  <2> QED
    BY <1>3, <2>3, SoundTxn
<1>9. PICK u1, u2 : u1 = Committed(settled, r1) /\ u2 = Committed(u1, r2)
  OBVIOUS
<1>10. u1 \in Tables(K1, lastMail)
  BY <1>4, <1>8, <1>9, SoundCommitted
<1>11. u1.money = settled.money /\ u1.auction = settled.auction
  <2>1. Spares({Update("mail", id, cols)}, "money") /\ Spares({Update("mail", id, cols)}, "auction")
    BY DEF Spares, Update
  <2> QED
    BY <1>3, <1>4, <1>9, <2>1, SparesKeep
<1>12. u2.money = u1.money /\ u2.auction = settled.auction
  <2>1. Spares({Update("mail_items", i, new)}, "money") /\ Spares({Update("mail_items", i, new)}, "auction")
    BY DEF Spares, Update
  <2> QED
    BY <1>3, <1>9, <1>10, <1>11, <2>1, SparesKeep
<1>13. i \in Items /\ LinkedTo(db, i, id)
  BY ItemOfMail
<1>14. ASSUME ok1
       PROVE  /\ OneHand(settled, {}) /\ OneHand(u1, {})
              /\ Whole(u2, B, X, Active(phase), thrown, {})
  <2>1. /\ settled.mail[id] = row /\ row # None /\ SameLinks(id)
        /\ row.receiver \notin Active(phase)
        /\ Whole(settled, B, X, Active(phase), thrown, {})
        /\ X \in Boxes(K1, lastMail) /\ Active(phase) \subseteq Players
    BY <1>1, <1>14 DEF SweepStart, Idle
  <2>2. OneHand(settled, {})
    BY <2>1 DEF Whole
  <2>3. settled.mail_items[i] # None /\ settled.mail_items[i].mail_id = id
    BY <1>13, <2>1 DEF LinkedTo, SameLinks
  <2>4. PICK row1, link, link1 : /\ row1 = Updated(row, cols) /\ link = settled.mail_items[i]
                                 /\ link1 = Updated(link, new)
    OBVIOUS
  <2>5. /\ u1.character_inventory = settled.character_inventory
        /\ u1.item_instance = settled.item_instance
        /\ u1.mail = With(settled.mail, id, row1)
        /\ u1.auction = settled.auction /\ u1.mail_items = settled.mail_items
    BY <1>3, <1>4, <1>9, <2>1, <2>4, EffectOfReturnedMail
  <2>6. u1.mail_items[i] # None
    BY <2>3, <2>5
  <2>7. /\ u2.character_inventory = u1.character_inventory
        /\ u2.item_instance = u1.item_instance /\ u2.mail = u1.mail
        /\ u2.auction = u1.auction /\ u2.mail_items = With(u1.mail_items, i, link1)
    BY <1>2, <1>3, <1>6, <1>9, <1>10, <1>13, <2>4, <2>5, <2>6, EffectOfReturnedItem
  <2>8. row1 \in MailRow /\ row1.receiver = from
    <3>1. row1 \in Rows(K1[id])
      BY <1>4, <1>7, <2>4, UpdatedMail
    <3>2. row1.receiver = from
      BY <1>2, <1>4, <2>4 DEF Updated, MailRow
    <3> QED
      BY <3>1, <3>2 DEF Rows
  <2>9. link1 \in Link /\ link1.mail_id = id /\ link1.receiver = from
    <3>1. link \in Link /\ link.mail_id = id
      BY <1>4, <1>13, <2>3, <2>4, Columns
    <3>2. new \in [receiver : Players] /\ new.receiver = from
      BY <1>2, <1>6
    <3> QED
      BY <2>4, <3>1, <3>2, UpdatedLink
  <2>10. OneHand(u1, {})
    <3>1. \A j \in Items : Exists(u1, j) => Exists(settled, j)
      BY <2>5 DEF Exists
    <3> QED
      BY <2>2, <2>5, <3>1, OneHandSame
  <2>11. /\ u2.character_inventory = settled.character_inventory
         /\ u2.item_instance = settled.item_instance
         /\ u2.auction = settled.auction /\ u2.mail = With(settled.mail, id, row1)
         /\ u2.mail_items = With(settled.mail_items, i, link1)
    BY <2>5, <2>7
  <2>12. settled.mail[id] # None /\ settled.mail[id].receiver \notin Active(phase)
    BY <2>1
  <2>13. row1.receiver = link1.receiver
    BY <2>8, <2>9
  <2>14. Whole(u2, B, X, Active(phase), thrown, {})
    BY <1>4, <1>13, <2>1, <2>3, <2>8, <2>9, <2>11, <2>12, <2>13, WholeReturn
  <2> QED
    BY <2>2, <2>10, <2>14
<1>15. Fine(u1, u2, B, X, ok1)
  BY <1>14 DEF Fine
<1> QED
  BY <1>1, <1>5, <1>8, <1>9, <1>11, <1>12, <1>15, SweepTwoKeeps

LEMMA SweptKeeps ==
    ASSUME IInv, NEW id \in MailIds, ReturnOrDeleteOldMail(id)
    PROVE  IInv'
<1>1. PICK i : i = MailItem(id)
  OBVIOUS
<1>2. CASE i = None
  BY <1>1, <1>2, SweepEmptyKeeps
<1>3. CASE i # None /\ db.mail[id].messageType = "normal" /\ ~db.mail[id].returned
  BY <1>1, <1>3, SweepReturnKeeps
<1>4. CASE i # None /\ ~(db.mail[id].messageType = "normal" /\ ~db.mail[id].returned)
  BY <1>1, <1>4, SweepItemKeeps
<1> QED
  BY <1>2, <1>3, <1>4

-----------------------------------------------------------------------------
\* Every step.

LEMMA SettledIsTables ==
    ASSUME NEW ds, NEW K, NEW n, NEW d, NEW q, NEW s, Backlog(ds, K, n, d, q, s)
    PROVE  /\ s \in Tables(K, n) /\ d \in Tables(K, n)
           /\ Len(q) \in Nat /\ 0 \in 0..Len(q) /\ Len(q) \in 0..Len(q)
           /\ ds[0] = d /\ ds[Len(q)] = s
<1>1. Len(q) \in Nat
  BY DEF Backlog, IsSeq
<1>2. 0 \in 0..Len(q) /\ Len(q) \in 0..Len(q)
  BY <1>1
<1> QED
  BY <1>1, <1>2 DEF Backlog, Passes

LEMMA HouseIsTable ==
    ASSUME IInv
    PROVE  house \in [Items -> Auction \cup {None}] /\ IsTable(house, Items)
<1>1. PICK ds, K : Typed(K) /\ Backlog(ds, K, lastMail, db, queue, settled)
  BY DEF IInv
<1>2. settled.auction \in [Items -> Auction \cup {None}]
  BY <1>1, SettledIsTables, Columns
<1>3. house \in [Items -> Auction \cup {None}]
  BY <1>1, <1>2 DEF Typed
<1> QED
  BY <1>3 DEF IsTable

\* One auction changes, and has no bid, or has a bidder.
LEMMA BidsKept ==
    ASSUME BidsAreMade, IsTable(house, Items), NEW i \in Items, NEW a,
           a # None /\ a.bid # 0 => a.bidder # None,
           house' = [house EXCEPT ![i] = a]
    PROVE  BidsAreMade'
<1>1. \A j \in Items : house'[j] = IF j = i THEN a ELSE house[j]
  BY DEF IsTable
<1> QED
  BY <1>1 DEF BidsAreMade

LEMMA BidsStay ==
    ASSUME BidsAreMade, house' = house
    PROVE  BidsAreMade'
BY DEF BidsAreMade

LEMMA BidIsMade ==
    ASSUME IInv, BidsAreMade, NEW p \in Players, NEW i \in Items, NEW price \in 1..gold[p],
           HandleAuctionPlaceBid(p, i, price)
    PROVE  BidsAreMade'
<1>1. house[i] \in Auction /\ IsTable(house, Items) /\ p # None
  BY HouseIsTable, RowIsSome DEF HandleAuctionPlaceBid
<1>2. CASE house' = [house EXCEPT ![i] = None]
  BY <1>1, <1>2, BidsKept
<1>3. ASSUME NEW newbid, house' = [house EXCEPT ![i] = [house[i] EXCEPT !.bidder = p, !.bid = newbid]]
      PROVE  BidsAreMade'
  <2>1. PICK b : b = [house[i] EXCEPT !.bidder = p, !.bid = newbid]
    OBVIOUS
  <2>2. b.bidder = p
    BY <1>1, <2>1 DEF Auction
  <2> QED
    BY <1>1, <1>3, <2>1, <2>2, BidsKept
<1>4. \/ house' = [house EXCEPT ![i] = None]
      \/ \E newbid : house' = [house EXCEPT ![i] = [house[i] EXCEPT !.bidder = p, !.bid = newbid]]
  BY DEF HandleAuctionPlaceBid
<1> QED
  BY <1>2, <1>3, <1>4

LEMMA MailStepKeeps ==
    ASSUME IInv, BidsAreMade, NEW p \in Players, MailStep(p)
    PROVE  IInv' /\ BidsAreMade'
<1>1. ASSUME NEW to \in Players, NEW item \in Items \cup {None},
             NEW money \in Amounts, NEW cod \in Prices,
             HandleSendMail(p, to, item, money, cod)
      PROVE  IInv' /\ BidsAreMade'
  <2>1. money \in Nat /\ cod \in Nat
    BY AuctionMailAssumption
  <2>2. house' = house
    BY <1>1 DEF HandleSendMail
  <2> QED
    BY <1>1, <2>1, <2>2, SendMailKeeps, BidsStay
<1>2. ASSUME NEW m \in mails[p], HandleMailTakeMoney(p, m)
      PROVE  IInv' /\ BidsAreMade'
  <2>1. house' = house
    BY <1>2 DEF HandleMailTakeMoney
  <2> QED
    BY <1>2, <2>1, TakeMoneyKeeps, BidsStay
<1>3. ASSUME NEW m \in mails[p], HandleMailTakeItem(p, m)
      PROVE  IInv' /\ BidsAreMade'
  <2>1. house' = house
    BY <1>3 DEF HandleMailTakeItem
  <2> QED
    BY <1>3, <2>1, TakeItemKeeps, BidsStay
<1>4. ASSUME NEW m \in mails[p], HandleMailReturnToSender(p, m)
      PROVE  IInv' /\ BidsAreMade'
  <2>1. house' = house
    BY <1>4 DEF HandleMailReturnToSender
  <2> QED
    BY <1>4, <2>1, ReturnKeeps, BidsStay
<1>5. ASSUME NEW m \in mails[p], HandleMailMarkAsRead(p, m)
      PROVE  IInv' /\ BidsAreMade'
  <2>1. house' = house
    BY <1>5 DEF HandleMailMarkAsRead
  <2> QED
    BY <1>5, <2>1, MarkAsReadKeeps, BidsStay
<1>6. ASSUME NEW m \in mails[p], HandleMailDelete(p, m)
      PROVE  IInv' /\ BidsAreMade'
  <2>1. house' = house
    BY <1>6 DEF HandleMailDelete
  <2> QED
    BY <1>6, <2>1, DeleteKeeps, BidsStay
<1> QED
  BY <1>1, <1>2, <1>3, <1>4, <1>5, <1>6 DEF MailStep

LEMMA AuctionStepKeeps ==
    ASSUME IInv, BidsAreMade, NEW p \in Players, AuctionStep(p)
    PROVE  IInv' /\ BidsAreMade'
<1>0. IsTable(house, Items)
  BY HouseIsTable
<1>1. ASSUME NEW i \in Items, NEW startbid \in StartBids, NEW buyout \in Buyouts,
             HandleAuctionSellItem(p, i, startbid, buyout)
      PROVE  IInv' /\ BidsAreMade'
  <2>1. startbid \in Nat /\ buyout \in Nat
    BY AuctionMailAssumption
  <2>2. PICK a : a = [owner |-> p, startbid |-> startbid, buyout |-> buyout, bid |-> 0,
                      bidder |-> None]
    OBVIOUS
  <2>3. a.bid = 0 /\ house' = [house EXCEPT ![i] = a]
    BY <1>1, <2>2 DEF HandleAuctionSellItem
  <2> QED
    BY <1>0, <1>1, <2>1, <2>3, SellKeeps, BidsKept
<1>2. ASSUME NEW i \in Items, NEW price \in 1..gold[p], HandleAuctionPlaceBid(p, i, price)
      PROVE  IInv' /\ BidsAreMade'
  BY <1>2, PlaceBidKeeps, BidIsMade
<1>3. ASSUME NEW i \in Items, HandleAuctionRemoveItem(p, i)
      PROVE  IInv' /\ BidsAreMade'
  <2>1. house' = [house EXCEPT ![i] = None]
    BY <1>3 DEF HandleAuctionRemoveItem
  <2> QED
    BY <1>0, <1>3, <2>1, RemoveItemKeeps, BidsKept
<1> QED
  BY <1>1, <1>2, <1>3 DEF AuctionStep

LEMMA StepKeeps ==
    ASSUME IInv, BidsAreMade, [Next]_vars
    PROVE  IInv' /\ BidsAreMade'
<1>0. IsTable(house, Items)
  BY HouseIsTable
<1>1. ASSUME NEW p \in Players, MailStep(p) PROVE IInv' /\ BidsAreMade'
  BY <1>1, MailStepKeeps
<1>2. ASSUME NEW p \in Players, AuctionStep(p) PROVE IInv' /\ BidsAreMade'
  BY <1>2, AuctionStepKeeps
<1>3. ASSUME NEW p \in Players, PeriodicSave(p) PROVE IInv' /\ BidsAreMade'
  <2>1. house' = house
    BY <1>3 DEF PeriodicSave
  <2> QED
    BY <1>3, <2>1, PeriodicSaveKeeps, BidsStay
<1>4. ASSUME NEW p \in Players, LogoutPlayer(p) PROVE IInv' /\ BidsAreMade'
  <2>1. house' = house
    BY <1>4 DEF LogoutPlayer
  <2> QED
    BY <1>4, <2>1, LogoutKeeps, BidsStay
<1>5. ASSUME NEW p \in Players, HandlePlayerLoginOpcode(p) PROVE IInv' /\ BidsAreMade'
  <2>1. house' = house
    BY <1>5 DEF HandlePlayerLoginOpcode
  <2> QED
    BY <1>5, <2>1, LoginOpcodeKeeps, BidsStay
<1>6. ASSUME NEW p \in Players, HandlePlayerLogin(p) PROVE IInv' /\ BidsAreMade'
  <2>1. house' = house
    BY <1>6 DEF HandlePlayerLogin
  <2> QED
    BY <1>6, <2>1, LoginKeeps, BidsStay
<1>7. ASSUME NEW i \in Items, AuctionUpdate(i) PROVE IInv' /\ BidsAreMade'
  <2>1. house' = [house EXCEPT ![i] = None]
    BY <1>7 DEF AuctionUpdate
  <2> QED
    BY <1>0, <1>7, <2>1, AuctionUpdateKeeps, BidsKept
<1>8. ASSUME NEW id \in MailIds, ReturnOrDeleteOldMail(id) PROVE IInv' /\ BidsAreMade'
  <2>1. house' = house
    BY <1>8 DEF ReturnOrDeleteOldMail
  <2> QED
    BY <1>8, <2>1, SweptKeeps, BidsStay
<1>9. CASE Execute
  <2>1. house' = house
    BY <1>9 DEF Execute
  <2> QED
    BY <1>9, <2>1, ExecuteKeeps, BidsStay
<1>10. CASE UNCHANGED vars
  <2>1. UNCHANGED <<phase, loaded, gold, bags, mails, dirty, house, db, queue, settled, lastMail,
                    thrown, swept>>
    BY <1>10 DEF vars
  <2>2. IInv'
    BY <2>1 DEF IInv, Typed
  <2> QED
    BY <2>1, <2>2, BidsStay
<1> QED
  BY <1>1, <1>2, <1>3, <1>4, <1>5, <1>6, <1>7, <1>8, <1>9, <1>10 DEF Next

\* At first everyone is online with what he has on the tables.
LEMMA InitHolds == Init => IInv /\ BidsAreMade
<1> SUFFICES ASSUME Init PROVE IInv /\ BidsAreMade
  OBVIOUS
<1>1. PICK start \in Starts :
         db = [money |-> start.gold,
               character_inventory |-> start.holder,
               item_instance |-> [i \in Items |-> IF start.holder[i] # None THEN i ELSE None],
               mail |-> [id \in MailIds |-> None],
               mail_items |-> [i \in Items |-> None],
               auction |-> [i \in Items |-> None]]
  BY DEF Init
<1>2. /\ start.gold \in [Players -> Nat] /\ start.holder \in [Items -> Players \cup {None}]
      /\ MaxMails \in Nat
  BY AuctionMailAssumption
<1>3. /\ db.money \in [Players -> Nat]
      /\ db.character_inventory \in [Items -> Players \cup {None}]
      /\ db.item_instance \in [Items -> Items \cup {None}]
      /\ db.mail \in [MailIds -> MailRow \cup {None}]
      /\ db.mail_items \in [Items -> Link \cup {None}]
      /\ db.auction \in [Items -> Auction \cup {None}]
  BY <1>1, <1>2
<1>4. /\ \A id \in MailIds : db.mail[id] = None
      /\ \A i \in Items : /\ db.mail_items[i] = None /\ db.auction[i] = None
                          /\ Exists(db, i) <=> db.character_inventory[i] # None
  BY <1>1, RowIsSome DEF Exists
<1>5. PICK K : K = [id \in MailIds |-> "normal"]
  OBVIOUS
<1>6. K \in Kinds
  BY <1>5 DEF Kinds
<1>7. db \in Tables(K, 0)
  BY <1>1, <1>3, <1>4 DEF Tables
<1>8. PICK ds : ds = [k \in 0..0 |-> db]
  OBVIOUS
<1>9. /\ queue = <<>> /\ settled = db /\ lastMail = 0 /\ Len(queue) = 0 /\ IsSeq(queue)
      /\ 0..Len(queue) = {0} /\ 1..Len(queue) = {} /\ ds[0] = db
  <2>1. queue = <<>> /\ settled = db /\ lastMail = 0 /\ <<>> \in Seq({})
    BY DEF Init
  <2> QED
    BY <1>8, <2>1 DEF IsSeq
<1>10. Backlog(ds, K, lastMail, db, queue, settled)
  BY <1>7, <1>9 DEF Backlog, Passes
<1>11. /\ gold = db.money /\ bags = [p \in Players |-> LoadInventory(db, p)]
       /\ mails = [p \in Players |-> {}] /\ loaded = [p \in Players |-> None]
       /\ phase = [p \in Players |-> "online"] /\ dirty = [p \in Players |-> FALSE]
       /\ house = db.auction /\ swept = FALSE
  BY DEF Init
<1>12. bags \in [Players -> SUBSET Items] /\ mails \in Boxes(K, 0)
  BY <1>11 DEF LoadInventory, Boxes
<1>13. Seen(ds, K, lastMail, gold, bags, mails, queue, phase, loaded, gold, bags, mails)
  BY <1>3, <1>9, <1>11, <1>12 DEF Seen
<1>14. Typed(K)
  <2>1. phase \in [Players -> {"offline", "loading", "online"}]
    BY <1>11
  <2>2. IsTable(loaded, Players)
    BY <1>11 DEF IsTable
  <2>3. gold \in [Players -> Nat] /\ lastMail \in 0..MaxMails /\ mails \in Boxes(K, lastMail)
    BY <1>2, <1>3, <1>9, <1>11, <1>12
  <2>4. dirty \in [Players -> BOOLEAN] /\ swept \in BOOLEAN /\ house = settled.auction
    BY <1>9, <1>11
  <2> QED
    BY <1>6, <1>12, <2>1, <2>2, <2>3, <2>4 DEF Typed
<1>15. Whole(db, bags, mails, Active(phase), thrown, {})
  <2>1. OneHand(db, {})
    BY <1>4 DEF OneHand
  <2>2. Linked(db) /\ OneItem(db) /\ Placed(db, thrown)
    BY <1>4 DEF Linked, OneItem, Placed
  <2>3. Views(db, bags, mails, Active(phase))
    BY <1>11 DEF Views, Active, Distinct
  <2> QED
    BY <2>1, <2>2, <2>3 DEF Whole
<1>16. Sane(ds, gold, bags, mails, queue, settled, Active(phase), thrown, swept)
  <2>1. OneHand(ds[0], Deleted(queue, 0))
    BY <1>4, <1>9 DEF OneHand
  <2> QED
    BY <1>9, <1>11, <1>15, <2>1 DEF Sane, Active
<1>17. IInv
  BY <1>10, <1>13, <1>14, <1>16 DEF IInv
<1>18. BidsAreMade
  BY <1>4, <1>11 DEF BidsAreMade
<1> QED
  BY <1>17, <1>18

LEMMA Invariance == Spec => [](IInv /\ BidsAreMade)
<1>1. IInv /\ BidsAreMade /\ [Next]_vars => (IInv /\ BidsAreMade)'
  BY StepKeeps
<1> QED
  BY <1>1, InitHolds, PTL DEF Spec

\* What the invariant says of the state, with the tables, the memory and the types it speaks of.
LEMMA Facts ==
    ASSUME IInv
    PROVE  \E ds, K, G, B, X :
              /\ Typed(K)
              /\ Backlog(ds, K, lastMail, db, queue, settled)
              /\ Seen(ds, K, lastMail, G, B, X, queue, phase, loaded, gold, bags, mails)
              /\ Sane(ds, G, B, X, queue, settled, Active(phase), thrown, swept)
              /\ settled \in Tables(K, lastMail) /\ db \in Tables(K, lastMail)
              /\ ~swept => OneHand(db, Deleted(queue, 0))
<1>1. PICK ds, K, G, B, X :
        /\ Typed(K)
        /\ Backlog(ds, K, lastMail, db, queue, settled)
        /\ Seen(ds, K, lastMail, G, B, X, queue, phase, loaded, gold, bags, mails)
        /\ Sane(ds, G, B, X, queue, settled, Active(phase), thrown, swept)
  BY DEF IInv
<1>2. settled \in Tables(K, lastMail) /\ db \in Tables(K, lastMail) /\ 0 \in 0..Len(queue) /\ ds[0] = db
  BY <1>1, SettledIsTables
<1>3. ~swept => OneHand(db, Deleted(queue, 0))
  BY <1>1, <1>2 DEF Sane
<1> QED
  BY <1>1, <1>2, <1>3

\* The items that a login finds in the mails: no item in two of them, and each where its link is.
LEMMA CarriersLinked ==
    ASSUME NEW t, NEW i \in Items
    PROVE  /\ \A id \in Carriers(t, i) : In(t, i, id)
           /\ Cardinality(Carriers(t, i)) <= 1
           /\ Carriers(t, i) # {} => Exists(t, i) /\ t.mail_items[i] # None
<1>1. ASSUME NEW id \in Carriers(t, i) PROVE In(t, i, id)
  <2>1. MailedItem(t, id) = i /\ i # None
    BY RowIsSome DEF Carriers
  <2> QED
    BY <2>1, Mailed
<1>2. \A id \in Carriers(t, i) : id = t.mail_items[i].mail_id
  BY <1>1 DEF In
<1>3. Cardinality(Carriers(t, i)) <= 1
  <2>1. CASE Carriers(t, i) = {}
    BY <2>1, FS_EmptySet
  <2>2. CASE Carriers(t, i) # {}
    <3>1. PICK id : Carriers(t, i) = {id}
      BY <1>2, <2>2
    <3>2. Cardinality({id}) = 1
      BY FS_Singleton
    <3> QED
      BY <3>1, <3>2
  <2> QED
    BY <2>1, <2>2
<1>4. Carriers(t, i) # {} => Exists(t, i) /\ t.mail_items[i] # None
  BY <1>1 DEF In
<1> QED
  BY <1>1, <1>3, <1>4

LEMMA LinkedIsCarried ==
    ASSUME NEW kind, NEW n, NEW t \in Tables(kind, n), Linked(t), OneItem(t),
           NEW i \in Items, Exists(t, i), t.mail_items[i] # None
    PROVE  Carriers(t, i) # {}
<1> DEFINE id == t.mail_items[i].mail_id
<1>1. id \in MailIds /\ t.mail[id] # None /\ In(t, i, id)
  BY Columns DEF Linked, In, Link
<1>2. MailedItem(t, id) = i
  BY <1>1, Mailed
<1> QED
  BY <1>1, <1>2 DEF Carriers
-----------------------------------------------------------------------------
\* The theorems.

LEMMA TypesFollow == IInv => TypeOK
<1> SUFFICES ASSUME IInv PROVE TypeOK
  OBVIOUS
<1>1. PICK K : /\ Typed(K)
               /\ settled \in Tables(K, lastMail) /\ db \in Tables(K, lastMail)
  BY Facts
<1>2. ASSUME NEW m \in UNION {mails[q] : q \in Players}
      PROVE  /\ Row(m) \in MailRow
             /\ m.id \in MailIds /\ m.item \in Items \cup {None}
             /\ m.state \in {"unchanged", "changed", "deleted"}
  <2>1. PICK q \in Players : m \in mails[q]
    OBVIOUS
  <2>2. m \in Mails(K, lastMail)
    BY <1>1, <2>1, BoxMails DEF Typed
  <2> QED
    BY <2>2 DEF Mails, Rows
<1>3. /\ db.money \in [Players -> Nat]
      /\ db.mail \in [MailIds -> MailRow \cup {None}]
      /\ db.auction \in [Items -> Auction \cup {None}]
  BY <1>1, Columns
<1> QED
  BY <1>1, <1>2, <1>3, HouseIsTable DEF TypeOK, Typed

\* The tables hold what their columns may hold and memory what its classes may hold; in particular
\* no handler leaves a purse below zero (the unsigned PLAYER_FIELD_COINAGE, ModifyMoney).
THEOREM TypesStayCorrect == Spec => []TypeOK
BY Invariance, TypesFollow, PTL

LEMMA LoginsFollow == IInv => LoginIsCurrent
<1> SUFFICES ASSUME IInv, NEW p \in Players, loaded[p] # None
             PROVE  /\ loaded[p].gold = settled.money[p]
                    /\ ~swept => loaded[p].bags = LoadInventory(settled, p)
  BY DEF LoginIsCurrent
<1>1. PICK ds, K, G, B, X :
        /\ Seen(ds, K, lastMail, G, B, X, queue, phase, loaded, gold, bags, mails)
        /\ Sane(ds, G, B, X, queue, settled, Active(phase), thrown, swept)
  BY Facts
<1>2. phase[p] = "loading" /\ loaded[p] = View(G, B, X, p)
  BY <1>1 DEF Seen
<1>3. loaded[p].gold = G[p] /\ loaded[p].bags = B[p] /\ p \in Active(phase)
  BY <1>2 DEF View, Active
<1> QED
  BY <1>1, <1>3 DEF Sane, Whole, Views

\* What the queries of a login have read is still true when its character enters the world: the
\* saves of his logout are done before the queries, and nobody else touches his purse or inventory.
THEOREM LoginsAreCurrent == Spec => []LoginIsCurrent
BY Invariance, LoginsFollow, PTL

LEMMA MemoryFollows == IInv => MemoryIsSaved
<1> SUFFICES ASSUME IInv PROVE MemoryIsSaved
  OBVIOUS
<1>1. PICK ds, K, G, B, X :
        /\ Typed(K)
        /\ Seen(ds, K, lastMail, G, B, X, queue, phase, loaded, gold, bags, mails)
        /\ Sane(ds, G, B, X, queue, settled, Active(phase), thrown, swept)
  BY Facts
<1>2. ASSUME NEW p \in Players, online(p)
      PROVE  /\ gold[p] = settled.money[p]
             /\ ~swept => /\ bags[p] = LoadInventory(settled, p)
                          /\ \A m \in mails[p] : /\ settled.mail[m.id] = Row(m)
                                                 /\ MailedItem(settled, m.id) = m.item
  <2>1. G[p] = gold[p] /\ B[p] = bags[p] /\ X[p] = mails[p]
    BY <1>1, <1>2 DEF Seen, online
  <2>2. p \in Active(phase)
    BY <1>2 DEF Active, online
  <2>3. gold[p] = settled.money[p]
    BY <1>1, <2>1, <2>2 DEF Sane
  <2>4. ~swept => /\ bags[p] = LoadInventory(settled, p)
                  /\ \A m \in mails[p] : CurrentMail(settled, m, p)
    BY <1>1, <2>1, <2>2 DEF Sane, Whole, Views
  <2> QED
    BY <2>3, <2>4 DEF CurrentMail
<1> QED
  BY <1>1, <1>2 DEF MemoryIsSaved, Typed

\* Every handler saves what it changes: the auctions, and the purse, the inventory and the mails of
\* every character in the world are what the database will hold when its queue is done.
THEOREM MemoryStaysSaved == Spec => []MemoryIsSaved
BY Invariance, MemoryFollows, PTL

LEMMA PlacesFollow == IInv => ItemsInOnePlace
<1> SUFFICES ASSUME IInv, ~swept, NEW i \in Items
             PROVE  /\ Cardinality(Carriers(settled, i)) <= 1
                    /\ ~(Held(settled, i) /\ Carriers(settled, i) # {})
                    /\ ~(OnSale(settled, i) /\ (Held(settled, i) \/ Carriers(settled, i) # {}))
                    /\ Exists(settled, i) /\ i \notin thrown =>
                          Held(settled, i) \/ OnSale(settled, i) \/ Carriers(settled, i) # {}
  BY DEF ItemsInOnePlace
<1>1. PICK ds, K, G, B, X :
        /\ settled \in Tables(K, lastMail)
        /\ Sane(ds, G, B, X, queue, settled, Active(phase), thrown, swept)
  BY Facts
<1>2. OneHand(settled, {}) /\ Linked(settled) /\ OneItem(settled) /\ Placed(settled, thrown)
  BY <1>1 DEF Sane, Whole
<1>3. /\ Cardinality(Carriers(settled, i)) <= 1
      /\ Carriers(settled, i) # {} => Exists(settled, i) /\ settled.mail_items[i] # None
  BY CarriersLinked
<1>4. Exists(settled, i) /\ settled.mail_items[i] # None => Carriers(settled, i) # {}
  BY <1>1, <1>2, LinkedIsCarried
<1> QED
  BY <1>2, <1>3, <1>4 DEF OneHand, Placed, Held, OnSale

\* Whatever the order of mails, sales, bids, cancelled and ended auctions, logouts and logins, an
\* item is in one inventory, one mail or one auction, and never nowhere, until an old mail is swept
\* while its receiver uses it or a mail from the auction house is "returned".
THEOREM ItemsStayInOnePlace == Spec => []ItemsInOnePlace
BY Invariance, PlacesFollow, PTL

LEMMA CrashesFollow == IInv => CrashLeavesOneHand
<1> SUFFICES ASSUME IInv, ~swept, NEW i \in Items
             PROVE  /\ Cardinality(Carriers(db, i)) <= 1
                    /\ ~(Held(db, i) /\ (OnSale(db, i) \/ Carriers(db, i) # {}))
                    /\ OnSale(db, i) /\ Carriers(db, i) # {} =>
                          \E n \in DOMAIN queue : Delete("auction", i) \in queue[n].body
  BY DEF CrashLeavesOneHand
<1>1. PICK ds, K : /\ Backlog(ds, K, lastMail, db, queue, settled)
                   /\ ~swept => OneHand(db, Deleted(queue, 0))
  BY Facts
<1>2. DOMAIN queue = 1..Len(queue)
  <2>1. PICK S : queue \in Seq(S)
    BY <1>1 DEF Backlog, IsSeq
  <2> QED
    BY <2>1
<1>3. i \in Deleted(queue, 0) => \E n \in DOMAIN queue : Delete("auction", i) \in queue[n].body
  BY <1>2 DEF Deleted
<1>4. /\ Cardinality(Carriers(db, i)) <= 1
      /\ Carriers(db, i) # {} => Exists(db, i) /\ db.mail_items[i] # None
  BY CarriersLinked
<1> QED
  BY <1>1, <1>3, <1>4 DEF OneHand, Held, OnSale

\* A handler queues its requests one by one and the delay thread does them one by one; between any
\* two of them no item is in two hands, but that an ended auction may still be on the tables while
\* its mail is already sent, with the request to delete it in the queue.
THEOREM CrashesLeaveOneHand == Spec => []CrashLeavesOneHand
BY Invariance, CrashesFollow, PTL
=============================================================================
