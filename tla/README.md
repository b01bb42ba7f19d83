# Verification of the cMaNGOS classic server

This directory holds TLA+ specifications of the parts of the server whose
correctness depends on the order of events: threads, messages, queues, database
transactions, connections that come and go. TLC checks them on small instances
(the `.cfg` files); TLAPS proves the invariants of the database layer, the map
updates, the sessions, the trade, the auctions and mail and the battleground queue, and three
refinements, for every value of their constants. All paths below are relative to `src/src/`.

    tlc -config DbRuntime.cfg MCAsyncDatabase.tla      # one run
    tlapm WorldSessionsProofs.tla                      # the proofs of one component

## The system and its parts

`mangosd` is one process. Its **world thread** (`mangosd/WorldRunnable.cpp`) runs
`World::Update` in a loop: it executes the closures posted to it, updates all
sessions, updates all maps, and runs the callbacks of finished database queries.
Around it there are

* the **network threads** (boost asio), which authenticate connections, create
  sessions and put packets into their queues;
* the **map workers**, which update maps in parallel while the world thread waits;
* the **battleground queue thread** and the **LFG queue thread**, which talk to the
  world thread by `Messager` in both directions;
* one **delay thread per database**, which executes what the others only queue;
* the **console, RA and SOAP** threads, and the **master thread**, which starts and
  joins all of them.

`realmd` is a second process with one thread, for login.

| component | state | operations | interacts with | hard behaviour | what makes it correct |
|---|---|---|---|---|---|
| Asynchronous database layer (`shared/Database`) | a queue of operations, a transaction per thread, results, one shared connection with a lock | `Execute`, `BeginTransaction`, `CommitTransaction`, `AsyncQuery`, `DirectExecute`, halt | every thread that saves or loads | threads race for the connection; statements fail inside a transaction; the halt meets the thread anywhere; callbacks run with a lock held | transactions are atomic and isolated, one thread's requests keep their order, a load sees the save before it, nothing is lost at halt |
| Map updates (`Maps/MapUpdater`, `MapManager`) | maps, a queue of requests, the number of pending requests, a message queue per map | schedule, wait, create, unload, post, halt | world thread, workers, anyone who posts | two condition variables, cancellation, messages posted while messages run | every loaded map is updated once per tick, by one thread; nobody updates a map that is being unloaded; no wakeup or message is lost |
| Sessions and player queue (`Server/WorldSession`, `WorldSocket`, `World`) | sessions by account, new sessions, the player queue, the state and socket of each session, its character | authenticate, reconnect, queue, admit, log in, log out, kick, time out, halt | network threads, database callbacks, console | answers to logins come ticks later; a client returns while its old session is closing; the list changes while it is walked | the queue is first come first served and holds nothing stale; a character is in the world exactly while a session has it; sessions without a client end |
| Trade (`Trade/`) | two `TradeData`, accepted flags | start, offer, accept, cancel | inventories, database | the offer changes after the other side accepted; items vanish while offered | what changes hands is what both accepted; nothing is lost or doubled |
| Auctions and mail | auctions, mails, items in transit, money | sell, bid, buy out, expire, send, return, take | inventories, database, offline players | several transactions for one action; a crash between two of them | an item is in one place, in memory and after a restart |
| Timed events (`framework/Utilities/EventProcessor`) | a multimap from time to event | add, update, kill, modify | units, spells, battleground queue | events that add or kill events while they run | executed at most once, deleted exactly once |
| Battleground queue (modelled) and LFG queue (not) | groups by bracket and team, invitations | join, leave, invite, answer, remind, expire | world thread by messages, maps | both sides act on what the other has already changed | no invitation without a place, no place taken twice, a timeout and an answer exclude each other |
| Loot and rolls, groups | slots, votes, permissions; members, leader | loot, vote, pass; join, leave, promote | inventories, maps, database | members leave during a roll | an item is awarded once; a group has a leader among its members |
| Grids, instances | grid states, respawn times, saves and binds | load, unload, save, reset | maps, database | objects cross a border while a grid unloads | no object in an unloaded grid; no reset of an instance in use |
| Login server (`realmd`) | the status of each connection | challenge, proof, reconnect, realm list | clients, database | commands out of order, overlapping queries | no realm list without a proof |
| Threat, pools, game events, guilds, channels, tickets, spells, movement, AI, quests, content, utilities | – | – | – | mostly sequential, or content | see `components` in `PROJECT.json` |

## Modules

| module | what it is |
|---|---|
| `SerialDatabase` | what the database layer promises: requests of one thread in order, transactions atomic, and exactly what a refusal of the server leaves of that |
| `AsyncDatabase` | the database layer: callers, delay thread, shared connection, result queue, start and halt |
| `AsyncDatabaseProofs` | its inductive invariant and the theorems |
| `MCAsyncDatabase` | instances for TLC |
| `MapTicks` | what the map manager promises: in a tick every loaded map is updated once |
| `MapUpdater` | `MapManager::Update`, the workers with their queue, the messages of the maps |
| `MapUpdaterProofs` | the theorems about it |
| `MCMapUpdater` | instances |
| `SessionAdmission` | what the player queue promises |
| `WorldSessions` | `HandleAuthSession`, `UpdateSessions`, `WorldSession::Update`, login, logout, kick, halt |
| `WorldSessionsProofs` | the theorems about it |
| `MCWorldSessions` | instances |
| `Trade` | `TradeData`, the trade handlers, the exchange in `HandleAcceptTradeOpcode` |
| `TradeProofs` | the theorems about it, the exchange slot by slot included |
| `MCTrade` | instances |
| `Market` | what auctions and mail promise: items change hands by gift, sale or delivery, and nobody's wealth grows by itself |
| `CharacterTables` | the tables of the character database and the statements that change them |
| `AuctionMail` | auctions, mail, save, logout and login, over the queue of the delay thread (extends `CharacterTables`) |
| `AuctionMailProofs` | what single requests do to the tables, the invariant, one lemma for each handler, and the theorems |
| `MCAuctionMail` | instances |
| `BattleGroundQueue` | the queue thread, the world thread's side of it, the messages between them, the life of a battleground |
| `BattleGroundQueueProofs` | types, lists and invitations: one lemma for each message and handler, and the theorems |
| `BattleGroundQueueAgreed` | that the queue and the players' index agree (extends `BattleGroundQueueProofs`) |
| `MCBattleGroundQueue` | instances |
| `Recursion` | induction and the existence of recursive functions, stated of sets, for the proofs |

`CharacterTables` and `AuctionMail` use the database layer by its promise
(`SerialDatabase`) where the server refuses nothing: requests are executed in order, a
transaction whole.

### AsyncDatabase

A *caller* is a thread that uses the database. `transaction[c]` is its open
transaction (`m_currentTransaction`), `queue` is `m_sqlQueue` and `batch` the local
queue of `ProcessRequests`, `exec[t]` the operation a thread is executing and how far
it is with it, `connOwner` the holder of the shared connection's lock, `results` and
`resultOwner` the `SqlResultQueue` and its lock, `rows` and `tx` what is committed and
what the open transaction of the connection sees. `Execute`,
`BeginTransaction`, `CommitTransaction`, `AsyncQuery`, `DirectExecute` are the calls;
the delay thread takes its whole queue (`MoveQueue`) and executes operation by
operation, statement by statement (`Lock`, `RunStatement`, `CommitOnConnection`), so
that every other thread may run in between. The master
thread allows asynchronous execution, joins the callers, stops and joins the delay
thread and executes in the destructor what is left (`Halt`). Left out: synchronous
queries on the pool, escaping, prepared statements' own state, and establishing a
connection (`DatabaseMysql.cpp` sets no reconnect option: a connection that is lost is a
series of refusals, and the server undoes its open transaction).

The server may refuse every statement, BEGIN, COMMIT and ROLLBACK (`Refuse`; what is
refused is not done). `SqlTransaction::Execute` acts on refused statements only
(`SqlOperations.cpp:60`). After a refused BEGIN (line 53) `begun` is false and the
statements commit one by one; after a refused COMMIT or ROLLBACK the transaction is
undone by the server or stays open on the connection, where it takes in what is executed
next until the BEGIN of a later transaction commits it, as MySQL does. `SerialDatabase`
grants these two and no more: a transaction takes effect statement by statement only if
it is `loose`, which only a refused BEGIN makes it; content is left `open` only by a
refusal; and a transaction is direct only before requests may be delayed, is called and
waited for by one thread and was never pending. The two mutants of `ImplementsSerial`
leave out the BEGIN, and go on after a refused statement.

Things the model shows and a reader of the code may miss: a direct call overtakes
the delayed requests of its own thread, which is the caller's choice; the result of
`BeginTransaction` is ignored in `SqlTransaction::Execute`; results not yet
collected at the halt are dropped, so callbacks may never run; and nothing in the layer
keeps a callback from making a direct call, which takes the lock of the results and that
of the connection in the other order than the delay thread does. `CallbackUses` is what
callbacks call: in the runs everything but direct calls, as in the game (`DirectExecute`
and `DirectPExecute` are called from `ObjectMgr`, `MapPersistentStateMgr` and the playerbot
managers, none of them in a callback). That is an assumption about the callers, not
something the layer ensures: with `"direct"` added to `CallbackUses`, TLC reports the
deadlock in `db_halt`.

Fairness: every thread is scheduled (weak fairness). Adding a result and finishing a
callback need strong fairness because the lock of the results is taken and freed by
the other side again and again; it is justified because `WorldRunnable::run` sleeps
between ticks, so the world thread does not hold that lock continuously.

### MapUpdater

`mainPc` is where the world thread is in `MapManager::Update`, `UnloadAll` and
`deactivate`; `at` and `request` are where each worker is in `WorkerThread`. A
condition variable is the set of threads asleep on it; `notify_one` wakes any of
them and one may wake for no reason. `activated` is whether `MapUpdate.Threads` is
above 0; if not, the world thread updates the maps itself. A map's update takes the
messages posted to it so far (`SwapMessages`) and runs them, while others post.
Fairness: every thread that can run does.

### WorldSessions

A session is named by the connection that created it. `conn` and `ref` are the
network side (`WorldSocket`), `session` the objects in memory, `addQueue` /
`adding` / `sessions` / `waiting` the lists of `World`. The world thread's position
is `step`: between ticks, adding sessions, picking the next one, handling its
packets, its state switch, database callbacks. Network actions happen between any
two of its steps. Time is a choice: a pending logout may be due or not. The
character is `"none"`, `"world"` or `"refused"` (the load failed).
A login is answered in any later tick, and nothing in between is excluded: a second
request (`m_playerLoading` is set only by the answer), a kick, a timeout, a
reconnection, a halt. An answer may therefore find a session that has a character
already, or one that was logged out since its last packet
(`m_playerRecentlyLogout`), whose next `LogoutPlayer` returns at once; the character
then stays in the world without a session. `late` remembers the accounts to which one
of these two (`TooLate`) happened. `CharactersOwned` and `StopLogsOut` claim every
other account; neither half of `TooLate` can be left out. `session_late_login`
shows the first half.

Fairness: the world thread runs; `RemoveSession` is strongly fair because the clock
advances, so a logout that stays pending becomes due.

### Trade

`trade[p]` is `Player::m_trade`; an item offered is remembered by its GUID, so
`GetItem` yields nothing when its owner no longer has it. `HandleAcceptTradeOpcode`
has one action per outcome (`AcceptRefused` .. `ExecuteTrade`); the exchange takes
all items away and then stores them slot by slot (`MoveSlot`), as `moveItems` does,
with the limits of the bags and of `MaxCount`. Where a slot fails, both items go back
to their owners (`GiveBack`), each with the list of places in which the first test may
have noted one for the other item (`TradeHandler.cpp:129-130`, `:176`, `:186`):
`_CanStoreItem` does not offer a noted place twice (`Player.cpp:8724`), and `StoreItem`
puts a clone of the item into every place of the list but the last (`Player.cpp:9851-9863`).
So an owner with one place left loses the item, and one with two gets it and a clone,
which in the model is an item of its kind that nobody has (`Fresh`). `agreed` notes what a player saw when
he pressed accept, so that `AcceptanceIsCurrent` can compare. Items that are used
up, come or are bound, and money that changes, are actions of their own which no
trade hears of. Distance, death, factions and the success of a spell are choices;
stacks are not merged; the effects of the spell are left out. Only safety is
claimed, without fairness: no player has to trade.

### AuctionMail

`phase[p]` is whether a character is offline, being loaded or in the world; `gold`,
`bags`, `mails` and `dirty` are its purse, inventory, `m_mail` and `m_mailsUpdated`;
`house` is the auction map; `db` is what is committed, `queue` the requests of the
delay thread, `loaded` the answer of a login's queries. Every handler is one action
(`HandleSendMail`, `HandleMailTakeItem`, `HandleAuctionPlaceBid`, ...), with all it
queues in the order and the transactions of the code; the delay thread executes the
head of the queue (`Execute`). `settled` is `db` after all that is queued. A crash
leaves `db` at some prefix of the queue and memory is lost, so what a restart finds is
`db` itself and there is no action for it: `CrashLeavesOneHand` is a claim about every
reachable `db`. `Market` sees for each item who owns it and for each player what he
has in money, wherever it lies (purse, mail, bid, deposit).

Things the model shows: old mails are read by a direct query
(`Globals/ObjectMgr.cpp:6126`) while what their receivers did with them is still
queued. A mail of which the receiver has just taken the item may be returned with it.
The code spares a receiver whom `GetPlayer` finds (line 6161), which is one who is in
the world: one who logs in, or is between two maps, is swept all the same. As any
character online may be between maps, the model sweeps whoever the row names. `swept`
notes that what was swept was in use (`InUse`: its receiver was loading or online, or a
queued request changes that mail or its links), and from then on nothing is claimed –
without the exemption `ItemsInOnePlace`, `MemoryIsSaved`, `LoginIsCurrent` and
`ImplementsMarket` all fail.

Money is a `uint32`, and `HandleSendMail` adds the postage to what the mail carries
before it asks whether the sender has it (`Mails/MailHandler.cpp:134`). The sum wraps
for the last thirty amounts: such a mail costs less than a postage and carries what
nobody has. `uint32`, `int32` and `ModifyMoney` are modelled with `Half` for 2^31. What
saves the market is the sign: an amount of `Half` or more reaches `ModifyMoney` as a
negative `int32`, so who takes the money of that mail loses up to thirty copper and
nobody gains. `wealthOf` therefore counts such a mail as nothing (`Yield`), and
`ImplementsMarket` holds with these mails in it; with a `ModifyMoney` that adds
whatever the sign (`ModifyMoneyUnsigned`) it fails. A purse is capped at `MaxMoney`,
and what is above the cap is lost.

`HandleMailTakeItem` reads the first item of a mail without asking whether it has one
(line 430). Either the process stops there, which is a crash like any other, or what is
read belongs to no item of the receiver's mails and `CanStoreItem` refuses; so the
action is not taken for a mail without an item, also when it asks for money. A mail
of the auction house that comes back as "returned" has no sender, and its item is gone
(`thrown`). A crash between the mails of a won auction and the deletion of its row
leaves the item twice in the tables, once as an auction that will end again.

Left out: owner columns of `item_instance`, texts and templates, mails to many,
silenced senders, accounts with two characters (who
mail each other at once), bids of the auction bot, the limit of 100
mails, stacks. Times are open: a mail may arrive at once or later, an auction may end at any
time. Only safety is claimed, without fairness.

### BattleGroundQueue

The two threads share nothing but `toQueue` and `toWorld`, the two `Messager`s;
`batch` and `tick` are the messages each has taken and not yet run. The queue thread
has `groups`, `queued`, `free` and `scheduled` (`m_queuedGroups`, `m_queuedPlayers`,
`m_bgFreeSlotQueue`, the update scheduler); one action per message type, and `Update`,
which fills battlegrounds that have places and makes a new one when both sides have
enough. A selection pool names groups by their places in the list. The world thread has `player[p]` (registration, invitation, place in a
battleground, the timers of invitations) and `bgs[i]`, the battleground with its count of
invited players, its list and the players who are offline. Groups are numbered in the
order in which they join, which stands for their join time. The world thread
finishes the messages it has taken before it does anything else.

Both threads tell each other absolute counts of the invited, and only the player's own
index says that he is queued, so there are behaviours after which the threads disagree
for good. Two history variables name them, and `CountsAgree` and `PlayersAgree`
are claimed for everybody else; for the players and battlegrounds named they fail.

* `astray`: a player who asked to join again, or logged out, before the queue had answered
  (`BattleGround/BattleGroundHandler.cpp:159`). The queue keeps a group of which he
  does not know; the counts of his side are no longer claimed.
* `skewed`: a battleground that a player left while it was not listed and messages were
  under way, or after its end while another was invited to it
  (`BattleGround/BattleGround.cpp:1120`); that ended while it was listed and something was under
  way or somebody invited (`BattleGround.cpp:697`); of which `Update` filled the older of two
  entries (`FilledTwice`, `BattleGroundQueue.cpp:786`); or to which a player was being sent when
  he logged out (`BattleGroundHandler.cpp:444`). Leaving a *listed* battleground is harmless at
  any time, as the comment "will be synched again after" says.

`PlayersAgree` allows one more record without a group: that of a player who was on his way to
a battleground when it was deleted. `HandleMoveWorldportAckOpcode`
(`MotionGenerators/MovementHandler.cpp:195`) sends him home and leaves the index as it is.

`PortFindsInstance` is claimed in every behaviour. `WithdrawnOnlyWhenDue` exempts the players
of `astray`: one who is in two groups has two invitations, and the event of either may end
the one the queue knows of (two joins of each side and `MinPerTeam = 2` show it).

With one type of battleground a player's group and his place in a battleground exclude
each other, so that the code for one who jumps from one battleground to another
(`BattleGroundHandler.cpp:464`) has nothing to do: nobody is sent to a battleground while he is in one that exists, by
`OffQueue` of the inductive invariant for those not `astray`, and in every behaviour of the
run for the others. Jumping between types is not
modelled. `RemoveBattleGround` is the message that `BattleGroundMap::Update` posts
(`Maps/Map.cpp:2089`) together with its execution in `BattleGroundMgr::Update`, which
`World::Update` calls right after the update of the maps.

Things the model shows: the queue lists a battleground when it makes it, but `Reset`
(`BattleGround.cpp:1181`) notes that it is not listed, so that its first leaver lists it
again although `BattleGround.h:610` promises "BG is only once inserted"; the older of the two
entries does not learn who leaves, and `Update` fills both, so that three
players of a side can be invited to a battleground for two, and an entry may outlive the battleground; the reminder of an invitation compares the number
shown to the client with the number of the instance (`BattleGroundQueue.cpp:958`) and
is never sent, which is why it is not modelled; a logout gives a place back without a new
update of the queue.

Left out: premade groups and `InvitationType` 1 and 2, a chosen instance, the numbers
shown to clients, the reminder, the battle. One type of battleground and one bracket: they
share only the list of battlegrounds, in which each is looked up by type and bracket.
Only safety is claimed: the code bounds no waiting time.

## Runs

| run | question | bounds |
|---|---|---|
| `db_runtime` | Do delayed writes, transactions, queries and direct calls of two threads behave as the serial store, and are answers fresh? | 3 requests, 2 statements in a transaction, 2 rows, 2 refusals |
| `db_halt` | Is anything lost or left waiting when the server halts? Does the invariant of the proofs hold? | 3 requests of all kinds, 1 refused |
| `map_update` | Do two workers update each map once and never one that is unloaded; is any wakeup or message lost? | 2 workers or none, 2 maps, 3 ticks, 2 messages per map |
| `session_queue` | Does the player queue keep its promise? | 2 players, 1 game master, limits -1, 0, 1, 2, changed twice |
| `session_login` | Is every character owned by exactly one session, and logged out at the halt? | 1 account, 3 connections, 2 logins answered in any tick, 1 kick |
| `session_liveness` | Does a session without a client end? | 1 account, 2 connections, 2 logins answered at any time, 1 kick |
| `session_game_master` (violation) | Do players wait for players only, as `PlayerLimit` is documented? | 1 player, 1 game master |
| `session_late_login` (violation) | Has an account at most one character in the world? | 2 connections, 2 logins |
| `trade` | Is what changes hands what both accepted, and all of it? | 2 players with 2 and 3 places, 3 items, 2 slots and the one not traded, 1 coin, 1 event outside |
| `auction_mail` | Is every item in one hand, also after a crash, is every bid and deposit paid back once, and does a login find what was saved? | 3 characters (the two bidders are symmetric), 2 items, 3 mail ids, prices up to 2, `Half` 7 and postage 4 (so that a mail of 13 wraps and costs 3, and a purse holds up to 5), requests executed before the next handler of a player but at any time of the others, 2 events (logouts, reads, returns, old mails) |
| `bg_queue` | Do the two threads agree when no message is under way, does a place lead to a battleground that exists, and does an invitation end only in its time? | 1 player and 1 place for each side; the player of the Alliance may join twice, the other once; 1 logout; 2 messages under way; one battleground, which may be deleted while others still wait |
| `trade_loss` (violation) | Does the test before the exchange keep every item in an inventory, and does the exchange make none? | 5 items, at most 2 of one kind, 3 slots |

What the three violations show, each against a comment of the code or its
configuration: `AddSession_` compares `PlayerLimit` with all other sessions, game
masters included; two logins that are answered after the tick of their request make
two `Player` objects for one session, because "already loading" is set only in the
callback; `CanStoreItems` compares the items of an exchange with `MaxCount` one by
one, so `moveItems` may be left with an item that the other side cannot take, and with
the place noted for what that side was to give (see Trade above) it may find no place for
it on its own side. `findings` in `PROJECT.json` has the lines.

The bounds are enough because the conflicts are between pairs: two threads and a
third that serves them; a transaction with a statement before and one after the
foreign one; a worker that is busy and one that is asleep; one session that leaves
and one that waits. Each bound is the smallest at which every action fires and
every mutant listed in `PROJECT.json` (a plausible bug in one definition per
property) is caught. Only `auction_mail` and `bg_queue` switch the check for
deadlock off: their bounds (events, joins, messages) and the players' money run out.

## Proofs

Each theorem is `Spec => []P` (or `Spec =>` a refinement) for all values of the
constants that the module's `ASSUME`s allow. None of the properties is inductive alone;
each module strengthens them to an invariant, shows that `Init` implies it and that
every action preserves it, conjunct by conjunct, and concludes by temporal logic.

**AsyncDatabaseProofs**, for any sets of callers and rows and any bounds, if the threads
are different: `InductiveInvariant` (`Spec => []Inductive`), and from it `TypeCorrect`,
`TransactionsAreIsolated`, `NothingIsLost`, `AnswersAreFresh` and the
refinement `LayerIsSerial`.
That a transaction is isolated depends on who holds the connection;
that nothing is lost depends on every caller having been joined before the delay thread
is; that answers are fresh depends on the requests of one caller being in order in the
queue, in the batch taken from it and in the hands of the delay thread. `Inductive`
states these facts about the whole line of requests, from the oldest not yet executed
to the newest queued. For the refinement, what an execution does is shown to the store where it
becomes visible: a BEGIN when it commits what was left open or is refused, a statement when its
transaction was not begun (`ExecutionGoesOn`), everything else when the connection is given
back (`TransactionEnds`, `PlainEnds`, `QueryEnds`), all at once because `Progress` says that
the open transaction holds exactly the statements executed so far.

**MapUpdaterProofs**, for any maps and ticks and any finite set of workers (the counter of
pending requests is compared with the number of workers that hold one): `TypesHold`,
`UpdatesStayExclusive`, `RequestsNotNull`, `MessagesStayInOrder`, `PendingIsExact` and
the refinement `ThreadsImplementTicks`. The invariant says where the world thread and the
workers may be at the same time (`Positions`), that a map is due in at most one of the
queue and the workers' hands (`EachMapOnce`), what is left to schedule or wait for
at each place of the world thread (`Phases`), what the counter counts (`Counts`) and
how the messages posted, taken and run line up (`Messages`). A step implements a tick
action or a stutter because the set of maps due is what the invariant says it is.

**WorldSessionsProofs**, for any clients, connections and limits (the connections are
finite): `TypesHold`, `QueueStaysConsistent`, `QueueStaysFull`, `PlayersStayWithinLimit`,
the refinement `SessionsImplementAdmission`, `CharactersStayOwned` and
`StopLogsEveryoneOut`. The invariant has three parts. `Structure`: types, that new, listed and queued sessions are disjoint as they
must be (`Places`), what the world thread holds while it walks the list (`InLoop`), the
queue's consistency and the count of characters. `Owned`: whoever has a character can
still log it out, unless its account is `late`, and the halt has kicked everybody.
`Promise`: nobody waits while there is room and nobody is in beyond it, which rests on
the number of listed sessions being the number of active ones plus the length of the
queue. Most actions are shown to be *quiet* (they change nothing a part is about) by one
lemma for all.

**TradeProofs**, for any players, items and slots: `TypesStayCorrect`, `TradesStayPaired`,
`AcceptancesStayCurrent` and `ExchangesAreWhole`. A change that withdraws both acceptances, or
changes no window, is quiet; quiet changes compose, which covers `ModifyMoney` and the
handlers that call each other. The exchange goes through the slots one after the other by a
recursive function; that the function exists, and what is true after each slot, follows from
`Recursion`: its induction is about a set of numbers, which the theorem modules of the
prover's library allow, where an induction over a property would not be instantiated.

**AuctionMailProofs**, for any players, items, prices and bounds:
`TypesStayCorrect`, `ItemsStayInOnePlace`, `MemoryStaysSaved`, `CrashesLeaveOneHand` and
`LoginsAreCurrent`. Every one of them is about the tables at some point of the queue, so the
invariant (`IInv`) says that there is a *course*: a sequence of tables that begins with the
committed ones, goes on request by request and ends with `settled`. On every table of the
course (`Backlog`) no item is in two hands except in an auction whose deletion is still to
come, and the mails are of the kinds the code makes (a mail of an auction has no sender, only
one of a character asks for cash on delivery). At the end of the course (`Seen`) stands what memory
holds: the purse, inventory and mails of every character in the world, what the queries
of a login have read for a character still loading, the auctions of the house.
`BidsAreMade` (a bid belongs to a bidder) is proved first because no auction is settled without
it. A handler queues several requests, so a step is proved request by request: the first
lemmas say what one request does to the last tables of the course (*stages*), and
each handler's lemma composes them. `LinkedIsCarried` is the fact about carriers on which the
rest hangs: what a table links to an item is what carries it.

**BattleGroundQueueProofs** and **BattleGroundQueueAgreed**, for any finite set of players, any
parties and limits: `TypesStayCorrect`, `InvitationsFindInstance`, `EventsWithdrawTheirOwn`
(`Spec => WithdrawnOnlyWhenDue`) and `PlayersStayAgreed` (`Spec => []PlayersAgree`). The first
invariant, `Basis`, has the types of everything under way and four facts. `Crowd`: who is queued
is in the group whose number he has, groups that wait or are asked for have different numbers,
and there is room for them within the bounds (`Room` counts the groups asked for and not yet
invited). Nobody is invited later than the clock says (`PastQueue`, `PastWorld`, `PastTimers`).
A battleground that the world thread has made has been numbered by the queue, and a message that
makes one is the only one that does and finds it not made (`Born`, `Making`). `Lists` is what
`InvitationsFindInstance` needs: an entry of a battleground can only go by a message of the
world thread, which sends it when *it* believes that the battleground is listed; the queue has
listed it once of its own accord, which the world thread does not know. So for every
battleground there is a course: a sequence of truth values, one for every message still to be
handled, which says whether the world thread had the battleground listed when it sent the
message. At its end stands the world thread's `listed`; at its beginning the queue has an entry
for the battleground, and a second one if the value is true.
The second invariant, `Orderly`, is about the players not in `astray`: a player is in the group
he is queued for and in no other, he is asked for at most once, and what has been set going
for his invitations (an `expire` message, an `expired` message, an event, an invitation on its way,
from the oldest to the newest) is in the order of the times of the invitations, none
of them later than the time of his group. An event that finds its own time in the group is
therefore the newest there is.
The third invariant, `Agreed`, makes of `PlayersAgree` a statement about every state. For a
player not in `astray`, `Core` relates five things: his record, the group he is queued in (or
none) and the battleground it is invited to, what he has told the queue and it has not heard
(`Said`: a request, an answer, an accepted place, his logout), what he will be told (`News`:
that he is queued, invited, sent, out) and the battlegrounds made so far (`Past`) or still there
(`There`). `OnQueue` is the case of a queued player: his record has the invitation of his group,
or the message that brings it is under way. `OffQueue` is that of any other: he has no record,
or is in a battleground, or will be sent to one, or will be told that he is out, or was on his
way to one that is gone. News of each kind is under way at most once and in the order joined,
invited, sent or out (`InTurn`), and he answers an invitation before he asks to join again
(`Earlier`). When nothing is under way `Said` and `News` are empty and `Core` is `PlayersAgree`.
A step leaves a player alone (`Still`: his record, his group, his news unchanged, and less said)
or is about him; one lemma, `CoreStill`, serves the first case for every action, and each
message, request, event and travel has a lemma of its own for the second.

Only model-checked: `ImplementsMarket`, since the wealth of a player is a sum over sets of
mails and auctions and no backend can fold a sum; `CountsAgree` of the
battleground queue, which needs the number of players in each state, modulo the width of a
counter, and what every message under way will add to it; and
liveness, which is out of the prover's reach.

## Not modelled

`components` in `PROJECT.json` has every part with its reason. In short:

* Most of the code is content and rules of the game (spells, auras, AI, scripts,
  quests, bots, the object store): tables and case distinctions run by one thread,
  whose correctness is agreement with the data rather than an order of events.
* Geometry (movement, collision, path finding), cryptography, sockets and consoles are
  arithmetic or input and output; the models start where a packet has been read.
* Groups, rolls, grids and instances, the login server, the LFG queue and timed events
  have state machines worth modelling and are left for later; where another
  component calls them, the call is a choice over what they may do (a timed event may be due;
  a party is a set of players).
* Vendored libraries under `dep/` are used as their interface says.

## Plan

Done: the database layer, map updates, sessions, the trade, auctions and mail over the
database's promise, and the battleground queue, with their proofs.

Left, in this order:

1. A proof of `CountsAgree`: `Agreed` says of every player where he is and what is under way
   for him; what is missing is the cardinality of those sets and the counts in the messages.
2. `EventProcessor`: events that change the queue they are in.
3. The LFG queue, built as the battleground queue is.
4. Rolls for loot; groups; instance resets; the login server's command order.
