--------------------------- MODULE AsyncDatabase ----------------------------
(***************************************************************************)
(* The asynchronous database layer of src/shared/Database: the calls a     *)
(* thread makes on a Database object, the queue of delayed operations, the *)
(* delay thread that executes them on the one connection used for writes,  *)
(* the result queue the world thread empties, and the start and the halt   *)
(* of the layer by the master thread.                                      *)
(*                                                                         *)
(* Requests are numbered; a row holds the number of the request that wrote *)
(* it last, 0 at first.  The queue mutex guards one push or one move only, *)
(* so these are single steps; the mutexes of the connection and of the     *)
(* result queue are held across several steps and are modelled by their    *)
(* owner.                                                                  *)
(*                                                                         *)
(* The database server may refuse a statement, a BEGIN, a COMMIT or a      *)
(* ROLLBACK.  What it refuses is not done; a transaction whose COMMIT or   *)
(* ROLLBACK it refuses is undone with the session, or stays open on the    *)
(* connection until the next BEGIN commits it, as MySQL does.              *)
(***************************************************************************)
EXTENDS Naturals, Sequences, FiniteSets

CONSTANTS
    Callers,    \* the threads that call the Database object
    Master,     \* the main thread: starts and halts the server
    World,      \* the thread that empties the result queue
    Delayer,    \* the delay thread, or the master thread in ~SqlDelayThread
    Keys,       \* the rows the requests touch
    NoThread,   \* owner of a mutex nobody holds
    None,       \* no transaction, no operation
    Uses,       \* bound: the kinds of calls each caller makes
    CallbackUses, \* the kinds of calls the callbacks of the result queue make
    MaxOps,     \* bound: requests made by all callers together
    MaxStmts,   \* bound: statements of one transaction
    MaxFails    \* bound: statements and commands the database server refuses

ASSUME CallersAssumption ==
    /\ Master \in Callers /\ World \in Callers /\ Master # World
    /\ Delayer \notin Callers /\ NoThread \notin Callers \cup {Delayer}
ASSUME BoundsAssumption ==
    /\ Uses \in [Callers -> SUBSET {"plain", "trans", "query", "direct"}]
    /\ CallbackUses \subseteq {"plain", "trans", "query", "direct"}
    /\ MaxOps \in Nat /\ MaxStmts \in Nat \ {0} /\ MaxFails \in Nat

VARIABLES
    allowAsync,     \* m_allowAsyncTransactions
    transaction,    \* m_currentTransaction, thread-specific
    queue,          \* m_sqlQueue
    batch,          \* the local queue of ProcessRequests
    running,        \* m_running
    delayPc,        \* where the delay thread is
    exec,           \* the operation a thread is executing on the connection
    connOwner,      \* owner of SqlConnection::m_mutex of the async connection
    rows,           \* committed content of the database
    tx,             \* content as the open transaction of the connection sees it
    begun,          \* the transaction being executed was begun: its BEGIN was not refused
    results,        \* SqlResultQueue::m_queue
    resultOwner,    \* owner of SqlResultQueue::m_mutex
    confirmed,      \* number of the last direct statement that returned true
    phase,          \* progress of the master thread
    issued,         \* number of requests made
    fails           \* number of refused statements and commands

callVars == <<allowAsync, transaction, queue, issued>>
delayVars == <<batch, running, delayPc>>
connVars == <<exec, connOwner, rows, tx, begun, confirmed, fails>>
resultVars == <<results, resultOwner>>
vars == <<callVars, delayVars, connVars, resultVars, phase>>

Threads == Callers \cup {Delayer}
Numbers == 1..MaxOps
Statements == UNION {[1..m -> Keys] : m \in 0..MaxStmts}
Requests ==
    {r \in [by : Callers, n : Numbers, kind : {"plain", "trans", "query"}, keys : Statements] :
        r.kind = "plain" => Len(r.keys) = 1}

Snapshots == [Keys -> Numbers \cup {0}]

Executions == [op : Requests, at : Nat, seen : Snapshots \cup {None}]

\* None is no list of statements, request, execution or content.
ASSUME NoneAssumption == /\ None \notin Statements /\ None \notin Requests
                         /\ None \notin Executions /\ None \notin Snapshots

Init == /\ allowAsync = FALSE
        /\ transaction = [c \in Callers |-> None]
        /\ queue = <<>>
        /\ batch = <<>>
        /\ running = TRUE
        /\ delayPc = "sleep"
        /\ exec = [t \in Threads |-> None]
        /\ connOwner = NoThread
        /\ rows = [k \in Keys |-> 0]
        /\ tx = None
        /\ begun = FALSE
        /\ results = <<>>
        /\ resultOwner = NoThread
        /\ confirmed = [c \in Callers |-> 0]
        /\ phase = "startup"
        /\ issued = 0
        /\ fails = 0
-----------------------------------------------------------------------------
(* Calls on the Database object.                                           *)

\* Before the world and network threads start and after they are joined only
\* the master thread makes calls.
MayCall(c) ==
    /\ exec[c] = None
    /\ IF phase = "running" THEN TRUE ELSE phase \in {"startup", "closing"} /\ c = Master

NewCall(c) == /\ MayCall(c)
              /\ issued < MaxOps
              /\ issued' = issued + 1

Started(op) == [op |-> op, at |-> 0, seen |-> None]

Op(c, kind, keys) == [by |-> c, n |-> issued + 1, kind |-> kind, keys |-> keys]

Delay(op) == queue' = Append(queue, op)

\* The caller executes op itself, from the request for the connection's lock on.
StartDirect(c, op) == exec' = [exec EXCEPT ![c] = Started(op)]

\* Thread c is code that makes calls of this kind; while c holds the result queue
\* that code is a callback.
MayUse(c, kind) == kind \in IF resultOwner = c THEN CallbackUses ELSE Uses[c]

\* Execute and ExecuteStmt inside BeginTransaction .. CommitTransaction.
ExecuteInTransaction(c) ==
    /\ MayCall(c)
    /\ transaction[c] # None
    /\ Len(transaction[c]) < MaxStmts
    /\ \E k \in Keys : transaction' = [transaction EXCEPT ![c] = Append(@, k)]
    /\ UNCHANGED <<allowAsync, queue, issued, delayVars, connVars, resultVars, phase>>

\* Execute and ExecuteStmt of a statement on its own.
Execute(c) ==
    /\ MayUse(c, "plain")
    /\ transaction[c] = None
    /\ NewCall(c)
    /\ \E k \in Keys :
          LET op == Op(c, "plain", <<k>>) IN
             \/ allowAsync /\ Delay(op) /\ UNCHANGED exec
             \/ ~allowAsync /\ StartDirect(c, op) /\ UNCHANGED queue
    /\ UNCHANGED <<allowAsync, transaction, delayVars, connOwner, rows, tx, begun, confirmed,
                   fails, resultVars, phase>>

\* DirectExecute, DirectPExecute and DirectExecuteStmt.
DirectExecute(c) ==
    /\ MayUse(c, "direct")
    /\ NewCall(c)
    /\ \E k \in Keys : StartDirect(c, Op(c, "plain", <<k>>))
    /\ UNCHANGED <<allowAsync, transaction, queue, delayVars, connOwner, rows, tx, begun, confirmed,
                   fails, resultVars, phase>>

BeginTransaction(c) ==
    /\ MayUse(c, "trans")
    /\ MayCall(c)
    /\ issued < MaxOps
    /\ transaction[c] = None
    /\ transaction' = [transaction EXCEPT ![c] = <<>>]
    /\ UNCHANGED <<allowAsync, queue, issued, delayVars, connVars, resultVars, phase>>

CommitTransaction(c) ==
    /\ transaction[c] # None
    /\ NewCall(c)
    /\ LET op == Op(c, "trans", transaction[c]) IN
          \/ allowAsync /\ Delay(op) /\ UNCHANGED exec
          \/ ~allowAsync /\ StartDirect(c, op) /\ UNCHANGED queue
    /\ transaction' = [transaction EXCEPT ![c] = None]
    /\ UNCHANGED <<allowAsync, delayVars, connOwner, rows, tx, begun, confirmed, fails, resultVars, phase>>

RollbackTransaction(c) ==
    /\ MayCall(c)
    /\ transaction[c] # None
    /\ transaction' = [transaction EXCEPT ![c] = None]
    /\ UNCHANGED <<allowAsync, queue, issued, delayVars, connVars, resultVars, phase>>

\* AsyncQuery, AsyncPQuery and DelayQueryHolder, even before async is allowed.
AsyncQuery(c) ==
    /\ MayUse(c, "query")
    /\ NewCall(c)
    /\ Delay(Op(c, "query", <<>>))
    /\ UNCHANGED <<allowAsync, transaction, delayVars, connVars, resultVars, phase>>
-----------------------------------------------------------------------------
(* Execution of an operation on the async connection by thread t.          *)

Finish(t) == /\ exec' = [exec EXCEPT ![t] = None]
             /\ connOwner' = NoThread
             /\ begun' = FALSE

IsEmptyTransaction(op) == op.kind = "trans" /\ op.keys = <<>>

\* What a statement on the connection reads.
Content == IF tx = None THEN rows ELSE tx

\* The server refuses n things.
Refuse(n) == fails + n <= MaxFails /\ fails' = fails + n

\* SqlTransaction::Execute returns before it locks.
SkipEmptyTransaction(t) ==
    /\ exec[t] # None /\ exec[t].at = 0
    /\ IsEmptyTransaction(exec[t].op)
    /\ exec' = [exec EXCEPT ![t] = None]
    /\ UNCHANGED <<callVars, delayVars, connOwner, rows, tx, begun, confirmed, fails, resultVars, phase>>

\* Mutant: SqlTransaction::Execute does not call BeginTransaction.
NoBegin == UNCHANGED <<rows, tx, begun, fails>>

\* BEGIN commits what is open on the connection; its result is not looked at.
BeginOnConnection ==
    \/ rows' = Content /\ tx' = Content /\ begun' = TRUE /\ UNCHANGED fails
    \/ Refuse(1) /\ UNCHANGED <<rows, tx, begun>>

\* Mutant: SqlTransaction::Execute and the others without LOCK_DB_CONN.
LockNothing(t) ==
    /\ exec[t] # None /\ exec[t].at = 0
    /\ ~IsEmptyTransaction(exec[t].op)
    /\ connOwner' = t
    /\ exec' = [exec EXCEPT ![t].at = 1]
    /\ IF exec[t].op.kind = "trans" THEN BeginOnConnection ELSE UNCHANGED <<rows, tx, begun, fails>>
    /\ UNCHANGED <<callVars, delayVars, confirmed, resultVars, phase>>

\* SqlConnection::Lock, and BeginTransaction of the connection.
Lock(t) ==
    /\ exec[t] # None /\ exec[t].at = 0
    /\ ~IsEmptyTransaction(exec[t].op)
    /\ connOwner = NoThread
    /\ connOwner' = t
    /\ exec' = [exec EXCEPT ![t].at = 1]
    /\ IF exec[t].op.kind = "trans" THEN BeginOnConnection ELSE UNCHANGED <<rows, tx, begun, fails>>
    /\ UNCHANGED <<callVars, delayVars, confirmed, resultVars, phase>>

\* One row written: autocommitted, unless the connection is in a transaction.
Write(k, n) == IF tx = None THEN rows' = [rows EXCEPT ![k] = n] /\ UNCHANGED tx
                            ELSE tx' = [tx EXCEPT ![k] = n] /\ UNCHANGED rows

Confirm(t, op) == confirmed' = IF t = op.by THEN [confirmed EXCEPT ![t] = op.n] ELSE confirmed

RunPlain(t) ==
    /\ exec[t] # None /\ exec[t].at = 1 /\ exec[t].op.kind = "plain"
    /\ LET op == exec[t].op IN
          \/ Write(op.keys[1], op.n) /\ Confirm(t, op) /\ UNCHANGED fails
          \/ Refuse(1) /\ UNCHANGED <<rows, tx, confirmed>>
    /\ Finish(t)
    /\ UNCHANGED <<callVars, delayVars, resultVars, phase>>

\* Mutant: a refused statement is skipped and the transaction goes on.
SkipRefusedStatement(t) ==
    /\ exec[t] # None /\ exec[t].op.kind = "trans"
    /\ exec[t].at \in 1..Len(exec[t].op.keys)
    /\ LET op == exec[t].op IN
          \/ Write(op.keys[exec[t].at], op.n) /\ UNCHANGED fails
          \/ Refuse(1) /\ UNCHANGED <<rows, tx>>
    /\ exec' = [exec EXCEPT ![t].at = @ + 1]
    /\ UNCHANGED <<callVars, delayVars, connOwner, begun, confirmed, resultVars, phase>>

\* The loop of SqlTransaction::Execute: the first refused statement ends it with a
\* ROLLBACK, whose result is not looked at.
RunStatement(t) ==
    /\ exec[t] # None /\ exec[t].op.kind = "trans"
    /\ exec[t].at \in 1..Len(exec[t].op.keys)
    /\ LET op == exec[t].op IN
          \/ /\ Write(op.keys[exec[t].at], op.n)
             /\ exec' = [exec EXCEPT ![t].at = @ + 1]
             /\ UNCHANGED <<connOwner, begun, fails>>
          \/ /\ \/ Refuse(1) /\ tx' = None
                \/ Refuse(2) /\ tx' \in {tx, None}
             /\ Finish(t)
             /\ UNCHANGED rows
    /\ UNCHANGED <<callVars, delayVars, confirmed, resultVars, phase>>

CommitOnConnection(t) ==
    /\ exec[t] # None /\ exec[t].op.kind = "trans"
    /\ exec[t].at = Len(exec[t].op.keys) + 1
    /\ \/ rows' = Content /\ tx' = None /\ UNCHANGED fails
       \/ Refuse(1) /\ tx' \in {tx, None} /\ UNCHANGED rows
    /\ Finish(t)
    /\ UNCHANGED <<callVars, delayVars, confirmed, resultVars, phase>>

\* Mutant: the callback is queued without the result of its query.
RunQueryForgettingResult(t) ==
    /\ exec[t] # None /\ exec[t].at = 1 /\ exec[t].op.kind = "query"
    /\ exec' = [exec EXCEPT ![t] = [@ EXCEPT !.at = 2]]
    /\ UNCHANGED <<callVars, delayVars, connOwner, rows, tx, begun, confirmed, fails, resultVars, phase>>

\* SqlQuery::Execute and SqlQueryHolderEx::Execute, up to the call of Add.
RunQuery(t) ==
    /\ exec[t] # None /\ exec[t].at = 1 /\ exec[t].op.kind = "query"
    /\ exec' = [exec EXCEPT ![t] = [@ EXCEPT !.at = 2, !.seen = Content]]
    /\ UNCHANGED <<callVars, delayVars, connOwner, rows, tx, begun, confirmed, fails, resultVars, phase>>

\* SqlResultQueue::Add, called with the connection still locked.
AddResult(t) ==
    /\ exec[t] # None /\ exec[t].at = 2 /\ exec[t].op.kind = "query"
    /\ resultOwner = NoThread
    /\ results' = Append(results, [by |-> exec[t].op.by, n |-> exec[t].op.n, seen |-> exec[t].seen])
    /\ Finish(t)
    /\ UNCHANGED <<callVars, delayVars, rows, tx, confirmed, fails, resultOwner, phase>>
-----------------------------------------------------------------------------
(* SqlDelayThread::run and ProcessRequests; the last ProcessRequests is    *)
(* the destructor's, run by the master thread after the join.              *)

\* The sleep ends, or the destructor starts: the queue is moved to a local one.
MoveQueue ==
    /\ delayPc \in {"sleep", "destructor"}
    /\ batch' = queue
    /\ queue' = <<>>
    /\ delayPc' = IF delayPc = "sleep" THEN "process" ELSE "flush"
    /\ UNCHANGED <<allowAsync, transaction, issued, running, connVars, resultVars, phase>>

\* Mutant: the local queue is emptied from its end.
TakeNewestOperation ==
    /\ delayPc \in {"process", "flush"}
    /\ exec[Delayer] = None
    /\ batch # <<>>
    /\ exec' = [exec EXCEPT ![Delayer] = Started(batch[Len(batch)])]
    /\ batch' = SubSeq(batch, 1, Len(batch) - 1)
    /\ UNCHANGED <<callVars, running, delayPc, connOwner, rows, tx, begun, confirmed, fails, resultVars, phase>>

TakeOperation ==
    /\ delayPc \in {"process", "flush"}
    /\ exec[Delayer] = None
    /\ batch # <<>>
    /\ exec' = [exec EXCEPT ![Delayer] = Started(Head(batch))]
    /\ batch' = Tail(batch)
    /\ UNCHANGED <<callVars, running, delayPc, connOwner, rows, tx, begun, confirmed, fails, resultVars, phase>>

\* while (m_running), tested after the last operation or after the ping.
Loop == delayPc' = IF running THEN "sleep" ELSE "exited"

EndProcessRequests ==
    /\ delayPc = "process"
    /\ exec[Delayer] = None
    /\ batch = <<>>
    /\ Loop \/ delayPc' = "ping"
    /\ UNCHANGED <<callVars, batch, running, connVars, resultVars, phase>>

\* Database::Ping queries the async connection under its lock.
Ping ==
    /\ delayPc = "ping"
    /\ connOwner = NoThread
    /\ Loop
    /\ UNCHANGED <<callVars, batch, running, connVars, resultVars, phase>>
-----------------------------------------------------------------------------
(* World thread: Database::ProcessResultQueue, SqlResultQueue::Update.     *)

LockResults ==
    /\ phase = "running"
    /\ MayCall(World) /\ transaction[World] = None
    /\ resultOwner = NoThread
    /\ resultOwner' = World
    /\ UNCHANGED <<callVars, delayVars, connVars, results, phase>>

\* The callback's own calls are the World's calls until the next pop.
RunCallback ==
    /\ resultOwner = World
    /\ MayCall(World) /\ transaction[World] = None
    /\ results # <<>>
    /\ results' = Tail(results)
    /\ UNCHANGED <<callVars, delayVars, connVars, resultOwner, phase>>

UnlockResults ==
    /\ resultOwner = World
    /\ MayCall(World) /\ transaction[World] = None
    /\ results = <<>>
    /\ resultOwner' = NoThread
    /\ UNCHANGED <<callVars, delayVars, connVars, results, phase>>
-----------------------------------------------------------------------------
(* Master::Run: start of the server, and its halt in HaltDelayThread.      *)

AllowAsyncTransactions ==
    /\ phase = "startup"
    /\ exec[Master] = None /\ transaction[Master] = None
    /\ allowAsync' = TRUE
    /\ phase' = "running"
    /\ UNCHANGED <<transaction, queue, issued, delayVars, connVars, resultVars>>

\* The world and network threads have been joined.
JoinCallers ==
    /\ phase = "running"
    /\ \A c \in Callers \ {Master} : exec[c] = None /\ transaction[c] = None
    /\ resultOwner = NoThread
    /\ phase' = "closing"
    /\ UNCHANGED <<callVars, delayVars, connVars, resultVars>>

Stop ==
    /\ phase = "closing"
    /\ exec[Master] = None /\ transaction[Master] = None
    /\ running' = FALSE
    /\ phase' = "joining"
    /\ UNCHANGED <<callVars, batch, delayPc, connVars, resultVars>>

\* Mutant: ~SqlDelayThread does not call ProcessRequests.
JoinWithoutFlush ==
    /\ phase = "joining"
    /\ delayPc = "exited"
    /\ delayPc' = "flush"
    /\ phase' = "flushing"
    /\ UNCHANGED <<callVars, batch, running, connVars, resultVars>>

\* wait() returns, and the deletion of the thread enters ~SqlDelayThread.
JoinDelayThread ==
    /\ phase = "joining"
    /\ delayPc = "exited"
    /\ delayPc' = "destructor"
    /\ phase' = "flushing"
    /\ UNCHANGED <<callVars, batch, running, connVars, resultVars>>

Halt ==
    /\ phase = "flushing"
    /\ delayPc = "flush" /\ batch = <<>> /\ exec[Delayer] = None
    /\ phase' = "halted"
    /\ UNCHANGED <<callVars, delayVars, connVars, resultVars>>

Halted == phase = "halted" /\ UNCHANGED vars
-----------------------------------------------------------------------------
Call(c) == \/ ExecuteInTransaction(c) \/ Execute(c) \/ DirectExecute(c)
           \/ BeginTransaction(c) \/ CommitTransaction(c) \/ RollbackTransaction(c)
           \/ AsyncQuery(c)

Perform(t) == \/ SkipEmptyTransaction(t) \/ Lock(t) \/ RunPlain(t) \/ RunStatement(t)
              \/ CommitOnConnection(t) \/ RunQuery(t) \/ AddResult(t)

DelayLoop == MoveQueue \/ TakeOperation \/ EndProcessRequests \/ Ping

WorldLoop == LockResults \/ RunCallback \/ UnlockResults

MasterStep == AllowAsyncTransactions \/ JoinCallers \/ Stop \/ JoinDelayThread \/ Halt

Next == \/ \E c \in Callers : Call(c)
        \/ \E t \in Threads : Perform(t)
        \/ DelayLoop
        \/ WorldLoop
        \/ MasterStep
        \/ Halted

\* Every thread that has something to do is scheduled again and again; a
\* callback is finite code, so it ends.  The world thread holds the result queue once
\* in a tick and sleeps between ticks (WorldRunnable::run), so a thread blocked
\* in Add gets it: that is strong fairness, a mutex alone does not give it.
Fairness == /\ \A t \in Threads : WF_vars(Perform(t)) /\ SF_vars(AddResult(t))
            /\ WF_vars(DelayLoop)
            /\ WF_vars(JoinDelayThread \/ Halt)
            /\ SF_vars(RunCallback \/ UnlockResults)
            /\ \A c \in Callers : WF_vars(CommitTransaction(c) \/ RollbackTransaction(c))

Spec == Init /\ [][Next]_vars

FairSpec == Spec /\ Fairness
-----------------------------------------------------------------------------
(* Properties.                                                             *)

Idle(t) == exec[t] = None

\* Everything delayed and not finished, the oldest first.
Line == (IF Idle(Delayer) THEN <<>> ELSE <<exec[Delayer].op>>) \o batch \o queue

TypeOK ==
    /\ allowAsync \in BOOLEAN
    /\ transaction \in [Callers -> Statements \cup {None}]
    /\ queue \in Seq(Requests)
    /\ batch \in Seq(Requests)
    /\ running \in BOOLEAN
    /\ delayPc \in {"sleep", "process", "ping", "exited", "destructor", "flush"}
    /\ exec \in [Threads -> Executions \cup {None}]
    /\ connOwner \in Threads \cup {NoThread}
    /\ rows \in Snapshots
    /\ tx \in Snapshots \cup {None}
    /\ begun \in BOOLEAN
    /\ results \in Seq([by : Callers, n : Numbers, seen : Snapshots])
    /\ resultOwner \in {NoThread, World}
    /\ confirmed \in [Callers -> 0..MaxOps]
    /\ phase \in {"startup", "running", "closing", "joining", "flushing", "halted"}
    /\ issued \in 0..MaxOps
    /\ fails \in 0..MaxFails

\* A transaction that was begun is open and belongs to the thread that holds the
\* shared connection, and nothing but statements of the transaction that
\* thread executes differs from the committed rows: a direct statement of
\* another thread never lands in, and is never rolled back with, the
\* transaction of a third (LOCK_DB_CONN in SqlTransaction::Execute).  Between
\* two executions a transaction is open only after a refused COMMIT or ROLLBACK.
TransactionIsolated ==
    /\ begun => /\ connOwner # NoThread
                /\ exec[connOwner] # None
                /\ exec[connOwner].op.kind = "trans"
                /\ tx # None
                /\ \A k \in Keys : tx[k] \in {rows[k], exec[connOwner].op.n}
    /\ ~begun /\ tx # None => fails > 0

\* When an answer reaches the result queue everything its thread had delayed
\* before it asked is finished: a character loaded at login is the one that
\* was saved at logout.
AnswersSeeOwnWrites ==
    \A i \in DOMAIN results, j \in DOMAIN Line :
        Line[j].by = results[i].by => results[i].n < Line[j].n

\* Nothing delayed is lost by the halt, whenever Stop meets the delay thread:
\* the comment in ~SqlDelayThread, "process all requests which might have been
\* queued while thread was stopping".
HaltLosesNothing == phase = "halted" => Line = <<>> /\ \A t \in Threads : Idle(t)

\* The strengthening of the properties above that every step preserves.
LockOwners ==
    /\ \A t \in Threads : connOwner = t <=> (~Idle(t) /\ exec[t].at # 0)
    /\ \A c \in Callers : ~Idle(c) => exec[c].op.kind # "query"
    /\ ~Idle(Delayer) /\ exec[Delayer].op.kind = "query" /\ exec[Delayer].at = 2
          => exec[Delayer].seen \in Snapshots

\* Where the delay thread and the master thread are relative to each other.
PhaseControl ==
    /\ phase # "startup" <=> allowAsync
    /\ phase = "startup" => \A c \in Callers \ {Master} : Idle(c)
    /\ resultOwner # NoThread => phase = "running"
    /\ phase \in {"closing", "joining", "flushing", "halted"} =>
          \A c \in Callers \ {Master} : Idle(c)
    /\ phase \in {"joining", "flushing", "halted"} => Idle(Master)
    /\ delayPc \in {"destructor", "flush"} <=> phase \in {"flushing", "halted"}
    /\ delayPc \in {"sleep", "ping", "exited", "destructor"} => batch = <<>> /\ Idle(Delayer)
    /\ delayPc = "flush" => queue = <<>>
    /\ phase = "halted" => delayPc = "flush" /\ batch = <<>> /\ Idle(Delayer)

\* Numbers grow along the way of a request: the queue, the local queue, the
\* operation executed, the results.
Increasing(s) == \A i, j \in DOMAIN s : i < j => s[i].n < s[j].n

Precedes(s, u) == \A i \in DOMAIN s, j \in DOMAIN u : s[i].n < u[j].n

InOrder ==
    /\ \A i \in DOMAIN queue : queue[i].n <= issued
    /\ \A i \in DOMAIN batch : batch[i].n <= issued
    /\ Increasing(queue) /\ Increasing(batch) /\ Precedes(batch, queue)
    /\ Precedes(results, queue) /\ Precedes(results, batch)
    /\ ~Idle(Delayer) =>
          LET op == exec[Delayer].op IN
             /\ op.n <= issued
             /\ \A i \in DOMAIN queue : op.n < queue[i].n
             /\ \A i \in DOMAIN batch : op.n < batch[i].n
             /\ \A i \in DOMAIN results : results[i].n < op.n
    /\ \A i \in DOMAIN results : results[i].n <= issued

\* The rows of a transaction whose first m statements have been executed.
WrittenBy(op, m) ==
    [k \in Keys |-> IF \E i \in 1..m : op.keys[i] = k THEN op.n ELSE rows[k]]

\* What thread t has done of its execution: a transaction that was begun holds exactly
\* the statements it has executed, and a query has read the content as it still is.
Progress(t) ==
    LET e == exec[t] IN
       /\ ~Idle(t) /\ e.op.kind = "trans" /\ e.at # 0 =>
             /\ ~IsEmptyTransaction(e.op)
             /\ e.at <= Len(e.op.keys) + 1
             /\ begun => tx = WrittenBy(e.op, e.at - 1)
       /\ ~Idle(t) /\ e.op.kind = "query" /\ e.at = 2 => e.seen = Content

\* A caller executes its own requests, each newer than the last one confirmed.
OwnRequests ==
    \A c \in Callers :
        /\ confirmed[c] <= issued
        /\ ~Idle(c) => LET op == exec[c].op IN
                          op.by = c /\ confirmed[c] < op.n /\ op.n <= issued

Inductive == /\ LockOwners /\ PhaseControl /\ InOrder
             /\ TransactionIsolated
             /\ OwnRequests /\ \A t \in Threads : Progress(t)

\* The layer implements the store that serves each thread's requests in order,
\* each one at once: a request takes effect when the thread that executes it
\* lets go of the connection.
Delayed == {Line[i] : i \in DOMAIN Line}

DirectCalls == [c \in Callers |-> IF Idle(c) THEN None ELSE exec[c].op]

\* What a refused COMMIT or ROLLBACK has left open, and the transaction that is
\* executed although its BEGIN was refused.
LeftOpen == IF begun THEN None ELSE tx

Loose == IF /\ connOwner # NoThread
            /\ ~begun
            /\ exec[connOwner].op.kind = "trans"
         THEN exec[connOwner].op ELSE None

Serial == INSTANCE SerialDatabase WITH
              pending <- Delayed, calls <- DirectCalls, replies <- results,
              allowed <- allowAsync, last <- issued, open <- LeftOpen, loose <- Loose,
              refusals <- fails

ImplementsSerial == Serial!Spec

\* Every delayed request is finished at last, the ones still queued when the
\* server halts included.
DelayedRequestsServed ==
    \A n \in Numbers :
        (\E i \in DOMAIN queue : queue[i].n = n) ~> (\A i \in DOMAIN Line : Line[i].n # n)
=============================================================================
