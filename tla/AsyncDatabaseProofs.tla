------------------------ MODULE AsyncDatabaseProofs -------------------------
(***************************************************************************)
(* Theorems about AsyncDatabase, for every set of threads and rows and     *)
(* every value of the bounds.                                              *)
(***************************************************************************)
EXTENDS AsyncDatabase, SequenceTheorems, TLAPS

\* The statements of a transaction are a sequence no longer than the bound,
\* and stay one when a statement is added below the bound.
LEMMA StatementsAreSequences ==
    ASSUME NEW s \in Statements
    PROVE  s \in Seq(Keys) /\ Len(s) \in 0..MaxStmts /\ DOMAIN s = 1..Len(s)
BY BoundsAssumption DEF Statements

LEMMA StatementAdded ==
    ASSUME NEW s \in Statements, NEW k \in Keys, Len(s) < MaxStmts
    PROVE  Append(s, k) \in Statements
<1>1. PICK m \in 0..MaxStmts : s \in [1..m -> Keys]
  BY DEF Statements
<1>2. s \in Seq(Keys) /\ Len(s) = m
  BY <1>1, BoundsAssumption
<1>3. Append(s, k) \in Seq(Keys) /\ Len(Append(s, k)) = m + 1
  BY <1>2
<1>4. Append(s, k) \in [1..(m + 1) -> Keys]
  BY <1>3, LenProperties
<1>5. m + 1 \in 0..MaxStmts
  BY <1>2, BoundsAssumption
<1> QED
  BY <1>4, <1>5 DEF Statements

LEMMA ShortStatements ==
    /\ <<>> \in Statements
    /\ \A k \in Keys : <<k>> \in Statements
<1>1. <<>> \in [1..0 -> Keys]
  OBVIOUS
<1>2. ASSUME NEW k \in Keys PROVE <<k>> \in [1..1 -> Keys]
  OBVIOUS
<1> QED
  BY <1>1, <1>2, BoundsAssumption DEF Statements

\* A request just made, and the execution of a request, have their types.
LEMMA NewRequest ==
    ASSUME TypeOK, NEW c \in Callers, issued < MaxOps,
           NEW kind \in {"plain", "trans", "query"}, NEW keys \in Statements,
           kind = "plain" => Len(keys) = 1
    PROVE  Op(c, kind, keys) \in Requests
BY BoundsAssumption DEF TypeOK, Op, Requests, Numbers

LEMMA NewExecution ==
    ASSUME NEW op \in Requests
    PROVE  Started(op) \in Executions /\ Started(op).at = 0 /\ Started(op).op = op
BY DEF Started, Executions

LEMMA ExecutionAdvanced ==
    ASSUME NEW e \in Executions
    PROVE  /\ e # None /\ e.at \in Nat
           /\ \A n \in Nat :
                 LET f == [e EXCEPT !.at = n] IN
                    f \in Executions /\ f # None /\ f.at = n /\ f.op = e.op /\ f.seen = e.seen
<1>1. e # None /\ e.at \in Nat
  BY NoneAssumption DEF Executions
<1>2. ASSUME NEW n \in Nat
      PROVE  LET f == [e EXCEPT !.at = n] IN
                f \in Executions /\ f.at = n /\ f.op = e.op /\ f.seen = e.seen
  BY DEF Executions
<1> QED
  BY <1>1, <1>2, NoneAssumption

LEMMA ExecutionAnswered ==
    ASSUME NEW e \in Executions, NEW r \in Snapshots
    PROVE  LET f == [e EXCEPT !.at = 2, !.seen = r] IN
              f \in Executions /\ f # None /\ f.at = 2 /\ f.op = e.op /\ f.seen = r
<1>1. LET f == [e EXCEPT !.at = 2, !.seen = r] IN
         f \in Executions /\ f.at = 2 /\ f.op = e.op /\ f.seen = r
  BY DEF Executions
<1> QED
  BY <1>1, NoneAssumption

\* What a statement reads is a content of the rows, and refusals are counted.
LEMMA ContentTyped ==
    ASSUME TypeOK
    PROVE  Content \in Snapshots /\ Content # None
BY NoneAssumption DEF TypeOK, Content

LEMMA RefusalsCounted ==
    ASSUME TypeOK, NEW n \in {1, 2}, Refuse(n)
    PROVE  fails' \in 0..MaxFails /\ fails' > fails /\ fails' > 0
<1>1. fails \in Nat /\ MaxFails \in Nat
  BY BoundsAssumption DEF TypeOK
<1> QED
  BY <1>1 DEF Refuse

\* Every call of a thread keeps the types.
LEMMA CallKeepsTypes ==
    ASSUME TypeOK, NEW c \in Callers, Call(c)
    PROVE  TypeOK'
<1> USE CallersAssumption, BoundsAssumption
    DEF TypeOK, callVars, delayVars, connVars, resultVars, NewCall, MayCall, Threads
<1>1. CASE ExecuteInTransaction(c)
  BY <1>1, StatementAdded DEF ExecuteInTransaction
<1>2. CASE Execute(c)
  <2>1. \A k \in Keys : Op(c, "plain", <<k>>) \in Requests
    BY <1>2, ShortStatements, NewRequest DEF Execute
  <2>2. PICK k \in Keys :
           \/ Delay(Op(c, "plain", <<k>>)) /\ UNCHANGED exec
           \/ StartDirect(c, Op(c, "plain", <<k>>)) /\ UNCHANGED queue
    BY <1>2, Zenon DEF Execute
  <2>3. queue' \in Seq(Requests) /\ exec' \in [Threads -> Executions \cup {None}]
    <3> HIDE DEF TypeOK
    <3>1. queue \in Seq(Requests) /\ exec \in [Threads -> Executions \cup {None}]
      BY DEF TypeOK
    <3>2. \A op \in Requests : Append(queue, op) \in Seq(Requests)
      BY <3>1
    <3>3. queue' \in Seq(Requests)
      BY <2>1, <2>2, <3>1, <3>2, Zenon DEF Delay
    <3>4. exec' \in [Threads -> Executions \cup {None}]
      BY <2>1, <2>2, <3>1, NewExecution DEF StartDirect
    <3> QED
      BY <3>3, <3>4
  <2> QED
    BY <1>2, <2>3 DEF Execute
<1>3. CASE DirectExecute(c)
  <2>1. \A k \in Keys : Op(c, "plain", <<k>>) \in Requests
    BY <1>3, ShortStatements, NewRequest DEF DirectExecute
  <2> QED
    BY <1>3, <2>1, NewExecution DEF DirectExecute, StartDirect
<1>4. CASE BeginTransaction(c)
  BY <1>4, ShortStatements DEF BeginTransaction
<1>5. CASE CommitTransaction(c)
  <2>1. Op(c, "trans", transaction[c]) \in Requests
    BY <1>5, NewRequest DEF CommitTransaction
  <2>2. \/ Delay(Op(c, "trans", transaction[c])) /\ UNCHANGED exec
        \/ StartDirect(c, Op(c, "trans", transaction[c])) /\ UNCHANGED queue
    BY <1>5, Zenon DEF CommitTransaction
  <2>3. queue' \in Seq(Requests) /\ exec' \in [Threads -> Executions \cup {None}]
    <3> HIDE DEF TypeOK
    <3>1. queue \in Seq(Requests) /\ exec \in [Threads -> Executions \cup {None}]
      BY DEF TypeOK
    <3>2. \A op \in Requests : Append(queue, op) \in Seq(Requests)
      BY <3>1
    <3>3. queue' \in Seq(Requests)
      BY <2>1, <2>2, <3>1, <3>2, Zenon DEF Delay
    <3>4. exec' \in [Threads -> Executions \cup {None}]
      BY <2>1, <2>2, <3>1, NewExecution DEF StartDirect
    <3> QED
      BY <3>3, <3>4
  <2>4. transaction' \in [Callers -> Statements \cup {None}] /\ issued' \in 0..MaxOps
    BY <1>5 DEF CommitTransaction
  <2>5. UNCHANGED <<allowAsync, delayVars, connOwner, rows, tx, begun, confirmed, fails, resultVars, phase>>
    BY <1>5, Zenon DEF CommitTransaction
  <2> QED
    BY <2>3, <2>4, <2>5
<1>6. CASE RollbackTransaction(c)
  BY <1>6 DEF RollbackTransaction
<1>7. CASE AsyncQuery(c)
  <2>1. Op(c, "query", <<>>) \in Requests
    BY <1>7, ShortStatements, NewRequest DEF AsyncQuery
  <2> QED
    BY <1>7, <2>1 DEF AsyncQuery, Delay
<1> QED
  BY <1>1, <1>2, <1>3, <1>4, <1>5, <1>6, <1>7 DEF Call

\* So does every step of an execution on the connection.
LEMMA PerformKeepsTypes ==
    ASSUME TypeOK, LockOwners, NEW t \in Threads, Perform(t)
    PROVE  TypeOK'
<1> USE CallersAssumption, BoundsAssumption
    DEF TypeOK, callVars, delayVars, connVars, resultVars
<1>0. exec[t] \in Executions /\ exec[t].op \in Requests
  BY DEF Perform, SkipEmptyTransaction, Lock, RunPlain, RunStatement, CommitOnConnection,
         RunQuery, AddResult, Executions
<1>1. exec' \in [Threads -> Executions \cup {None}] /\ connOwner' \in Threads \cup {NoThread}
  <2> USE DEF Finish, Executions
  <2>1. CASE SkipEmptyTransaction(t)
    BY <2>1 DEF SkipEmptyTransaction
  <2>2. CASE Lock(t)
    BY <1>0, <2>2 DEF Lock
  <2>3. CASE RunPlain(t)
    BY <2>3 DEF RunPlain
  <2>4. CASE RunStatement(t)
    <3>1. exec' = [exec EXCEPT ![t].at = @ + 1] \/ exec' = [exec EXCEPT ![t] = None]
      BY <2>4 DEF RunStatement
    <3>2. connOwner' \in Threads \cup {NoThread}
      BY <2>4 DEF RunStatement
    <3>3. exec' \in [Threads -> Executions \cup {None}]
      <4> HIDE DEF Executions, TypeOK
      <4>1. exec \in [Threads -> Executions \cup {None}]
        BY DEF TypeOK
      <4>2. exec[t].at + 1 \in Nat
        BY <1>0, ExecutionAdvanced
      <4>3. [exec[t] EXCEPT !.at = exec[t].at + 1] \in Executions
        BY <1>0, <4>2, ExecutionAdvanced
      <4> QED
        BY <3>1, <4>1, <4>3
    <3> QED
      BY <3>2, <3>3
  <2>5. CASE CommitOnConnection(t)
    BY <2>5 DEF CommitOnConnection
  <2>6. CASE RunQuery(t)
    <3> HIDE DEF TypeOK, Executions
    <3>1. [exec[t] EXCEPT !.at = 2, !.seen = Content] \in Executions
      BY <1>0, ContentTyped, ExecutionAnswered
    <3> QED
      BY <2>6, <3>1 DEF RunQuery, TypeOK
  <2>7. CASE AddResult(t)
    BY <2>7 DEF AddResult
  <2> QED
    BY <2>1, <2>2, <2>3, <2>4, <2>5, <2>6, <2>7 DEF Perform
<1>2. exec[t].op.n \in Numbers /\ exec[t].op.by \in Callers /\ exec[t].op.keys \in Statements
  BY <1>0 DEF Requests
<1> HIDE DEF TypeOK
<1>t. /\ allowAsync \in BOOLEAN /\ transaction \in [Callers -> Statements \cup {None}]
      /\ queue \in Seq(Requests) /\ batch \in Seq(Requests) /\ running \in BOOLEAN
      /\ delayPc \in {"sleep", "process", "ping", "exited", "destructor", "flush"}
      /\ resultOwner \in {NoThread, World} /\ issued \in 0..MaxOps
      /\ phase \in {"startup", "running", "closing", "joining", "flushing", "halted"}
      /\ UNCHANGED <<callVars, delayVars, resultOwner, phase>>
  <2>1. UNCHANGED <<callVars, delayVars, resultOwner, phase>>
    BY DEF Perform, SkipEmptyTransaction, Lock, RunPlain, RunStatement, CommitOnConnection,
           RunQuery, AddResult, resultVars
  <2> QED
    BY <2>1 DEF TypeOK
<1>c. /\ rows \in Snapshots /\ tx \in Snapshots \cup {None} /\ begun \in BOOLEAN
      /\ confirmed \in [Callers -> 0..MaxOps] /\ fails \in 0..MaxFails
      /\ results \in Seq([by : Callers, n : Numbers, seen : Snapshots])
  BY DEF TypeOK
<1>n. \A n \in {1, 2} : Refuse(n) => fails' \in 0..MaxFails
  BY RefusalsCounted
<1>x. ASSUME rows' \in Snapshots, tx' \in Snapshots \cup {None}, begun' \in BOOLEAN,
             confirmed' \in [Callers -> 0..MaxOps], fails' \in 0..MaxFails,
             results' \in Seq([by : Callers, n : Numbers, seen : Snapshots])
      PROVE  TypeOK'
  BY <1>1, <1>t, <1>x DEF TypeOK
<1>3. CASE SkipEmptyTransaction(t)
  BY <1>c, <1>x, <1>3 DEF SkipEmptyTransaction
<1>4. CASE Lock(t)
  <2>1. BeginOnConnection \/ UNCHANGED <<rows, tx, begun, fails>>
    BY <1>4 DEF Lock
  <2>2. rows' \in Snapshots /\ tx' \in Snapshots \cup {None} /\ begun' \in BOOLEAN /\ fails' \in 0..MaxFails
    BY <1>c, <1>n, <2>1, ContentTyped DEF BeginOnConnection
  <2>3. UNCHANGED <<confirmed, results>>
    BY <1>4 DEF Lock
  <2> QED
    BY <1>c, <1>x, <2>2, <2>3
<1>5. CASE RunPlain(t)
  <2>1. exec[t].op.keys[1] \in Keys
    BY <1>0, <1>2, <1>5, StatementsAreSequences DEF RunPlain, Requests
  <2>2. rows' \in Snapshots /\ tx' \in Snapshots \cup {None}
    <3>1. Write(exec[t].op.keys[1], exec[t].op.n) \/ UNCHANGED <<rows, tx>>
      BY <1>5 DEF RunPlain
    <3> QED
      BY <1>2, <1>c, <2>1, <3>1 DEF Write, Snapshots
  <2>3. confirmed' \in [Callers -> 0..MaxOps]
    <3>1. Confirm(t, exec[t].op) \/ confirmed' = confirmed
      BY <1>5 DEF RunPlain
    <3>2. exec[t].op.n \in 0..MaxOps
      BY <1>2 DEF Numbers
    <3> QED
      BY <1>c, <3>1, <3>2 DEF Confirm
  <2>4. fails' \in 0..MaxFails /\ begun' = FALSE /\ UNCHANGED results
    BY <1>c, <1>n, <1>5 DEF RunPlain, Finish
  <2> QED
    BY <1>c, <1>x, <2>2, <2>3, <2>4
<1>6. CASE RunStatement(t)
  <2>1. exec[t].op.keys[exec[t].at] \in Keys
    BY <1>2, <1>6, StatementsAreSequences DEF RunStatement
  <2>2. rows' \in Snapshots /\ tx' \in Snapshots \cup {None}
    <3>1. \/ Write(exec[t].op.keys[exec[t].at], exec[t].op.n)
          \/ tx' \in {tx, None} /\ UNCHANGED rows
      BY <1>6 DEF RunStatement
    <3> QED
      BY <1>2, <1>c, <2>1, <3>1 DEF Write, Snapshots
  <2>3. fails' \in 0..MaxFails /\ begun' \in BOOLEAN /\ UNCHANGED <<confirmed, results>>
    BY <1>c, <1>n, <1>6 DEF RunStatement, Finish
  <2> QED
    BY <1>c, <1>x, <2>2, <2>3
<1>7. CASE CommitOnConnection(t)
  <2>1. rows' \in {rows, Content} /\ tx' \in {tx, None}
    BY <1>7 DEF CommitOnConnection
  <2>2. fails' \in 0..MaxFails /\ begun' = FALSE /\ UNCHANGED <<confirmed, results>>
    BY <1>c, <1>n, <1>7 DEF CommitOnConnection, Finish
  <2> QED
    BY <1>c, <1>x, <2>1, <2>2, ContentTyped
<1>8. CASE RunQuery(t)
  BY <1>c, <1>x, <1>8 DEF RunQuery
<1>9. CASE AddResult(t)
  <2>1. t = Delayer /\ exec[t].seen \in Snapshots
    BY <1>9 DEF AddResult, LockOwners, Threads, Idle
  <2>2. [by |-> exec[t].op.by, n |-> exec[t].op.n, seen |-> exec[t].seen]
           \in [by : Callers, n : Numbers, seen : Snapshots]
    BY <1>2, <2>1
  <2>3. results' \in Seq([by : Callers, n : Numbers, seen : Snapshots])
    BY <1>9, <1>c, <2>2 DEF AddResult
  <2>4. UNCHANGED <<rows, tx, confirmed, fails>> /\ begun' = FALSE
    BY <1>9 DEF AddResult, Finish
  <2> QED
    BY <1>c, <1>x, <2>3, <2>4
<1> QED
  BY <1>3, <1>4, <1>5, <1>6, <1>7, <1>8, <1>9 DEF Perform

\* So do the loops of the delay thread and of the world thread, and the master.
LEMMA LoopsKeepTypes ==
    ASSUME TypeOK, DelayLoop \/ WorldLoop \/ MasterStep
    PROVE  TypeOK'
<1> USE CallersAssumption, BoundsAssumption
    DEF TypeOK, callVars, delayVars, connVars, resultVars
<1>1. CASE MoveQueue
  BY <1>1 DEF MoveQueue
<1>2. CASE TakeOperation
  <2>1. Head(batch) \in Requests /\ Tail(batch) \in Seq(Requests)
    BY <1>2 DEF TakeOperation
  <2> QED
    BY <1>2, <2>1, NewExecution DEF TakeOperation, Threads
<1>3. CASE EndProcessRequests
  BY <1>3 DEF EndProcessRequests, Loop
<1>4. CASE Ping
  BY <1>4 DEF Ping, Loop
<1>5. CASE LockResults
  BY <1>5 DEF LockResults
<1>6. CASE RunCallback
  BY <1>6 DEF RunCallback
<1>7. CASE UnlockResults
  BY <1>7 DEF UnlockResults
<1>8. CASE MasterStep
  BY <1>8 DEF MasterStep, AllowAsyncTransactions, JoinCallers, Stop, JoinDelayThread, Halt
<1> QED
  BY <1>1, <1>2, <1>3, <1>4, <1>5, <1>6, <1>7, <1>8 DEF DelayLoop, WorldLoop

\* The types are an invariant together with the strengthening below.
LEMMA TypesKept ==
    ASSUME TypeOK, LockOwners, [Next]_vars
    PROVE  TypeOK'
<1>1. CASE UNCHANGED vars
  BY <1>1 DEF TypeOK, vars, callVars, delayVars, connVars, resultVars
<1>2. CASE Next
  BY <1>1, <1>2, CallKeepsTypes, PerformKeepsTypes, LoopsKeepTypes DEF Next, Halted
<1> QED
  BY <1>1, <1>2

\* A call starts at most an execution of its own thread, of a write, and only
\* if the thread executes nothing.
LEMMA CallStartsExecution ==
    ASSUME TypeOK, NEW c \in Callers, Call(c)
    PROVE  /\ UNCHANGED <<connOwner, rows, tx, begun, fails, resultOwner, results, phase, delayPc, batch>>
           /\ exec[c] = None
           /\ \/ UNCHANGED exec
              \/ \E op \in Requests :
                    /\ exec' = [exec EXCEPT ![c] = Started(op)]
                    /\ op.kind # "query"
<1> USE DEF TypeOK, callVars, delayVars, connVars, resultVars, NewCall, MayCall
<1>1. CASE ExecuteInTransaction(c)
  BY <1>1 DEF ExecuteInTransaction
<1>2. CASE Execute(c)
  <2>1. \A k \in Keys : Op(c, "plain", <<k>>) \in Requests
    BY <1>2, ShortStatements, NewRequest DEF Execute
  <2>2. \/ UNCHANGED exec
        \/ \E k \in Keys : StartDirect(c, Op(c, "plain", <<k>>))
    BY <1>2, Zenon DEF Execute
  <2>3. \A k \in Keys : Op(c, "plain", <<k>>).kind # "query"
    BY DEF Op
  <2>4. exec[c] = None /\ UNCHANGED <<connOwner, rows, tx, begun, fails, resultOwner, results, phase, delayPc, batch>>
    BY <1>2 DEF Execute
  <2> QED
    BY <2>1, <2>2, <2>3, <2>4, Zenon DEF StartDirect
<1>3. CASE DirectExecute(c)
  <2>1. \A k \in Keys : Op(c, "plain", <<k>>) \in Requests
    BY <1>3, ShortStatements, NewRequest DEF DirectExecute
  <2>2. \E k \in Keys : StartDirect(c, Op(c, "plain", <<k>>))
    BY <1>3, Zenon DEF DirectExecute
  <2>3. \A k \in Keys : Op(c, "plain", <<k>>).kind # "query"
    BY DEF Op
  <2>4. exec[c] = None /\ UNCHANGED <<connOwner, rows, tx, begun, fails, resultOwner, results, phase, delayPc, batch>>
    BY <1>3 DEF DirectExecute
  <2> QED
    BY <2>1, <2>2, <2>3, <2>4, Zenon DEF StartDirect
<1>4. CASE BeginTransaction(c)
  BY <1>4 DEF BeginTransaction
<1>5. CASE CommitTransaction(c)
  <2>1. Op(c, "trans", transaction[c]) \in Requests
    BY <1>5, NewRequest DEF CommitTransaction
  <2>2. \/ UNCHANGED exec
        \/ StartDirect(c, Op(c, "trans", transaction[c]))
    BY <1>5, Zenon DEF CommitTransaction
  <2>3. Op(c, "trans", transaction[c]).kind # "query"
    BY DEF Op
  <2>4. exec[c] = None /\ UNCHANGED <<connOwner, rows, tx, begun, fails, resultOwner, results, phase, delayPc, batch>>
    BY <1>5 DEF CommitTransaction
  <2> QED
    BY <2>1, <2>2, <2>3, <2>4, Zenon DEF StartDirect
<1>6. CASE RollbackTransaction(c)
  BY <1>6 DEF RollbackTransaction
<1>7. CASE AsyncQuery(c)
  BY <1>7 DEF AsyncQuery
<1> QED
  BY <1>1, <1>2, <1>3, <1>4, <1>5, <1>6, <1>7 DEF Call

LEMMA CallIsLocal ==
    ASSUME TypeOK, NEW c \in Callers, Call(c)
    PROVE  \A t \in Threads \ {c} : exec'[t] = exec[t]
<1>1. exec' = exec \/ \E op \in Requests : exec' = [exec EXCEPT ![c] = Started(op)]
  BY CallStartsExecution
<1> QED
  BY <1>1 DEF TypeOK

\* The connection's mutex is held exactly by the thread that executes on it.
LEMMA LockOwnersKept ==
    ASSUME TypeOK, TypeOK', LockOwners, [Next]_vars
    PROVE  LockOwners'
<1> USE CallersAssumption DEF TypeOK, callVars, delayVars, connVars, resultVars, Threads, Idle
<1>1. CASE UNCHANGED <<exec, connOwner>>
  BY <1>1 DEF LockOwners
<1>2. ASSUME NEW c \in Callers, Call(c) PROVE LockOwners'
  <2>1. UNCHANGED connOwner /\ exec[c] = None
    BY <1>2, CallStartsExecution
  <2>2. CASE \E op \in Requests : exec' = [exec EXCEPT ![c] = Started(op)] /\ op.kind # "query"
    <3>1. PICK op \in Requests : exec' = [exec EXCEPT ![c] = Started(op)] /\ op.kind # "query"
      BY <2>2
    <3>2. Started(op).at = 0 /\ Started(op).op = op
      BY DEF Started
    <3> HIDE DEF TypeOK
    <3>3. exec'[c] = Started(op) /\ \A t \in Threads \ {c} : exec'[t] = exec[t]
      BY <3>1 DEF TypeOK
    <3> QED
      BY <2>1, <3>1, <3>2, <3>3 DEF LockOwners
  <2> QED
    BY <1>1, <1>2, <2>1, <2>2, CallStartsExecution
<1>3. ASSUME NEW t \in Threads, Perform(t) PROVE LockOwners'
  <2> USE DEF Finish
  <2>0. exec[t] \in Executions
    BY <1>3 DEF Perform, SkipEmptyTransaction, Lock, RunPlain, RunStatement, CommitOnConnection,
                RunQuery, AddResult
  <2>1. CASE SkipEmptyTransaction(t)
    BY <2>1 DEF SkipEmptyTransaction, LockOwners
  <2>2. CASE Lock(t)
    <3>1. exec'[t] = [exec[t] EXCEPT !.at = 1] /\ \A u \in Threads \ {t} : exec'[u] = exec[u]
      BY <2>2 DEF Lock
    <3>2. exec'[t] # None /\ exec'[t].at = 1 /\ exec'[t].op = exec[t].op
      <4>1. 1 \in Nat
        OBVIOUS
      <4> HIDE DEF TypeOK
      <4> QED
        BY <2>0, <3>1, <4>1, ExecutionAdvanced
    <3>3. connOwner = NoThread /\ connOwner' = t /\ exec[t] # None
      BY <2>2 DEF Lock
    <3> HIDE DEF TypeOK
    <3>4. \A u \in Threads \ {t} : exec'[u] = exec[u]
      BY <3>1
    <3>5. \A u \in Threads : connOwner' = u <=> (exec'[u] # None /\ exec'[u].at # 0)
      BY <3>2, <3>3, <3>4 DEF LockOwners
    <3> QED
      BY <3>2, <3>3, <3>4, <3>5 DEF LockOwners
  <2>3. CASE RunPlain(t)
    <3>1. exec' = [exec EXCEPT ![t] = None] /\ connOwner' = NoThread /\ exec[t] # None /\ exec[t].at = 1
      BY <2>3 DEF RunPlain
    <3> QED
      BY <3>1 DEF LockOwners
  <2>4. CASE RunStatement(t)
    <3>1. CASE exec' = [exec EXCEPT ![t] = None] /\ connOwner' = NoThread
      BY <2>4, <3>1 DEF RunStatement, LockOwners
    <3>2. CASE exec' = [exec EXCEPT ![t].at = @ + 1] /\ UNCHANGED connOwner
      <4>1. exec'[t] = [exec[t] EXCEPT !.at = @ + 1] /\ \A u \in Threads \ {t} : exec'[u] = exec[u]
        BY <3>2
      <4>2. exec[t].at \in Nat /\ exec[t].at # 0 /\ exec[t] # None /\ exec[t].op.kind = "trans"
        BY <2>0, <2>4, ExecutionAdvanced DEF RunStatement
      <4>3. exec'[t] # None /\ exec'[t].at # 0 /\ exec'[t].op = exec[t].op
        <5>1. exec[t].at + 1 \in Nat /\ exec[t].at + 1 # 0
          <6> HIDE DEF TypeOK
          <6> QED
            BY <4>2
        <5> QED
          BY <2>0, <4>1, <5>1, ExecutionAdvanced
      <4> HIDE DEF TypeOK
      <4> QED
        BY <3>2, <4>1, <4>2, <4>3 DEF LockOwners
    <3> QED
      BY <2>4, <3>1, <3>2 DEF RunStatement
  <2>5. CASE CommitOnConnection(t)
    BY <2>5 DEF CommitOnConnection, LockOwners
  <2>6. CASE RunQuery(t)
    <3>1. exec'[t] = [exec[t] EXCEPT !.at = 2, !.seen = Content] /\ \A u \in Threads \ {t} : exec'[u] = exec[u]
      BY <2>6 DEF RunQuery
    <3>2. exec'[t] # None /\ exec'[t].at = 2 /\ exec'[t].op = exec[t].op /\ exec'[t].seen = Content
      <4> HIDE DEF TypeOK
      <4>1. Content \in Snapshots
        BY ContentTyped
      <4>2. LET f == [exec[t] EXCEPT !.at = 2, !.seen = Content] IN
               f # None /\ f.at = 2 /\ f.op = exec[t].op /\ f.seen = Content
        BY <2>0, <4>1, ExecutionAnswered
      <4> QED
        BY <3>1, <4>2
    <3>3. UNCHANGED connOwner /\ exec[t] # None /\ exec[t].at = 1
      BY <2>6 DEF RunQuery
    <3> HIDE DEF TypeOK
    <3>4. Content \in Snapshots
      BY ContentTyped
    <3>5. \A u \in Threads \ {t} : exec'[u] = exec[u]
      BY <3>1
    <3>6. \A u \in Threads : connOwner' = u <=> (exec'[u] # None /\ exec'[u].at # 0)
      BY <3>2, <3>3, <3>5 DEF LockOwners
    <3> QED
      BY <3>2, <3>3, <3>4, <3>5, <3>6 DEF LockOwners
  <2>7. CASE AddResult(t)
    BY <2>7 DEF AddResult, LockOwners
  <2> QED
    BY <1>3, <2>1, <2>2, <2>3, <2>4, <2>5, <2>6, <2>7 DEF Perform
<1>4. CASE DelayLoop
  <2>1. CASE TakeOperation
    <3>1. Head(batch) \in Requests
      BY <2>1 DEF TakeOperation
    <3> QED
      BY <2>1, <3>1 DEF TakeOperation, Started, LockOwners
  <2> QED
    BY <1>1, <1>4, <2>1 DEF DelayLoop, MoveQueue, EndProcessRequests, Ping
<1>5. CASE WorldLoop \/ MasterStep
  BY <1>1, <1>5 DEF WorldLoop, LockResults, RunCallback, UnlockResults, MasterStep,
       AllowAsyncTransactions, JoinCallers, Stop, JoinDelayThread, Halt
<1> QED
  BY <1>1, <1>2, <1>3, <1>4, <1>5 DEF Next, Halted, vars

\* What a step of an execution on the connection changes: its thread executes
\* something before it, and no other thread is disturbed.
LEMMA PerformIsLocal ==
    ASSUME TypeOK, NEW t \in Threads, Perform(t)
    PROVE  /\ exec[t] # None
           /\ \A u \in Threads \ {t} : exec'[u] = exec[u]
           /\ UNCHANGED <<allowAsync, phase, resultOwner, queue, batch, delayPc, issued, transaction>>
BY DEF Perform, SkipEmptyTransaction, Lock, RunPlain, RunStatement, CommitOnConnection, RunQuery,
       AddResult, Finish, TypeOK, callVars, delayVars, resultVars

\* Nothing but the open transaction's own statements is in it.
LEMMA TransactionIsolatedKept ==
    ASSUME TypeOK, LockOwners, TransactionIsolated, [Next]_vars
    PROVE  TransactionIsolated'
<1> USE CallersAssumption DEF Threads
<1>1. CASE UNCHANGED <<exec, connOwner, rows, tx, begun, fails>>
  BY <1>1 DEF TransactionIsolated
<1>2. ASSUME UNCHANGED <<connOwner, rows, tx, begun, fails>>,
             NEW u \in Threads, exec[u] = None, \A t \in Threads \ {u} : exec'[t] = exec[t]
      PROVE  TransactionIsolated'
  <2>1. connOwner # u /\ connOwner \in Threads \cup {NoThread}
    BY <1>2 DEF LockOwners, Idle, TypeOK
  <2> QED
    BY <1>2, <2>1 DEF TransactionIsolated
<1>3. ASSUME NEW c \in Callers, Call(c) PROVE TransactionIsolated'
  <2>1. UNCHANGED <<connOwner, rows, tx, begun, fails>> /\ exec[c] = None
    BY <1>3, CallStartsExecution
  <2>2. \A t \in Threads \ {c} : exec'[t] = exec[t]
    BY <1>3, CallIsLocal
  <2> QED
    BY <1>2, <2>1, <2>2
<1>4. ASSUME NEW t \in Threads, Perform(t) PROVE TransactionIsolated'
  <2>0. exec[t] \in Executions /\ t # NoThread
    BY <1>4, PerformIsLocal DEF TypeOK
  <2>r. \A n \in {1, 2} : Refuse(n) => fails' > 0
    BY RefusalsCounted
  <2>1. CASE SkipEmptyTransaction(t)
    <3>1. /\ UNCHANGED <<connOwner, rows, tx, begun, fails>>
          /\ connOwner # t /\ connOwner \in Threads \cup {NoThread}
      <4>1. UNCHANGED <<connOwner, rows, tx, begun, fails>> /\ exec[t].at = 0
        BY <2>1 DEF SkipEmptyTransaction
      <4> QED
        BY <4>1 DEF LockOwners, Idle, TypeOK
    <3> QED
      BY <1>4, <3>1, PerformIsLocal DEF TransactionIsolated
  <2>2. CASE Lock(t)
    <3>1. begun = FALSE
      BY <2>2 DEF Lock, TransactionIsolated, TypeOK
    <3>2. connOwner' = t /\ exec'[t] = [exec[t] EXCEPT !.at = 1]
      BY <2>2 DEF Lock, TypeOK
    <3>3. exec'[t] # None /\ exec'[t].op = exec[t].op
      BY <2>0, <3>2, ExecutionAdvanced
    <3>4. CASE exec[t].op.kind = "trans" /\ begun'
      <4>1. rows' = Content /\ tx' = Content
        BY <2>2, <3>1, <3>4 DEF Lock, BeginOnConnection
      <4>2. tx' # None
        BY <4>1, ContentTyped
      <4>3. connOwner' = t
        BY <3>2
      <4>4. connOwner' # NoThread /\ exec'[connOwner'] # None /\ exec'[connOwner'].op.kind = "trans"
        BY <2>0, <3>3, <3>4, <4>3
      <4>5. \A k \in Keys : tx'[k] = rows'[k]
        BY <4>1
      <4> QED
        BY <3>4, <4>2, <4>4, <4>5 DEF TransactionIsolated
    <3>5. CASE begun' = FALSE
      <4>1. fails' > 0 \/ UNCHANGED <<tx, fails>>
        BY <2>2, <2>r, <3>5 DEF Lock, BeginOnConnection
      <4> QED
        BY <3>1, <3>5, <4>1 DEF TransactionIsolated
    <3>6. begun' = FALSE \/ (exec[t].op.kind = "trans" /\ begun')
      <4>1. BeginOnConnection => begun' = TRUE \/ begun' = begun
        BY DEF BeginOnConnection
      <4> QED
        BY <2>2, <3>1, <4>1 DEF Lock
    <3> QED
      BY <3>4, <3>5, <3>6
  <2>3. CASE RunPlain(t)
    <3>1. connOwner = t
      BY <2>3 DEF RunPlain, LockOwners, Idle
    <3>2. begun = FALSE /\ begun' = FALSE
      BY <2>3, <3>1 DEF RunPlain, TransactionIsolated, TypeOK, Finish
    <3>3. fails' > 0 \/ (UNCHANGED fails /\ (tx = None => tx' = None))
      BY <2>3, <2>r DEF RunPlain, Write
    <3> QED
      BY <3>2, <3>3 DEF TransactionIsolated
  <2>4. CASE RunStatement(t)
    <3>1. connOwner = t /\ t # NoThread
      BY <2>0, <2>4 DEF RunStatement, LockOwners, Idle
    <3>2. CASE begun' = FALSE
      <4>1. fails' > 0 \/ (UNCHANGED <<begun, fails>> /\ (tx = None => tx' = None))
        BY <2>4, <2>r DEF RunStatement, Write
      <4> QED
        BY <3>2, <4>1 DEF TransactionIsolated
    <3>3. CASE begun'
      <4>0. /\ Write(exec[t].op.keys[exec[t].at], exec[t].op.n) /\ begun /\ UNCHANGED connOwner
            /\ exec' = [exec EXCEPT ![t].at = @ + 1]
        <5>1. \/ /\ Write(exec[t].op.keys[exec[t].at], exec[t].op.n)
                 /\ exec' = [exec EXCEPT ![t].at = @ + 1] /\ UNCHANGED <<connOwner, begun>>
              \/ begun' = FALSE
          BY <2>4, Zenon DEF RunStatement, Finish
        <5> QED
          BY <3>3, <5>1
      <4>1. tx # None /\ exec[t].op.kind = "trans" /\ \A j \in Keys : tx[j] \in {rows[j], exec[t].op.n}
        BY <3>1, <4>0 DEF TransactionIsolated
      <4>2. tx' = [tx EXCEPT ![exec[t].op.keys[exec[t].at]] = exec[t].op.n] /\ UNCHANGED rows
        BY <4>0, <4>1 DEF Write
      <4>a. exec[t].at + 1 \in Nat
        BY <2>0, ExecutionAdvanced
      <4>b. exec \in [Threads -> Executions \cup {None}]
        BY DEF TypeOK
      <4>3. exec'[t] = [exec[t] EXCEPT !.at = exec[t].at + 1] /\ exec[t].at + 1 \in Nat
        BY <4>0, <4>a, <4>b
      <4>4. exec'[t] # None /\ exec'[t].op = exec[t].op
        BY <2>0, <4>3, ExecutionAdvanced
      <4>5. tx \in [Keys -> Numbers \cup {0}]
        BY <4>1 DEF TypeOK, Snapshots
      <4>6. \A j \in Keys : tx'[j] = tx[j] \/ tx'[j] = exec[t].op.n
        BY <4>2, <4>5
      <4>7. tx' # None
        <5>1. tx' \in Snapshots
          <6>1. exec[t].op.n \in Numbers
            BY <2>0 DEF Executions, Requests
          <6> QED
            BY <4>2, <4>5, <6>1 DEF Snapshots
        <5> QED
          BY <5>1, NoneAssumption
      <4>8. connOwner' = t
        BY <3>1, <4>0
      <4>9. \A j \in Keys : tx'[j] \in {rows'[j], exec[t].op.n}
        BY <4>1, <4>2, <4>6
      <4> HIDE DEF Threads
      <4> QED
        BY <3>1, <3>3, <4>1, <4>4, <4>7, <4>8, <4>9 DEF TransactionIsolated
    <3> QED
      <4>1. begun' \in BOOLEAN
        BY <2>4 DEF RunStatement, Finish, TypeOK
      <4> QED
        BY <3>2, <3>3, <4>1
  <2>5. CASE CommitOnConnection(t)
    <3>1. begun' = FALSE /\ (tx' = None \/ fails' > 0)
      BY <2>5, <2>r DEF CommitOnConnection, Finish
    <3> QED
      BY <3>1 DEF TransactionIsolated
  <2>6. CASE RunQuery(t)
    <3>1. UNCHANGED <<begun, tx, fails>> /\ connOwner = t /\ exec[t].op.kind = "query"
      BY <2>6 DEF RunQuery, LockOwners, Idle
    <3>2. begun = FALSE
      BY <3>1 DEF TransactionIsolated, TypeOK
    <3> QED
      BY <3>1, <3>2 DEF TransactionIsolated
  <2>7. CASE AddResult(t)
    <3>1. UNCHANGED <<tx, fails>> /\ begun' = FALSE /\ connOwner = t /\ exec[t].op.kind = "query"
      BY <2>7 DEF AddResult, LockOwners, Idle, Finish
    <3>2. begun = FALSE
      BY <3>1 DEF TransactionIsolated, TypeOK
    <3> QED
      BY <3>1, <3>2 DEF TransactionIsolated
  <2> QED
    BY <1>4, <2>1, <2>2, <2>3, <2>4, <2>5, <2>6, <2>7 DEF Perform
<1>5. CASE DelayLoop
  <2>1. CASE TakeOperation
    BY <1>2, <2>1 DEF TakeOperation, TypeOK
  <2> QED
    BY <1>1, <1>5, <2>1 DEF DelayLoop, MoveQueue, EndProcessRequests, Ping, connVars
<1>6. CASE WorldLoop \/ MasterStep
  BY <1>1, <1>6 DEF WorldLoop, LockResults, RunCallback, UnlockResults, MasterStep,
       AllowAsyncTransactions, JoinCallers, Stop, JoinDelayThread, Halt, connVars
<1> QED
  BY <1>1, <1>3, <1>4, <1>5, <1>6 DEF Next, Halted, vars, connVars

\* The master thread waits for the others before it goes on, and the delay
\* thread is where the phase says.
LEMMA CallPhases ==
    ASSUME NEW c \in Callers, Call(c)
    PROVE  /\ phase = "running" \/ (phase \in {"startup", "closing"} /\ c = Master)
           /\ UNCHANGED allowAsync
BY DEF Call, ExecuteInTransaction, Execute, DirectExecute, BeginTransaction, CommitTransaction,
       RollbackTransaction, AsyncQuery, NewCall, MayCall

LEMMA PhaseControlKept ==
    ASSUME TypeOK, PhaseControl, [Next]_vars
    PROVE  PhaseControl'
<1> USE CallersAssumption DEF Threads, Idle
<1>1. CASE UNCHANGED vars
  BY <1>1 DEF PhaseControl, vars, callVars, delayVars, connVars, resultVars
<1>2. ASSUME NEW c \in Callers, Call(c) PROVE PhaseControl'
  <2>1. /\ phase = "running" \/ (phase \in {"startup", "closing"} /\ c = Master)
        /\ UNCHANGED allowAsync
    BY <1>2, CallPhases
  <2>2. UNCHANGED <<phase, resultOwner, delayPc, batch>>
    BY <1>2, CallStartsExecution
  <2>3. \A t \in Threads \ {c} : exec'[t] = exec[t]
    BY <1>2, CallIsLocal
  <2> QED
    BY <2>1, <2>2, <2>3 DEF PhaseControl
<1>3. ASSUME NEW t \in Threads, Perform(t) PROVE PhaseControl'
  <2>1. /\ exec[t] # None
        /\ \A u \in Threads \ {t} : exec'[u] = exec[u]
        /\ UNCHANGED <<allowAsync, phase, resultOwner, queue, batch, delayPc>>
    BY <1>3, PerformIsLocal
  <2> QED
    BY <2>1 DEF PhaseControl
<1>4. CASE MoveQueue
  BY <1>4 DEF MoveQueue, PhaseControl, connVars, resultVars
<1>5. CASE TakeOperation
  <2>1. \A u \in Threads \ {Delayer} : exec'[u] = exec[u]
    BY <1>5 DEF TakeOperation, TypeOK
  <2>2. /\ UNCHANGED <<allowAsync, phase, resultOwner, queue, delayPc>>
        /\ delayPc \in {"process", "flush"} /\ batch # <<>>
    BY <1>5 DEF TakeOperation, callVars, resultVars
  <2> QED
    BY <2>1, <2>2 DEF PhaseControl
<1>6. CASE EndProcessRequests \/ Ping
  BY <1>6 DEF EndProcessRequests, Ping, Loop, PhaseControl, callVars, connVars, resultVars
<1>7. CASE WorldLoop
  BY <1>7 DEF WorldLoop, LockResults, RunCallback, UnlockResults, PhaseControl, callVars,
              delayVars, connVars
<1>8. CASE MasterStep
  BY <1>8 DEF MasterStep, AllowAsyncTransactions, JoinCallers, Stop, JoinDelayThread, Halt,
              PhaseControl, callVars, delayVars, connVars, resultVars
<1> QED
  BY <1>1, <1>2, <1>3, <1>4, <1>5, <1>6, <1>7, <1>8 DEF Next, DelayLoop, Halted

\* What a call does to the queue: it appends a request numbered above all
\* earlier ones, or nothing.
LEMMA CallAppends ==
    ASSUME TypeOK, NEW c \in Callers, Call(c)
    PROVE  /\ issued' \in Nat /\ issued <= issued'
           /\ \/ UNCHANGED queue
              \/ \E op \in Requests : queue' = Append(queue, op) /\ op.n = issued + 1 /\ issued' = issued + 1
<1> USE DEF TypeOK, NewCall
<1>0. issued \in Nat
  BY BoundsAssumption
<1>1. CASE ExecuteInTransaction(c) \/ BeginTransaction(c) \/ RollbackTransaction(c)
  BY <1>0, <1>1 DEF ExecuteInTransaction, BeginTransaction, RollbackTransaction
<1>2. CASE Execute(c)
  <2>1. \A k \in Keys : Op(c, "plain", <<k>>) \in Requests /\ Op(c, "plain", <<k>>).n = issued + 1
    BY <1>2, ShortStatements, NewRequest DEF Execute, Op
  <2>2. UNCHANGED queue \/ \E k \in Keys : Delay(Op(c, "plain", <<k>>))
    BY <1>2, Zenon DEF Execute
  <2>3. issued' = issued + 1
    BY <1>2 DEF Execute
  <2>4. issued' \in Nat /\ issued <= issued'
    <3> HIDE DEF TypeOK, NewCall
    <3> QED
      BY <1>0, <2>3
  <2>5. UNCHANGED queue \/ \E op \in Requests : queue' = Append(queue, op) /\ op.n = issued + 1
    BY <2>1, <2>2, Zenon DEF Delay
  <2> QED
    BY <2>3, <2>4, <2>5, Zenon
<1>3. CASE DirectExecute(c)
  BY <1>0, <1>3 DEF DirectExecute
<1>4. CASE CommitTransaction(c)
  <2>1. Op(c, "trans", transaction[c]) \in Requests /\ Op(c, "trans", transaction[c]).n = issued + 1
    BY <1>4, NewRequest DEF CommitTransaction, Op
  <2>2. UNCHANGED queue \/ Delay(Op(c, "trans", transaction[c]))
    BY <1>4, Zenon DEF CommitTransaction
  <2>3. issued' = issued + 1
    BY <1>4 DEF CommitTransaction
  <2> HIDE DEF TypeOK, NewCall
  <2> QED
    BY <1>0, <2>1, <2>2, <2>3 DEF Delay
<1>5. CASE AsyncQuery(c)
  <2>1. Op(c, "query", <<>>) \in Requests /\ Op(c, "query", <<>>).n = issued + 1
    BY <1>5, ShortStatements, NewRequest DEF AsyncQuery, Op
  <2>2. Delay(Op(c, "query", <<>>)) /\ issued' = issued + 1
    BY <1>5 DEF AsyncQuery
  <2> HIDE DEF TypeOK, NewCall
  <2> QED
    BY <1>0, <2>1, <2>2 DEF Delay
<1> QED
  BY <1>1, <1>2, <1>3, <1>4, <1>5 DEF Call

\* What an execution on the connection does to the results: it appends the
\* answer to the request it executes, and finishes that, or nothing.
LEMMA PerformAnswers ==
    ASSUME TypeOK, NEW t \in Threads, Perform(t)
    PROVE  /\ exec'[t] = None \/ exec'[t].op = exec[t].op
           /\ \/ UNCHANGED results
              \/ /\ exec[t].op.kind = "query"
                 /\ exec[t].op.n \in Numbers
                 /\ \E r : results' = Append(results, r) /\ r.n = exec[t].op.n
                 /\ exec'[t] = None
<1> USE DEF TypeOK
<1>0. exec[t] \in Executions
  BY PerformIsLocal
<1>1. CASE SkipEmptyTransaction(t) \/ RunPlain(t) \/ CommitOnConnection(t)
  BY <1>1 DEF SkipEmptyTransaction, RunPlain, CommitOnConnection, Finish, resultVars
<1>2. CASE Lock(t)
  <2>1. exec'[t] = [exec[t] EXCEPT !.at = 1] /\ UNCHANGED results
    BY <1>2 DEF Lock, resultVars
  <2> QED
    BY <1>0, <2>1, ExecutionAdvanced
<1>3. CASE RunStatement(t)
  <2>1. exec'[t] = None \/ exec'[t] = [exec[t] EXCEPT !.at = exec[t].at + 1]
    BY <1>3 DEF RunStatement, Finish
  <2>2. exec[t].at + 1 \in Nat
    BY <1>0, ExecutionAdvanced
  <2>3. UNCHANGED results
    BY <1>3 DEF RunStatement, resultVars
  <2>4. [exec[t] EXCEPT !.at = exec[t].at + 1].op = exec[t].op
    BY <1>0, <2>2, ExecutionAdvanced
  <2> QED
    BY <2>1, <2>3, <2>4, Zenon
<1>4. CASE RunQuery(t)
  <2>1. exec'[t] = [exec[t] EXCEPT !.at = 2, !.seen = Content] /\ UNCHANGED results
    BY <1>4 DEF RunQuery, resultVars
  <2>2. [exec[t] EXCEPT !.at = 2, !.seen = Content].op = exec[t].op
    BY <1>0, ContentTyped, ExecutionAnswered
  <2> QED
    BY <2>1, <2>2, Zenon
<1>5. CASE AddResult(t)
  <2>1. exec[t].op.n \in Numbers
    BY <1>0 DEF Executions, Requests
  <2>2. exec'[t] = None /\ exec[t].op.kind = "query"
    BY <1>5 DEF AddResult, Finish
  <2>3. results' = Append(results, [by |-> exec[t].op.by, n |-> exec[t].op.n, seen |-> exec[t].seen])
    BY <1>5 DEF AddResult
  <2> QED
    BY <2>1, <2>2, <2>3
<1> QED
  BY <1>1, <1>2, <1>3, <1>4, <1>5 DEF Perform

\* The elements of a sequence with one more, and of a sequence with one less.
LEMMA AppendElements ==
    ASSUME NEW S, NEW s \in Seq(S), NEW e, NEW u, u = Append(s, e)
    PROVE  /\ DOMAIN s = 1..Len(s) /\ DOMAIN u = 1..(Len(s) + 1) /\ Len(s) \in Nat
           /\ u[Len(s) + 1] = e
           /\ \A i \in DOMAIN s : u[i] = s[i]
OBVIOUS

LEMMA TailElements ==
    ASSUME NEW S, NEW s \in Seq(S), s # <<>>, NEW u, u = Tail(s)
    PROVE  /\ DOMAIN s = 1..Len(s) /\ Len(s) \in Nat \ {0}
           /\ DOMAIN u = 1..(Len(s) - 1)
           /\ Head(s) = s[1] /\ 1 \in DOMAIN s
           /\ \A i \in DOMAIN u : i \in Nat \ {0} /\ i + 1 \in DOMAIN s /\ u[i] = s[i + 1]
OBVIOUS

\* Taking the first element leaves the order and the bounds of the others.
LEMMA TailInOrder ==
    ASSUME NEW S, NEW s \in Seq(S), s # <<>>, \A i \in DOMAIN s : s[i].n \in Nat,
           NEW u, u = Tail(s)
    PROVE  /\ Increasing(s) => Increasing(u)
           /\ Increasing(s) => \A i \in DOMAIN u : Head(s).n < u[i].n
           /\ \A i \in DOMAIN u : \E j \in DOMAIN s : u[i] = s[j]
<1>1. /\ Head(s) = s[1] /\ 1 \in DOMAIN s
      /\ \A i \in DOMAIN u : i \in Nat \ {0} /\ i + 1 \in DOMAIN s /\ u[i] = s[i + 1]
  BY TailElements
<1>2. ASSUME Increasing(s), NEW i \in DOMAIN u, NEW j \in DOMAIN u, i < j PROVE u[i].n < u[j].n
  <2>1. i + 1 < j + 1
    BY <1>1, <1>2
  <2> QED
    BY <1>1, <1>2, <2>1 DEF Increasing
<1>3. ASSUME Increasing(s), NEW i \in DOMAIN u PROVE Head(s).n < u[i].n
  <2>1. 1 < i + 1
    BY <1>1
  <2> QED
    BY <1>1, <1>3, <2>1 DEF Increasing
<1>4. \A i \in DOMAIN u : \E j \in DOMAIN s : u[i] = s[j]
  BY <1>1
<1>5. Increasing(s) => Increasing(u)
  BY <1>2, Zenon DEF Increasing
<1>6. Increasing(s) => \A i \in DOMAIN u : Head(s).n < u[i].n
  BY <1>3
<1> QED
  BY <1>4, <1>5, <1>6

\* The requests keep their order along their way.
LEMMA InOrderKept ==
    ASSUME TypeOK, LockOwners, PhaseControl, InOrder, [Next]_vars
    PROVE  InOrder'
<1> USE CallersAssumption DEF Threads, Idle
<1>s. /\ queue \in Seq(Requests) /\ batch \in Seq(Requests)
      /\ results \in Seq([by : Callers, n : Numbers, seen : Snapshots])
  BY DEF TypeOK
<1>0. /\ \A i \in DOMAIN queue : queue[i].n \in Nat
      /\ \A i \in DOMAIN batch : batch[i].n \in Nat
      /\ \A i \in DOMAIN results : results[i].n \in Nat
      /\ exec[Delayer] # None => exec[Delayer].op.n \in Nat
      /\ issued \in Nat
  <2>1. \A op \in Requests : op.n \in Nat
    BY BoundsAssumption DEF Requests, Numbers
  <2>2. \A e \in Executions : e.op \in Requests
    BY DEF Executions
  <2>3. exec[Delayer] \in Executions \cup {None}
    BY DEF TypeOK
  <2>5. \A i \in DOMAIN results : results[i].n \in Nat
    <3> DEFINE Answers == [by : Callers, n : Numbers, seen : Snapshots]
    <3>1. \A a \in Answers : a.n \in Nat
      BY BoundsAssumption DEF Numbers
    <3>2. results \in Seq(Answers)
      BY <1>s
    <3> HIDE DEF Answers
    <3> QED
      BY <3>1, <3>2
  <2>6. issued \in Nat
    BY BoundsAssumption DEF TypeOK
  <2> QED
    BY <1>s, <2>1, <2>2, <2>3, <2>5, <2>6
<1>1. CASE UNCHANGED <<queue, batch, results, exec, issued>>
  BY <1>1 DEF InOrder, Increasing, Precedes
<1>2. ASSUME NEW c \in Callers, Call(c) PROVE InOrder'
  <2>1. UNCHANGED <<batch, results>>
    BY <1>2, CallStartsExecution
  <2>2. \A t \in Threads \ {c} : exec'[t] = exec[t]
    BY <1>2, CallIsLocal
  <2>3. exec'[Delayer] = exec[Delayer]
    BY <2>2
  <2>4. issued' \in Nat /\ issued <= issued'
    BY <1>2, CallAppends
  <2>5. CASE UNCHANGED queue
    BY <1>0, <2>1, <2>3, <2>4, <2>5 DEF InOrder, Increasing, Precedes
  <2>6. CASE \E op \in Requests : queue' = Append(queue, op) /\ op.n = issued + 1 /\ issued' = issued + 1
    <3>1. PICK op \in Requests : queue' = Append(queue, op) /\ op.n = issued + 1 /\ issued' = issued + 1
      BY <2>6
    <3>2. /\ DOMAIN queue = 1..Len(queue) /\ DOMAIN queue' = 1..(Len(queue) + 1)
          /\ Len(queue) \in Nat /\ queue'[Len(queue) + 1] = op
          /\ \A i \in DOMAIN queue : queue'[i] = queue[i]
      BY <1>s, <3>1, AppendElements
    <3>3. op.n = issued + 1 /\ issued' = issued + 1
      BY <3>1
    <3>4. Increasing(queue)' /\ \A i \in DOMAIN queue' : queue'[i].n <= issued'
      BY <1>0, <3>2, <3>3 DEF InOrder, Increasing
    <3>5. Precedes(batch, queue)' /\ Precedes(results, queue)'
      BY <1>0, <2>1, <3>2, <3>3 DEF InOrder, Precedes
    <3>6. exec[Delayer] # None => \A i \in DOMAIN queue' : exec[Delayer].op.n < queue'[i].n
      BY <1>0, <3>2, <3>3 DEF InOrder
    <3> QED
      BY <1>0, <2>1, <2>3, <3>3, <3>4, <3>5, <3>6 DEF InOrder, Increasing, Precedes
  <2> QED
    BY <1>2, <2>5, <2>6, CallAppends
<1>3. ASSUME NEW t \in Threads, Perform(t) PROVE InOrder'
  <2>1. /\ UNCHANGED <<queue, batch, issued>>
        /\ \A u \in Threads \ {t} : exec'[u] = exec[u]
        /\ exec[t] # None
    BY <1>3, PerformIsLocal
  <2>2. CASE UNCHANGED results
    BY <1>0, <1>3, <2>1, <2>2, PerformAnswers DEF InOrder, Increasing, Precedes
  <2>3. CASE ~UNCHANGED results
    <3>1. PICK r : results' = Append(results, r) /\ r.n = exec[t].op.n
      BY <1>3, <2>3, PerformAnswers
    <3>2. exec[t].op.kind = "query" /\ exec'[t] = None
      BY <1>3, <2>3, PerformAnswers
    <3>3. t = Delayer
      BY <2>1, <3>2 DEF LockOwners
    <3>4. /\ DOMAIN results = 1..Len(results) /\ DOMAIN results' = 1..(Len(results) + 1)
          /\ Len(results) \in Nat /\ results'[Len(results) + 1] = r
          /\ \A i \in DOMAIN results : results'[i] = results[i]
      BY <1>s, <3>1, AppendElements
    <3>5. r.n = exec[Delayer].op.n /\ exec[Delayer] # None /\ exec'[Delayer] = None
      BY <2>1, <3>1, <3>2, <3>3
    <3>6. /\ Precedes(results, queue)' /\ Precedes(results, batch)'
          /\ \A i \in DOMAIN results' : results'[i].n <= issued'
      BY <1>0, <2>1, <3>4, <3>5 DEF InOrder, Precedes
    <3> QED
      BY <2>1, <3>5, <3>6 DEF InOrder, Increasing, Precedes
  <2> QED
    BY <2>2, <2>3
<1>4. CASE MoveQueue
  <2>1. batch' = queue /\ queue' = <<>> /\ UNCHANGED <<exec, results, issued>> /\ exec[Delayer] = None
    BY <1>4 DEF MoveQueue, PhaseControl, connVars, resultVars
  <2> QED
    BY <1>0, <2>1 DEF InOrder, Increasing, Precedes
<1>5. CASE TakeOperation
  <2>1. batch # <<>> /\ batch' = Tail(batch) /\ UNCHANGED <<queue, results, issued>>
    BY <1>5, Zenon DEF TakeOperation, callVars, resultVars
  <2>2. exec'[Delayer].op = Head(batch)
    BY <1>5 DEF TakeOperation, Started, TypeOK
  <2>3. /\ Increasing(batch)' /\ \A i \in DOMAIN batch' : exec'[Delayer].op.n < batch'[i].n
        /\ \A i \in DOMAIN batch' : \E j \in DOMAIN batch : batch'[i] = batch[j]
    <3>1. Increasing(batch)
      BY DEF InOrder
    <3>2. batch \in Seq(Requests) /\ \A i \in DOMAIN batch : batch[i].n \in Nat
      BY <1>s, <1>0
    <3> DEFINE rest == Tail(batch)
    <3>3. /\ Increasing(rest) /\ \A i \in DOMAIN rest : Head(batch).n < rest[i].n
          /\ \A i \in DOMAIN rest : \E j \in DOMAIN batch : rest[i] = batch[j]
      <4>1. batch # <<>> /\ rest = Tail(batch)
        BY <2>1
      <4>2. batch \in Seq(Requests)
        BY <3>2
      <4>3. \A i \in DOMAIN batch : batch[i].n \in Nat
        BY <3>2
      <4> HIDE DEF rest
      <4>4. /\ Increasing(batch) => Increasing(rest)
            /\ Increasing(batch) => \A i \in DOMAIN rest : Head(batch).n < rest[i].n
            /\ \A i \in DOMAIN rest : \E j \in DOMAIN batch : rest[i] = batch[j]
        <5>1. Increasing(batch) => Increasing(rest)
          BY <4>1, <4>2, <4>3, TailInOrder
        <5>2. Increasing(batch) => \A i \in DOMAIN rest : Head(batch).n < rest[i].n
          BY <4>1, <4>2, <4>3, TailInOrder
        <5>3. \A i \in DOMAIN rest : \E j \in DOMAIN batch : rest[i] = batch[j]
          BY <4>1, <4>2, <4>3, TailInOrder
        <5> QED
          BY <5>1, <5>2, <5>3
      <4> QED
        BY <3>1, <4>4
    <3>4. batch' = rest
      BY <2>1
    <3> HIDE DEF rest
    <3> QED
      BY <2>2, <3>3, <3>4 DEF Increasing
  <2>4. UNCHANGED <<queue, results, issued>>
    BY <2>1
  <2>5. exec'[Delayer].op = batch[1] /\ 1 \in DOMAIN batch
    BY <1>s, <2>1, <2>2, TailElements
  <2> QED
    BY <2>3, <2>4, <2>5 DEF InOrder, Precedes
<1>6. CASE EndProcessRequests \/ Ping \/ MasterStep
  BY <1>1, <1>6 DEF EndProcessRequests, Ping, MasterStep, AllowAsyncTransactions, JoinCallers,
       Stop, JoinDelayThread, Halt, callVars, delayVars, connVars, resultVars
<1>7. CASE LockResults \/ UnlockResults
  BY <1>1, <1>7 DEF LockResults, UnlockResults, callVars, delayVars, connVars
<1>8. CASE RunCallback
  <2>1. results # <<>> /\ results' = Tail(results) /\ UNCHANGED <<queue, batch, exec, issued>>
    BY <1>8 DEF RunCallback, callVars, delayVars, connVars
  <2>2. \A i \in DOMAIN results' : \E j \in DOMAIN results : results'[i] = results[j]
    BY <1>s, <1>0, <2>1, TailInOrder
  <2>3. UNCHANGED <<queue, batch, exec, issued>>
    BY <2>1
  <2> QED
    BY <2>2, <2>3 DEF InOrder, Increasing, Precedes
<1> QED
  BY <1>1, <1>2, <1>3, <1>4, <1>5, <1>6, <1>7, <1>8
     DEF Next, DelayLoop, WorldLoop, Halted, vars, callVars, delayVars, connVars, resultVars
-----------------------------------------------------------------------------
(* The content of the connection while a request is executed on it.        *)

\* While a thread holds the connection nobody else has started on it.
LEMMA OthersWait ==
    ASSUME LockOwners, NEW t \in Threads, NEW u \in Threads \ {t},
           connOwner = t \/ connOwner = NoThread
    PROVE  Idle(u) \/ exec[u].at = 0
BY CallersAssumption DEF LockOwners, Threads

\* An execution that has not started, or is over, has done nothing yet.
LEMMA NothingDone ==
    ASSUME NEW t \in Threads, exec'[t] = None \/ exec'[t].at = 0
    PROVE  Progress(t)'
BY DEF Progress, Idle

\* What a thread has done stays so while the content is untouched.
LEMMA ProgressUndisturbed ==
    ASSUME NEW t \in Threads, Progress(t), UNCHANGED <<rows, tx, begun>>, exec'[t] = exec[t]
    PROVE  Progress(t)'
BY DEF Progress, Idle, WrittenBy, Content, IsEmptyTransaction

\* Every call and every loop only starts executions, and touches no row.
LEMMA StartsOnly ==
    ASSUME TypeOK, DelayLoop \/ WorldLoop \/ MasterStep
    PROVE  /\ UNCHANGED <<rows, tx, begun, fails, connOwner, confirmed, issued>>
           /\ \A c \in Callers : exec'[c] = exec[c]
           /\ exec'[Delayer] = exec[Delayer] \/ exec'[Delayer].at = 0
<1> USE CallersAssumption DEF callVars, delayVars, connVars, resultVars
<1>1. CASE TakeOperation
  BY <1>1 DEF TakeOperation, Started, TypeOK, Threads
<1>2. CASE MoveQueue \/ EndProcessRequests \/ Ping
  BY <1>2 DEF MoveQueue, EndProcessRequests, Ping
<1>3. CASE WorldLoop \/ MasterStep
  BY <1>3 DEF WorldLoop, LockResults, RunCallback, UnlockResults, MasterStep,
       AllowAsyncTransactions, JoinCallers, Stop, JoinDelayThread, Halt
<1> QED
  BY <1>1, <1>2, <1>3 DEF DelayLoop

\* A transaction without a statement executed has the rows as they are; each
\* statement adds its row.
LEMMA WrittenByNone ==
    ASSUME NEW op \in Requests, rows \in Snapshots
    PROVE  WrittenBy(op, 0) = rows
BY DEF WrittenBy, Snapshots

LEMMA WrittenByMore ==
    ASSUME NEW op \in Requests, rows \in Snapshots, NEW m \in 1..Len(op.keys)
    PROVE  /\ WrittenBy(op, m - 1) \in Snapshots
           /\ WrittenBy(op, m) = [WrittenBy(op, m - 1) EXCEPT ![op.keys[m]] = op.n]
<1>1. op.n \in Numbers /\ op.keys \in Seq(Keys) /\ m \in Nat \ {0} /\ op.keys[m] \in Keys
  <2>1. op.n \in Numbers /\ op.keys \in Statements
    BY DEF Requests
  <2>2. op.keys \in Seq(Keys) /\ Len(op.keys) \in Nat
    BY <2>1, StatementsAreSequences
  <2> QED
    BY <2>1, <2>2
<1>2. WrittenBy(op, m - 1) \in Snapshots
  BY <1>1 DEF WrittenBy, Snapshots
<1>3. \A k \in Keys : (\E i \in 1..m : op.keys[i] = k)
                  <=> (k = op.keys[m] \/ \E i \in 1..(m - 1) : op.keys[i] = k)
  <2>1. \A i \in 1..m : i = m \/ i \in 1..(m - 1)
    BY <1>1
  <2>2. m \in 1..m /\ \A i \in 1..(m - 1) : i \in 1..m
    BY <1>1
  <2> QED
    BY <2>1, <2>2
<1>4. \A k \in Keys : WrittenBy(op, m)[k]
                    = IF k = op.keys[m] THEN op.n ELSE WrittenBy(op, m - 1)[k]
  BY <1>3, Zenon DEF WrittenBy
<1>5. DOMAIN WrittenBy(op, m) = Keys /\ DOMAIN WrittenBy(op, m - 1) = Keys
  BY DEF WrittenBy
<1>6. WrittenBy(op, m) = [k \in Keys |-> WrittenBy(op, m)[k]]
  BY DEF WrittenBy
<1> HIDE DEF WrittenBy
<1> QED
  BY <1>2, <1>4, <1>5, <1>6

\* The open transaction and the answer of a query are what has been executed.
LEMMA ProgressKept ==
    ASSUME TypeOK, LockOwners, TransactionIsolated, [Next]_vars,
           \A t \in Threads : Progress(t)
    PROVE  \A t \in Threads : Progress(t)'
<1> USE CallersAssumption
<1>1. CASE UNCHANGED vars
  BY <1>1, ProgressUndisturbed DEF vars, connVars
<1>2. ASSUME NEW c \in Callers, Call(c) PROVE \A t \in Threads : Progress(t)'
  <2>1. UNCHANGED <<rows, tx, begun>>
    BY <1>2, CallStartsExecution
  <2>2. exec'[c] = exec[c] \/ exec'[c].at = 0
    BY <1>2, CallStartsExecution DEF TypeOK, Threads, Started
  <2>3. \A t \in Threads \ {c} : exec'[t] = exec[t]
    BY <1>2, CallIsLocal
  <2> QED
    BY <2>1, <2>2, <2>3, ProgressUndisturbed, NothingDone
<1>3. ASSUME NEW t \in Threads, Perform(t) PROVE \A u \in Threads : Progress(u)'
  <2>1. /\ exec[t] \in Executions /\ ~Idle(t)
        /\ \A u \in Threads \ {t} : exec'[u] = exec[u]
    BY <1>3, PerformIsLocal DEF TypeOK, Idle
  <2>2. exec[t].op \in Requests /\ exec[t].at \in Nat
    BY <2>1 DEF Executions
  <2>3. \A u \in Threads \ {t} : connOwner = t \/ connOwner = NoThread => Progress(u)'
    BY <2>1, OthersWait, NothingDone DEF Idle
  <2>4. exec[t].at # 0 => connOwner = t
    BY <2>1 DEF LockOwners
  <2>5. CASE SkipEmptyTransaction(t)
    <3>1. UNCHANGED <<rows, tx, begun>> /\ exec'[t] = None
      BY <2>5 DEF SkipEmptyTransaction, TypeOK
    <3> QED
      BY <2>1, <3>1, ProgressUndisturbed, NothingDone
  <2>6. CASE exec'[t] = None /\ exec[t].at # 0
    BY <2>3, <2>4, <2>6, NothingDone
  <2>7. CASE Lock(t)
    <3>1. connOwner = NoThread /\ exec'[t] = [exec[t] EXCEPT !.at = 1]
      BY <2>7 DEF Lock, TypeOK
    <3>2. exec'[t].at = 1 /\ exec'[t].op = exec[t].op
      BY <2>1, <3>1, ExecutionAdvanced
    <3>3. ~IsEmptyTransaction(exec[t].op) /\ (begun' => tx' = rows' /\ rows' = Content)
      <4>1. begun = FALSE
        BY <3>1 DEF TransactionIsolated, TypeOK
      <4> QED
        BY <2>7, <4>1 DEF Lock, BeginOnConnection
    <3>4. 1 <= Len(exec[t].op.keys) + 1
      BY <2>2, StatementsAreSequences DEF Requests
    <3>5. begun' => WrittenBy(exec[t].op, 0)' = rows'
      <4>1. begun' => rows' \in Snapshots
        BY <3>3, ContentTyped
      <4> QED
        BY <3>2, <4>1 DEF WrittenBy, Snapshots
    <3>6. Progress(t)'
      <4>1. exec'[t].at - 1 = 0 /\ exec'[t].at # 2
        BY <3>2
      <4>2. begun' => WrittenBy(exec[t].op, exec[t].at - 1)' = rows'
        BY <3>5, <4>1
      <4>3. ~IsEmptyTransaction(exec'[t].op)
        BY <3>2, <3>3 DEF IsEmptyTransaction
      <4>4. exec'[t].at <= Len(exec'[t].op.keys) + 1
        BY <3>2, <3>4
      <4> QED
        BY <3>3, <4>1, <4>2, <4>3, <4>4 DEF Progress, IsEmptyTransaction
    <3> QED
      BY <2>3, <3>1, <3>6
  <2>8. CASE RunPlain(t) \/ CommitOnConnection(t) \/ AddResult(t)
    <3>1. exec'[t] = None
      BY <2>8 DEF RunPlain, CommitOnConnection, AddResult, Finish, TypeOK
    <3>2. exec[t].at # 0
      <4>1. exec[t].op.keys \in Statements
        BY <2>2 DEF Requests
      <4>2. Len(exec[t].op.keys) \in Nat
        BY <4>1, StatementsAreSequences
      <4> QED
        BY <2>8, <4>2 DEF RunPlain, CommitOnConnection, AddResult
    <3> QED
      BY <2>6, <3>1, <3>2
  <2>9. CASE RunStatement(t)
    <3> DEFINE op == exec[t].op
               m == exec[t].at
    <3>1. m \in 1..Len(op.keys) /\ m # 0 /\ op.kind = "trans"
      BY <2>9, <2>2 DEF RunStatement
    <3>2. CASE exec'[t] = None
      BY <2>6, <3>1, <3>2
    <3>3. CASE exec'[t] # None
      <4>1. Write(op.keys[m], op.n) /\ exec' = [exec EXCEPT ![t].at = @ + 1] /\ UNCHANGED begun
        BY <2>9, <3>3 DEF RunStatement, Finish, TypeOK
      <4>2. begun => tx = WrittenBy(op, m - 1)
        BY <2>1, <3>1 DEF Progress
      <4>3. /\ WrittenBy(op, m - 1) \in Snapshots
            /\ WrittenBy(op, m) = [WrittenBy(op, m - 1) EXCEPT ![op.keys[m]] = op.n]
        BY <2>2, <3>1, WrittenByMore DEF TypeOK
      <4>5. begun => UNCHANGED rows /\ tx' = WrittenBy(op, m)
        <5>1. SUFFICES ASSUME begun PROVE UNCHANGED rows /\ tx' = WrittenBy(op, m)
          OBVIOUS
        <5>2. tx # None
          BY <4>2, <4>3, <5>1, NoneAssumption
        <5>3. UNCHANGED rows /\ tx' = [tx EXCEPT ![op.keys[m]] = op.n]
          BY <4>1, <5>2 DEF Write
        <5> QED
          BY <4>2, <4>3, <5>1, <5>3
      <4>6. exec'[t].at = m + 1 /\ exec'[t].op = op
        <5>1. exec'[t] = [exec[t] EXCEPT !.at = m + 1]
          BY <4>1 DEF TypeOK
        <5>2. m + 1 \in Nat
          BY <2>2
        <5> QED
          BY <2>1, <5>1, <5>2, ExecutionAdvanced
      <4>7. m + 1 <= Len(op.keys) + 1 /\ (m + 1) - 1 = m
        <5>1. Len(op.keys) \in Nat
          BY <2>2, StatementsAreSequences DEF Requests
        <5> QED
          BY <3>1, <5>1
      <4>9. Progress(t)'
        <5>1. exec'[t].at - 1 = m
          BY <4>6, <4>7
        <5>2. begun => (WrittenBy(exec[t].op, exec[t].at - 1))' = WrittenBy(op, m)
          BY <4>5, <4>6, <5>1 DEF WrittenBy
        <5>3. begun' => tx' = (WrittenBy(exec[t].op, exec[t].at - 1))'
          BY <4>1, <4>5, <5>2
        <5>4. exec'[t].op.kind # "query"
          BY <3>1, <4>6
        <5>5. exec'[t].at <= Len(exec'[t].op.keys) + 1
          BY <4>6, <4>7
        <5>6. ~IsEmptyTransaction(exec'[t].op)
          BY <2>1, <3>1, <4>6 DEF Progress, IsEmptyTransaction
        <5> QED
          BY <5>3, <5>4, <5>5, <5>6 DEF Progress, IsEmptyTransaction
      <4> QED
        BY <2>3, <2>4, <3>1, <4>9
    <3> QED
      BY <3>2, <3>3
  <2>10. CASE RunQuery(t)
    <3>1. /\ exec'[t] = [exec[t] EXCEPT !.at = 2, !.seen = Content] /\ UNCHANGED <<rows, tx>>
          /\ exec[t].at # 0 /\ exec[t].op.kind = "query"
      BY <2>10 DEF RunQuery, TypeOK
    <3>2. exec'[t].op = exec[t].op /\ exec'[t].seen = Content
      <4>1. Content \in Snapshots /\ exec[t] \in Executions
        BY <2>1, ContentTyped
      <4>2. LET f == [exec[t] EXCEPT !.at = 2, !.seen = Content] IN
               f.op = exec[t].op /\ f.seen = Content
        BY <4>1 DEF Executions
      <4> QED
        BY <3>1, <4>2
    <3>3. Progress(t)'
      BY <3>1, <3>2 DEF Progress, Content
    <3> QED
      BY <2>3, <2>4, <3>1, <3>3
  <2> QED
    BY <1>3, <2>5, <2>7, <2>8, <2>9, <2>10 DEF Perform
<1>4. CASE DelayLoop \/ WorldLoop \/ MasterStep
  BY <1>4, StartsOnly, ProgressUndisturbed, NothingDone DEF Threads
<1> QED
  BY <1>1, <1>2, <1>3, <1>4 DEF Next, Halted

\* A call that starts an execution starts one of its own, with a new number.
LEMMA CallStartsOwn ==
    ASSUME TypeOK, NEW c \in Callers, Call(c)
    PROVE  /\ UNCHANGED confirmed
           /\ \/ exec'[c] = exec[c]
              \/ /\ exec'[c].op.by = c /\ exec'[c].op.n = issued + 1 /\ issued' = issued + 1
<1> USE DEF callVars, connVars, NewCall
<1>1. ASSUME NEW op, op.by = c, op.n = issued + 1, StartDirect(c, op)
      PROVE  exec'[c].op.by = c /\ exec'[c].op.n = issued + 1
  BY <1>1 DEF StartDirect, Started, TypeOK, Threads
<1>2. \A kind, keys : Op(c, kind, keys).by = c /\ Op(c, kind, keys).n = issued + 1
  BY DEF Op
<1>3. CASE Execute(c)
  <2>1. UNCHANGED exec \/ \E k \in Keys : StartDirect(c, Op(c, "plain", <<k>>))
    BY <1>3, Zenon DEF Execute
  <2>2. UNCHANGED confirmed /\ issued' = issued + 1
    BY <1>3 DEF Execute
  <2> QED
    BY <1>1, <1>2, <2>1, <2>2
<1>4. CASE DirectExecute(c)
  <2>1. \E k \in Keys : StartDirect(c, Op(c, "plain", <<k>>))
    BY <1>4, Zenon DEF DirectExecute
  <2>2. UNCHANGED confirmed /\ issued' = issued + 1
    BY <1>4 DEF DirectExecute
  <2> QED
    BY <1>1, <1>2, <2>1, <2>2
<1>5. CASE CommitTransaction(c)
  <2>1. UNCHANGED exec \/ StartDirect(c, Op(c, "trans", transaction[c]))
    BY <1>5, Zenon DEF CommitTransaction
  <2>2. UNCHANGED confirmed /\ issued' = issued + 1
    BY <1>5 DEF CommitTransaction
  <2> QED
    BY <1>1, <1>2, <2>1, <2>2
<1> QED
  BY <1>3, <1>4, <1>5
     DEF Call, ExecuteInTransaction, BeginTransaction, RollbackTransaction, AsyncQuery

\* An execution changes what is confirmed only for its own thread, and ends.
LEMMA PerformConfirms ==
    ASSUME TypeOK, NEW t \in Threads, Perform(t)
    PROVE  \/ UNCHANGED confirmed
           \/ /\ t = exec[t].op.by
              /\ confirmed' = [confirmed EXCEPT ![t] = exec[t].op.n]
              /\ exec'[t] = None
<1>1. CASE RunPlain(t)
  BY <1>1 DEF RunPlain, Confirm, Finish, TypeOK
<1> QED
  BY <1>1 DEF Perform, SkipEmptyTransaction, Lock, RunStatement, CommitOnConnection, RunQuery, AddResult

LEMMA OwnRequestsKept ==
    ASSUME TypeOK, OwnRequests, [Next]_vars
    PROVE  OwnRequests'
<1> USE CallersAssumption DEF Idle
<1>0. /\ issued \in Nat /\ \A c \in Callers : confirmed[c] \in Nat
      /\ \A t \in Threads : exec[t] # None => exec[t].op.n \in Nat
  <2>1. issued \in Nat /\ \A c \in Callers : confirmed[c] \in Nat
    BY BoundsAssumption DEF TypeOK
  <2>2. \A t \in Threads : exec[t] # None => exec[t].op \in Requests
    BY DEF TypeOK, Executions
  <2>3. \A op \in Requests : op.n \in Nat
    BY BoundsAssumption DEF Requests, Numbers
  <2> QED
    BY <2>1, <2>2, <2>3
<1>1. CASE UNCHANGED <<confirmed, issued>> /\ \A c \in Callers : exec'[c] = exec[c]
  BY <1>1 DEF OwnRequests
<1>2. ASSUME NEW c \in Callers, Call(c) PROVE OwnRequests'
  <2>1. UNCHANGED confirmed /\ \A d \in Callers \ {c} : exec'[d] = exec[d]
    <3>1. UNCHANGED confirmed
      BY <1>2, CallStartsOwn
    <3>2. exec' = exec \/ \E op \in Requests : exec' = [exec EXCEPT ![c] = Started(op)]
      BY <1>2, CallStartsExecution
    <3> QED
      BY <3>1, <3>2 DEF TypeOK, Threads
  <2>2. issued' \in Nat /\ issued <= issued'
    BY <1>2, CallAppends
  <2>3. ASSUME NEW d \in Callers
        PROVE  /\ confirmed'[d] <= issued'
               /\ exec'[d] # None => /\ exec'[d].op.by = d
                                     /\ confirmed'[d] < exec'[d].op.n
                                     /\ exec'[d].op.n <= issued'
    <3>1. confirmed[d] <= issued /\ confirmed'[d] = confirmed[d]
      BY <2>1 DEF OwnRequests
    <3>2. CASE exec'[d] = exec[d]
      BY <1>0, <2>2, <3>1, <3>2 DEF OwnRequests, Threads
    <3>3. CASE exec'[d] # exec[d]
      <4>1. exec'[d].op.by = d /\ exec'[d].op.n = issued + 1 /\ issued' = issued + 1
        BY <1>2, <2>1, <3>3, CallStartsOwn
      <4> QED
        BY <1>0, <3>1, <4>1
    <3> QED
      BY <3>2, <3>3
  <2> QED
    BY <2>3 DEF OwnRequests
<1>3. ASSUME NEW t \in Threads, Perform(t) PROVE OwnRequests'
  <2>1. /\ UNCHANGED issued /\ exec[t] # None
        /\ \A u \in Threads \ {t} : exec'[u] = exec[u]
        /\ exec'[t] = None \/ exec'[t].op = exec[t].op
    BY <1>3, PerformIsLocal, PerformAnswers
  <2>2. CASE UNCHANGED confirmed
    BY <2>1, <2>2 DEF OwnRequests, Threads
  <2>3. CASE /\ t = exec[t].op.by
             /\ confirmed' = [confirmed EXCEPT ![t] = exec[t].op.n] /\ exec'[t] = None
    <3>1. t \in Callers
      <4>1. exec[t].op \in Requests
        BY <2>1 DEF TypeOK, Executions
      <4> QED
        BY <2>3, <4>1 DEF Requests
    <3>2. confirmed'[t] = exec[t].op.n /\ \A d \in Callers \ {t} : confirmed'[d] = confirmed[d]
      BY <2>3, <3>1 DEF TypeOK
    <3> QED
      BY <2>1, <2>3, <3>1, <3>2 DEF OwnRequests, Threads
  <2> QED
    BY <1>3, <2>2, <2>3, PerformConfirms
<1>4. CASE DelayLoop \/ WorldLoop \/ MasterStep
  BY <1>1, <1>4, StartsOnly
<1> QED
  BY <1>1, <1>2, <1>3, <1>4 DEF Next, Halted, vars, callVars, connVars
\* An element of a concatenation is an element of one of its parts.
LEMMA ConcatElements ==
    ASSUME NEW S, NEW a \in Seq(S), NEW b \in Seq(S), NEW i \in DOMAIN (a \o b)
    PROVE  (\E k \in DOMAIN a : (a \o b)[i] = a[k]) \/ (\E k \in DOMAIN b : (a \o b)[i] = b[k])
<1>1. Len(a) \in Nat /\ Len(b) \in Nat /\ i \in 1..(Len(a) + Len(b))
  OBVIOUS
<1>2. CASE i <= Len(a)
  BY <1>1, <1>2
<1>3. CASE i > Len(a)
  <2>1. i - Len(a) \in DOMAIN b /\ (a \o b)[i] = b[i - Len(a)]
    BY <1>1, <1>3
  <2> QED
    BY <2>1
<1> QED
  BY <1>1, <1>2, <1>3
-----------------------------------------------------------------------------
(* The theorems: the invariants hold of the layer with any callers, rows,   *)
(* numbers of requests, statements and refusals.                            *)

LEMMA InitEstablishes == Init => TypeOK /\ Inductive
<1> SUFFICES ASSUME Init PROVE TypeOK /\ Inductive
  OBVIOUS
<1> USE CallersAssumption, BoundsAssumption DEF Init
<1>1. TypeOK
  <2>1. rows \in Snapshots
    BY DEF Snapshots
  <2>2. issued \in 0..MaxOps /\ fails \in 0..MaxFails /\ confirmed \in [Callers -> 0..MaxOps]
    OBVIOUS
  <2>3. queue \in Seq(Requests) /\ batch \in Seq(Requests)
    OBVIOUS
  <2>4. results \in Seq([by : Callers, n : Numbers, seen : Snapshots])
    OBVIOUS
  <2>5. exec \in [Threads -> Executions \cup {None}] /\ transaction \in [Callers -> Statements \cup {None}]
    OBVIOUS
  <2> QED
    BY <2>1, <2>2, <2>3, <2>4, <2>5 DEF TypeOK
<1>2. LockOwners /\ PhaseControl /\ TransactionIsolated
  BY DEF LockOwners, PhaseControl, TransactionIsolated, Threads, Idle
<1>3. InOrder
  BY DEF InOrder, Increasing, Precedes, Idle, Threads
<1>4. OwnRequests /\ \A t \in Threads : Progress(t)
  BY DEF OwnRequests, Progress, Idle, Threads
<1> QED
  BY <1>1, <1>2, <1>3, <1>4 DEF Inductive

LEMMA NextPreserves == TypeOK /\ Inductive /\ [Next]_vars => (TypeOK /\ Inductive)'
BY TypesKept, LockOwnersKept, PhaseControlKept, InOrderKept, TransactionIsolatedKept,
   OwnRequestsKept, ProgressKept DEF Inductive

\* Every variable has its type in every reachable state, and the inductive
\* invariant holds: the strengthening of the properties below.
THEOREM InductiveInvariant == Spec => [](TypeOK /\ Inductive)
BY InitEstablishes, NextPreserves, PTL DEF Spec

\* Type correctness of the layer.
THEOREM TypeCorrect == Spec => []TypeOK
BY InductiveInvariant, PTL

\* No thread's statement lands in another's transaction on the shared
\* connection (LOCK_DB_CONN in SqlTransaction::Execute and the others).
THEOREM TransactionsAreIsolated == Spec => []TransactionIsolated
<1>1. Inductive => TransactionIsolated
  BY DEF Inductive
<1> QED
  BY <1>1, InductiveInvariant, PTL

\* Nothing delayed is lost by Database::HaltDelayThread.
THEOREM NothingIsLost == Spec => []HaltLosesNothing
<1>1. Inductive => HaltLosesNothing
  <2> SUFFICES ASSUME PhaseControl, phase = "halted"
               PROVE  Line = <<>> /\ \A t \in Threads : Idle(t)
    BY DEF Inductive, HaltLosesNothing
  <2>1. queue = <<>> /\ batch = <<>> /\ Idle(Delayer)
    BY DEF PhaseControl
  <2>2. Line = <<>>
    BY <2>1 DEF Line
  <2>3. \A t \in Threads : Idle(t)
    BY CallersAssumption DEF PhaseControl, Threads
  <2> QED
    BY <2>2, <2>3
<1> QED
  BY <1>1, InductiveInvariant, PTL

\* What a thread reads in an answer was read after everything it had delayed
\* before it asked.
THEOREM AnswersAreFresh == Spec => []AnswersSeeOwnWrites
<1>1. TypeOK /\ Inductive => AnswersSeeOwnWrites
  <2> SUFFICES ASSUME TypeOK, InOrder, NEW i \in DOMAIN results, NEW j \in DOMAIN Line
               PROVE  results[i].n < Line[j].n
    BY DEF Inductive, AnswersSeeOwnWrites
  <2>1. queue \in Seq(Requests) /\ batch \in Seq(Requests)
    BY DEF TypeOK
  <2> DEFINE first == IF Idle(Delayer) THEN <<>> ELSE <<exec[Delayer].op>>
  <2>2. first \in Seq(Requests)
    <3>1. ~Idle(Delayer) => exec[Delayer].op \in Requests
      BY DEF TypeOK, Idle, Executions, Threads
    <3> QED
      BY <3>1
  <2>3. \A k \in DOMAIN first : ~Idle(Delayer) /\ first[k] = exec[Delayer].op
    OBVIOUS
  <2>4. Line = (first \o batch) \o queue
    BY DEF Line
  <2> HIDE DEF first
  <2>5. \/ \E k \in DOMAIN first : Line[j] = first[k]
        \/ \E k \in DOMAIN batch : Line[j] = batch[k]
        \/ \E k \in DOMAIN queue : Line[j] = queue[k]
    <3> DEFINE pre == first \o batch
    <3>1. pre \in Seq(Requests)
      BY <2>1, <2>2
    <3>4. Line = pre \o queue
      BY <2>4
    <3>2. \A k \in DOMAIN pre : (\E m \in DOMAIN first : pre[k] = first[m])
                               \/ (\E m \in DOMAIN batch : pre[k] = batch[m])
      BY <2>1, <2>2, ConcatElements
    <3> HIDE DEF pre
    <3>3. \A k \in DOMAIN (pre \o queue) : (\E m \in DOMAIN pre : (pre \o queue)[k] = pre[m])
                                        \/ (\E m \in DOMAIN queue : (pre \o queue)[k] = queue[m])
      BY <2>1, <3>1, ConcatElements
    <3>5. (\E m \in DOMAIN pre : Line[j] = pre[m]) \/ (\E m \in DOMAIN queue : Line[j] = queue[m])
      BY <3>3, <3>4, Zenon
    <3> QED
      BY <3>2, <3>5
  <2> QED
    BY <2>3, <2>5 DEF InOrder, Precedes
<1> QED
  BY <1>1, InductiveInvariant, PTL
-----------------------------------------------------------------------------
(* The layer implements the store that serves each thread's requests in     *)
(* order, each one at once.                                                 *)

Elements(s) == {s[i] : i \in DOMAIN s}

LEMMA ElementsJoined ==
    ASSUME NEW S, NEW a \in Seq(S), NEW b \in Seq(S)
    PROVE  Elements(a \o b) = Elements(a) \cup Elements(b)
<1>1. ASSUME NEW i \in DOMAIN a PROVE i \in DOMAIN (a \o b) /\ (a \o b)[i] = a[i]
  OBVIOUS
<1>2. ASSUME NEW i \in DOMAIN b
      PROVE  Len(a) + i \in DOMAIN (a \o b) /\ (a \o b)[Len(a) + i] = b[i]
  OBVIOUS
<1>3. \A i \in DOMAIN (a \o b) :
         (\E k \in DOMAIN a : (a \o b)[i] = a[k]) \/ (\E k \in DOMAIN b : (a \o b)[i] = b[k])
  BY ConcatElements
<1>4. \A x \in Elements(a) : x \in Elements(a \o b)
  BY <1>1 DEF Elements
<1>5. \A x \in Elements(b) : x \in Elements(a \o b)
  BY <1>2 DEF Elements
<1>6. \A x \in Elements(a \o b) : x \in Elements(a) \cup Elements(b)
  BY <1>3 DEF Elements
<1> QED
  BY <1>4, <1>5, <1>6

LEMMA ElementsAppended ==
    ASSUME NEW S, NEW s \in Seq(S), NEW e
    PROVE  Elements(Append(s, e)) = Elements(s) \cup {e}
<1> DEFINE u == Append(s, e)
<1>1. /\ DOMAIN s = 1..Len(s) /\ DOMAIN u = 1..(Len(s) + 1) /\ Len(s) \in Nat
      /\ u[Len(s) + 1] = e
      /\ \A i \in DOMAIN s : u[i] = s[i]
  BY AppendElements
<1> HIDE DEF u
<1>2. \A i \in DOMAIN u : i \in DOMAIN s \/ i = Len(s) + 1
  BY <1>1
<1>3. Len(s) + 1 \in DOMAIN u /\ \A i \in DOMAIN s : i \in DOMAIN u
  BY <1>1
<1>4. Elements(u) = Elements(s) \cup {e}
  BY <1>1, <1>2, <1>3 DEF Elements
<1> QED
  BY <1>4 DEF u

LEMMA ElementsOfTail ==
    ASSUME NEW S, NEW s \in Seq(S), s # <<>>
    PROVE  Elements(s) = {Head(s)} \cup Elements(Tail(s))
<1>1. /\ DOMAIN s = 1..Len(s) /\ Len(s) \in Nat \ {0}
      /\ DOMAIN Tail(s) = 1..(Len(s) - 1)
      /\ Head(s) = s[1] /\ 1 \in DOMAIN s
      /\ \A i \in DOMAIN Tail(s) : i + 1 \in DOMAIN s /\ Tail(s)[i] = s[i + 1]
  BY TailElements
<1>2. ASSUME NEW i \in DOMAIN s, i # 1
      PROVE  \E j \in DOMAIN Tail(s) : s[i] = Tail(s)[j]
  <2>1. i - 1 \in DOMAIN Tail(s) /\ (i - 1) + 1 = i
    BY <1>1, <1>2
  <2> QED
    BY <1>1, <2>1
<1>3. \A x \in Elements(s) : x \in {Head(s)} \cup Elements(Tail(s))
  <2> SUFFICES ASSUME NEW i \in DOMAIN s PROVE s[i] \in {Head(s)} \cup Elements(Tail(s))
    BY DEF Elements
  <2>1. CASE i = 1
    BY <1>1, <2>1
  <2>2. CASE i # 1
    <3>1. PICK j \in DOMAIN Tail(s) : s[i] = Tail(s)[j]
      BY <1>2, <2>2
    <3> QED
      BY <3>1 DEF Elements
  <2> QED
    BY <2>1, <2>2
<1>4. \A x \in Elements(Tail(s)) : x \in Elements(s)
  BY <1>1 DEF Elements
<1>5. Head(s) \in Elements(s)
  BY <1>1 DEF Elements
<1> QED
  BY <1>3, <1>4, <1>5

\* What is delayed: the operation executed, the local queue and the queue.
DelayedParts ==
    Delayed = (IF Idle(Delayer) THEN {} ELSE {exec[Delayer].op})
                 \cup Elements(batch) \cup Elements(queue)

LEMMA DelayedIs == TypeOK => DelayedParts
<1> SUFFICES ASSUME TypeOK PROVE DelayedParts
  OBVIOUS
<1> DEFINE first == IF Idle(Delayer) THEN <<>> ELSE <<exec[Delayer].op>>
<1>1. queue \in Seq(Requests) /\ batch \in Seq(Requests)
  BY DEF TypeOK
<1>2. first \in Seq(Requests)
  <2>1. ~Idle(Delayer) => exec[Delayer].op \in Requests
    BY DEF TypeOK, Idle, Executions, Threads
  <2> QED
    BY <2>1
<1>3. Elements(first) = IF Idle(Delayer) THEN {} ELSE {exec[Delayer].op}
  BY DEF Elements
<1>4. Line = (first \o batch) \o queue
  BY <1>1, <1>2 DEF Line
<1> HIDE DEF first
<1> DEFINE pre == first \o batch
<1>5. pre \in Seq(Requests) /\ Elements(pre) = Elements(first) \cup Elements(batch)
  BY <1>1, <1>2, ElementsJoined
<1>6. Elements(Line) = Elements(pre) \cup Elements(queue)
  <2>1. Line = pre \o queue
    BY <1>4
  <2> HIDE DEF pre
  <2>2. Elements(pre \o queue) = Elements(pre) \cup Elements(queue)
    BY <1>1, <1>5, ElementsJoined
  <2> QED
    BY <2>1, <2>2, Zenon
<1>7. Delayed = Elements(Line)
  BY DEF Delayed, Elements
<1> QED
  BY <1>3, <1>5, <1>6, <1>7 DEF DelayedParts

LEMMA DelayedIsNext == TypeOK' => DelayedParts'
BY DelayedIs, PTL

\* All that is delayed was issued, and what the delay thread executes is the
\* oldest of it.
LEMMA DelayedOrder ==
    ASSUME TypeOK, InOrder
    PROVE  /\ \A p \in Delayed : p \in Requests /\ p.n \in Nat /\ p.n <= issued
           /\ ~Idle(Delayer) => /\ exec[Delayer].op \in Delayed
                                /\ exec[Delayer].op.n \in Nat
                                /\ \A p \in Elements(batch) \cup Elements(queue) :
                                      p.n \in Nat /\ exec[Delayer].op.n < p.n
<1>1. \A op \in Requests : op.n \in Nat
  BY BoundsAssumption DEF Requests, Numbers
<1>2. queue \in Seq(Requests) /\ batch \in Seq(Requests)
  BY DEF TypeOK
<1>3. ~Idle(Delayer) => exec[Delayer].op \in Requests /\ exec[Delayer].op.n <= issued
  BY DEF TypeOK, Idle, Executions, Threads, InOrder
<1>4. \A p \in Elements(batch) \cup Elements(queue) : p \in Requests /\ p.n <= issued
  BY <1>2 DEF InOrder, Elements
<1>5. ~Idle(Delayer) => \A p \in Elements(batch) \cup Elements(queue) : exec[Delayer].op.n < p.n
  BY DEF InOrder, Elements
<1> QED
  BY <1>1, <1>3, <1>4, <1>5, DelayedIs DEF DelayedParts

LEMMA DelayedUndisturbed ==
    ASSUME TypeOK, TypeOK', UNCHANGED <<queue, batch>>,
           Idle(Delayer)' = Idle(Delayer), ~Idle(Delayer) => exec'[Delayer].op = exec[Delayer].op
    PROVE  Delayed' = Delayed
<1>1. UNCHANGED <<Elements(queue), Elements(batch)>>
  BY DEF Elements
<1>2. Delayed' = (IF Idle(Delayer)' THEN {} ELSE {exec'[Delayer].op})
                    \cup Elements(batch)' \cup Elements(queue)'
  BY DelayedIsNext DEF DelayedParts
<1> QED
  BY <1>1, <1>2, DelayedIs DEF DelayedParts

\* When the delay thread finishes what it executes that is no longer delayed.
LEMMA DelayedServed ==
    ASSUME TypeOK, TypeOK', InOrder, UNCHANGED <<queue, batch>>,
           ~Idle(Delayer), exec'[Delayer] = None
    PROVE  /\ exec[Delayer].op \in Delayed
           /\ \A p \in Delayed : exec[Delayer].op.n <= p.n
           /\ Delayed' = Delayed \ {exec[Delayer].op}
<1> DEFINE op == exec[Delayer].op
           rest == Elements(batch) \cup Elements(queue)
<1>1. UNCHANGED <<Elements(queue), Elements(batch)>> /\ Idle(Delayer)'
  BY DEF Elements, Idle
<1>2. Delayed = {op} \cup rest
  BY DelayedIs DEF DelayedParts
<1>3. Delayed' = Elements(batch)' \cup Elements(queue)'
  BY <1>1, DelayedIsNext DEF DelayedParts
<1>4. op.n \in Nat /\ \A p \in rest : p.n \in Nat /\ op.n < p.n
  BY DelayedOrder
<1> HIDE DEF op, rest
<1>5. op \notin rest
  BY <1>4
<1>6. Delayed' = rest
  BY <1>1, <1>3 DEF rest
<1>7. \A p \in Delayed : op.n <= p.n
  BY <1>2, <1>4
<1>8. op \in Delayed /\ Delayed' = Delayed \ {op}
  BY <1>2, <1>5, <1>6
<1> QED
  BY <1>7, <1>8 DEF op

\* What a call asks for: nothing yet, a delayed request, or a direct one.
AsksFor(c, op) ==
    /\ op.n = issued + 1 /\ op.by = c
    /\ \/ /\ queue' = Append(queue, op) /\ UNCHANGED exec
          /\ op.kind = "query" \/ allowAsync
       \/ /\ StartDirect(c, op) /\ UNCHANGED queue
          /\ op.kind = "plain" \/ (op.kind = "trans" /\ ~allowAsync)

LEMMA CallAsks ==
    ASSUME TypeOK, NEW c \in Callers, Call(c)
    PROVE  /\ UNCHANGED <<allowAsync, confirmed>>
           /\ \/ UNCHANGED <<exec, queue, issued>>
              \/ issued' = issued + 1 /\ \E op \in Requests : AsksFor(c, op)
<1>1. CASE ExecuteInTransaction(c) \/ BeginTransaction(c) \/ RollbackTransaction(c)
  BY <1>1 DEF ExecuteInTransaction, BeginTransaction, RollbackTransaction, connVars
<1>2. CASE Execute(c)
  <2>1. \A k \in Keys : /\ Op(c, "plain", <<k>>) \in Requests
                        /\ Op(c, "plain", <<k>>).n = issued + 1
                        /\ Op(c, "plain", <<k>>).by = c /\ Op(c, "plain", <<k>>).kind = "plain"
    BY <1>2, ShortStatements, NewRequest DEF Execute, NewCall, Op
  <2>2. PICK k \in Keys :
           \/ allowAsync /\ Delay(Op(c, "plain", <<k>>)) /\ UNCHANGED exec
           \/ ~allowAsync /\ StartDirect(c, Op(c, "plain", <<k>>)) /\ UNCHANGED queue
    BY <1>2, Zenon DEF Execute
  <2>3. issued' = issued + 1 /\ UNCHANGED <<allowAsync, confirmed>>
    BY <1>2 DEF Execute, NewCall
  <2>4. AsksFor(c, Op(c, "plain", <<k>>))
    BY <2>1, <2>2, Zenon DEF AsksFor, Delay
  <2> QED
    BY <2>1, <2>3, <2>4
<1>3. CASE DirectExecute(c)
  <2>1. \A k \in Keys : /\ Op(c, "plain", <<k>>) \in Requests
                        /\ Op(c, "plain", <<k>>).n = issued + 1
                        /\ Op(c, "plain", <<k>>).by = c /\ Op(c, "plain", <<k>>).kind = "plain"
    BY <1>3, ShortStatements, NewRequest DEF DirectExecute, NewCall, Op
  <2>2. PICK k \in Keys : StartDirect(c, Op(c, "plain", <<k>>)) /\ UNCHANGED queue
    BY <1>3, Zenon DEF DirectExecute
  <2>3. issued' = issued + 1 /\ UNCHANGED <<allowAsync, confirmed>>
    BY <1>3 DEF DirectExecute, NewCall
  <2>4. AsksFor(c, Op(c, "plain", <<k>>))
    BY <2>1, <2>2, Zenon DEF AsksFor
  <2> QED
    BY <2>1, <2>3, <2>4
<1>4. CASE CommitTransaction(c)
  <2> DEFINE op == Op(c, "trans", transaction[c])
  <2>1. op \in Requests /\ op.n = issued + 1 /\ op.by = c /\ op.kind = "trans"
    <3>1. transaction[c] \in Statements /\ issued < MaxOps
      BY <1>4 DEF CommitTransaction, NewCall, TypeOK
    <3>2. op \in Requests
      BY <3>1, NewRequest
    <3> QED
      BY <3>2 DEF Op
  <2>2. \/ allowAsync /\ Delay(op) /\ UNCHANGED exec
        \/ ~allowAsync /\ StartDirect(c, op) /\ UNCHANGED queue
    BY <1>4, Zenon DEF CommitTransaction
  <2>3. issued' = issued + 1 /\ UNCHANGED <<allowAsync, confirmed>>
    BY <1>4 DEF CommitTransaction, NewCall
  <2>4. AsksFor(c, op)
    BY <2>1, <2>2, Zenon DEF AsksFor, Delay
  <2> QED
    BY <2>1, <2>3, <2>4
<1>5. CASE AsyncQuery(c)
  <2> DEFINE op == Op(c, "query", <<>>)
  <2>1. op \in Requests /\ op.n = issued + 1 /\ op.by = c /\ op.kind = "query"
    BY <1>5, ShortStatements, NewRequest DEF AsyncQuery, NewCall, Op
  <2>2. Delay(op) /\ issued' = issued + 1 /\ UNCHANGED <<allowAsync, confirmed, exec>>
    BY <1>5 DEF AsyncQuery, NewCall, connVars
  <2>3. AsksFor(c, op)
    BY <2>1, <2>2, Zenon DEF AsksFor, Delay
  <2> QED
    BY <2>1, <2>2, <2>3
<1> QED
  BY <1>1, <1>2, <1>3, <1>4, <1>5 DEF Call

\* What the store sees of the connection: nothing but its owner's execution
\* matters, and without an owner only what was left open.
LEMMA OwnerSeen ==
    ASSUME TypeOK, Inductive, NEW t \in Threads
    PROVE  /\ connOwner = NoThread => ~begun /\ Loose = None
           /\ ~begun => LeftOpen = tx /\ Serial!Content = Content
           /\ begun => LeftOpen = None /\ connOwner # NoThread
           /\ exec[t] # None /\ exec[t].at # 0 =>
                 /\ connOwner = t /\ t # NoThread
                 /\ Loose = IF ~begun /\ exec[t].op.kind = "trans" THEN exec[t].op ELSE None
                 /\ begun => exec[t].op.kind = "trans"
           /\ exec[t] # None /\ exec[t].at = 0 => connOwner # t
<1>1. connOwner = NoThread => ~begun
  BY DEF Inductive, TransactionIsolated
<1>2. exec[t] # None /\ exec[t].at # 0 => connOwner = t
  BY DEF Inductive, LockOwners, Idle
<1>3. t # NoThread
  BY CallersAssumption DEF Threads
<1>4. connOwner = t /\ begun => exec[t].op.kind = "trans"
  BY <1>3 DEF Inductive, TransactionIsolated
<1>5. exec[t] # None /\ exec[t].at = 0 => connOwner # t
  BY DEF Inductive, LockOwners, Idle
<1>6. connOwner = NoThread => Loose = None
  BY DEF Loose
<1>7. connOwner = t => Loose = IF ~begun /\ exec[t].op.kind = "trans" THEN exec[t].op ELSE None
  BY <1>3 DEF Loose
<1>8. /\ ~begun => LeftOpen = tx /\ Serial!Content = Content
      /\ begun => LeftOpen = None
  BY DEF LeftOpen, Serial!Content, Content
<1> QED
  BY <1>1, <1>2, <1>3, <1>4, <1>5, <1>6, <1>7, <1>8

\* While nobody touches the connection and its owner's execution, the store sees
\* no change of it.
LEMMA ConnectionUntouched ==
    ASSUME TypeOK, UNCHANGED <<connOwner, rows, tx, begun>>,
           \A t \in Threads : connOwner = t => exec'[t] = exec[t]
    PROVE  UNCHANGED <<LeftOpen, Loose>>
<1>1. connOwner \in Threads \cup {NoThread}
  BY DEF TypeOK
<1>2. UNCHANGED LeftOpen
  BY DEF LeftOpen
<1>3. UNCHANGED Loose
  BY <1>1 DEF Loose
<1> QED
  BY <1>2, <1>3

\* A statement outside a transaction that was begun is one of the store's.
LEMMA StatementSeen ==
    ASSUME TypeOK, begun = FALSE, begun' = FALSE, NEW o, o.keys[1] \in Keys, Write(o.keys[1], o.n)
    PROVE  Serial!WriteStatement(o)
<1> DEFINE k == o.keys[1]
<1>1. LeftOpen = tx /\ LeftOpen' = tx'
  BY DEF LeftOpen
<1>2. \A r \in Snapshots : Serial!Written(r, o, 1) = [r EXCEPT ![k] = o.n]
  <2> SUFFICES ASSUME NEW r \in Snapshots
               PROVE  Serial!Written(r, o, 1) = [r EXCEPT ![k] = o.n]
    OBVIOUS
  <2>1. \A j : (\E i \in 1..1 : o.keys[i] = j) <=> j = k
    OBVIOUS
  <2>2. Serial!Written(r, o, 1) = [j \in DOMAIN r |-> IF j = k THEN o.n ELSE r[j]]
    BY <2>1, Zenon DEF Serial!Written
  <2>3. DOMAIN r = Keys /\ r = [j \in Keys |-> r[j]]
    BY DEF Snapshots
  <2> HIDE DEF k
  <2> QED
    BY <2>2, <2>3
<1>3. Content \in Snapshots /\ Serial!Content = Content
  BY <1>1, ContentTyped DEF Serial!Content, Content
<1>4. Serial!Written(Serial!Content, o, 1) = [Content EXCEPT ![k] = o.n]
  BY <1>2, <1>3
<1>5. CASE tx = None
  <2>1. rows' = [rows EXCEPT ![k] = o.n] /\ tx' = tx /\ Content = rows
    BY <1>5 DEF Write, Content
  <2> QED
    BY <1>1, <1>4, <1>5, <2>1 DEF Serial!WriteStatement
<1>6. CASE tx # None
  <2>1. tx' = [tx EXCEPT ![k] = o.n] /\ rows' = rows /\ Content = tx
    BY <1>6 DEF Write, Content
  <2> QED
    BY <1>1, <1>4, <1>6, <2>1 DEF Serial!WriteStatement
<1> QED
  BY <1>5, <1>6

\* An execution that goes on: of a transaction the store sees the BEGIN and,
\* if that was refused, each statement; of anything else, nothing.
Unseen == UNCHANGED <<rows, LeftOpen, Loose, fails>>

BeginSeen == /\ LeftOpen # None /\ Loose = None
             /\ rows' = LeftOpen /\ LeftOpen' = None
             /\ UNCHANGED <<Loose, fails>>

RefusalSeen(op) == /\ Loose = None /\ Loose' = op /\ fails' > fails
                   /\ UNCHANGED <<rows, LeftOpen>>

LooseSeen == /\ Loose # None
             /\ \E i \in DOMAIN Loose.keys :
                   Serial!WriteStatement([Loose EXCEPT !.keys = <<Loose.keys[i]>>])
             /\ UNCHANGED <<Loose, fails>>

LEMMA ExecutionGoesOn ==
    ASSUME TypeOK, TypeOK', Inductive, Inductive', NEW t \in Threads, Perform(t), exec'[t] # None
    PROVE  /\ exec'[t].op = exec[t].op
           /\ UNCHANGED <<results, confirmed>>
           /\ \/ Unseen
              \/ BeginSeen /\ exec[t].op.kind = "trans"
              \/ RefusalSeen(exec[t].op) /\ exec[t].op.kind = "trans"
              \/ LooseSeen
<1> DEFINE op == exec[t].op
<1>1. exec[t] \in Executions /\ exec[t] # None /\ op \in Requests
  BY PerformIsLocal DEF TypeOK, Executions
<1>2. exec'[t].op = exec[t].op /\ UNCHANGED <<results, confirmed>>
  BY PerformAnswers, PerformConfirms
<1>3. exec \in [Threads -> Executions \cup {None}]
  BY DEF TypeOK
<1>4. ~SkipEmptyTransaction(t) /\ ~RunPlain(t) /\ ~CommitOnConnection(t) /\ ~AddResult(t)
  BY <1>3 DEF SkipEmptyTransaction, RunPlain, CommitOnConnection, AddResult, Finish
<1>5. CASE Lock(t)
  <2>1. connOwner = NoThread /\ connOwner' = t
    BY <1>5 DEF Lock
  <2>2. LeftOpen = tx /\ Loose = None /\ begun = FALSE
    BY <2>1, OwnerSeen DEF TypeOK
  <2>3. t # NoThread /\ Loose' = IF ~begun' /\ op.kind = "trans" THEN op ELSE None
    <3>1. t # NoThread
      BY CallersAssumption DEF Threads
    <3> QED
      BY <1>2, <2>1, <3>1 DEF Loose
  <2>4. LeftOpen' = IF begun' THEN None ELSE tx'
    BY DEF LeftOpen
  <2>5. CASE op.kind # "trans"
    <3>1. UNCHANGED <<rows, tx, begun, fails>>
      BY <1>5, <2>5 DEF Lock
    <3> QED
      BY <1>2, <2>2, <2>3, <2>4, <2>5, <3>1 DEF Unseen
  <2>6. CASE op.kind = "trans" /\ rows' = Content /\ begun' = TRUE /\ UNCHANGED fails
    <3>1. LeftOpen' = None /\ Loose' = None
      BY <2>3, <2>4, <2>6
    <3>2. CASE tx = None
      BY <1>2, <2>2, <2>6, <3>1, <3>2 DEF Unseen, Content
    <3>3. CASE tx # None
      BY <1>2, <2>2, <2>6, <3>1, <3>3 DEF BeginSeen, Content
    <3> QED
      BY <3>2, <3>3
  <2>7. CASE op.kind = "trans" /\ Refuse(1) /\ UNCHANGED <<rows, tx, begun>>
    <3>1. LeftOpen' = LeftOpen /\ Loose' = op /\ fails' > fails
      BY <2>2, <2>3, <2>4, <2>7, RefusalsCounted
    <3> QED
      BY <1>2, <2>2, <2>7, <3>1 DEF RefusalSeen
  <2>8. op.kind = "trans" => BeginOnConnection
    BY <1>5 DEF Lock
  <2> QED
    BY <2>5, <2>6, <2>7, <2>8 DEF BeginOnConnection
<1>6. CASE RunStatement(t)
  <2>1. /\ op.kind = "trans" /\ exec[t].at \in 1..Len(op.keys)
        /\ connOwner = t /\ Loose = IF ~begun THEN op ELSE None
    BY <1>1, <1>6, OwnerSeen DEF RunStatement
  <2>2. /\ Write(op.keys[exec[t].at], op.n)
        /\ exec' = [exec EXCEPT ![t].at = @ + 1] /\ UNCHANGED <<connOwner, begun, fails>>
    <3>1. \/ /\ Write(op.keys[exec[t].at], op.n)
             /\ exec' = [exec EXCEPT ![t].at = @ + 1] /\ UNCHANGED <<connOwner, begun, fails>>
          \/ exec' = [exec EXCEPT ![t] = None]
      BY <1>6, Zenon DEF RunStatement, Finish
    <3> QED
      BY <1>3, <3>1
  <2>3. UNCHANGED Loose
    BY <1>2, <2>1, <2>2 DEF Loose
  <2>4. CASE begun
    <3>1. tx # None
      BY <2>4 DEF Inductive, TransactionIsolated
    <3>2. UNCHANGED rows
      BY <2>2, <3>1 DEF Write
    <3>3. UNCHANGED LeftOpen
      BY <2>2, <2>4 DEF LeftOpen
    <3> QED
      BY <1>2, <2>2, <2>3, <3>2, <3>3 DEF Unseen
  <2>5. CASE ~begun
    <3>1. begun = FALSE /\ begun' = FALSE /\ Loose = op /\ Loose # None
      BY <1>1, <2>1, <2>2, <2>5, NoneAssumption DEF TypeOK
    <3>2. DOMAIN op.keys = 1..Len(op.keys) /\ op.keys[exec[t].at] \in Keys
      BY <1>1, <2>1, StatementsAreSequences DEF Requests
    <3> DEFINE o == [op EXCEPT !.keys = <<op.keys[exec[t].at]>>]
    <3>3. o.keys[1] = op.keys[exec[t].at] /\ o.n = op.n
      BY <1>1 DEF Requests
    <3>4. Serial!WriteStatement(o)
      <4>1. Write(o.keys[1], o.n) /\ o.keys[1] \in Keys
        BY <2>2, <3>2, <3>3, Zenon
      <4> HIDE DEF o
      <4> QED
        BY <3>1, <4>1, StatementSeen
    <3>5. exec[t].at \in DOMAIN Loose.keys
      BY <2>1, <3>1, <3>2
    <3>6. LooseSeen
      BY <2>2, <2>3, <3>1, <3>4, <3>5, Zenon DEF LooseSeen
    <3> QED
      BY <1>2, <3>6
  <2> QED
    BY <2>4, <2>5
<1>7. CASE RunQuery(t)
  <2>1. UNCHANGED <<rows, tx, begun, fails, connOwner>>
    BY <1>7 DEF RunQuery
  <2>2. connOwner = t /\ op.kind = "query"
    BY <1>1, <1>7, OwnerSeen DEF RunQuery
  <2>3. UNCHANGED <<LeftOpen, Loose>>
    BY <1>2, <2>1, <2>2 DEF LeftOpen, Loose
  <2> QED
    BY <1>2, <2>1, <2>3 DEF Unseen
<1> QED
  BY <1>4, <1>5, <1>6, <1>7 DEF Perform

\* A transaction that was begun and still is open holds what it has executed.
LEMMA BegunHolds ==
    ASSUME TypeOK, Inductive, NEW t \in Threads, exec[t] # None, exec[t].op.kind = "trans",
           exec[t].at # 0, begun
    PROVE  /\ exec[t].at - 1 \in 0..Len(exec[t].op.keys)
           /\ tx = Serial!Written(rows, exec[t].op, exec[t].at - 1)
<1> DEFINE op == exec[t].op
<1>1. exec[t] \in Executions /\ op \in Requests /\ exec[t].at \in Nat
  BY DEF TypeOK, Executions
<1>2. Len(op.keys) \in Nat
  BY <1>1, StatementsAreSequences DEF Requests
<1>3. exec[t].at <= Len(op.keys) + 1 /\ tx = WrittenBy(op, exec[t].at - 1)
  BY DEF Inductive, Progress, Idle
<1>4. DOMAIN rows = Keys
  BY DEF TypeOK, Snapshots
<1>5. exec[t].at - 1 \in 0..Len(op.keys)
  BY <1>1, <1>2, <1>3
<1> HIDE DEF op
<1>6. WrittenBy(op, exec[t].at - 1) = Serial!Written(rows, op, exec[t].at - 1)
  BY <1>4 DEF WrittenBy, Serial!Written
<1> QED
  BY <1>3, <1>5, <1>6 DEF op

\* An execution that ends.  A transaction ends as the store lets it end.
LEMMA TransactionEnds ==
    ASSUME TypeOK, TypeOK', Inductive, Inductive', NEW t \in Threads, Perform(t), exec'[t] = None,
           exec[t].op.kind = "trans"
    PROVE  Serial!EndTransaction(exec[t].op) /\ UNCHANGED <<results, confirmed>>
<1> DEFINE op == exec[t].op
<1>1. exec[t] \in Executions /\ exec[t] # None /\ op \in Requests /\ op # None
  BY PerformIsLocal, NoneAssumption DEF TypeOK, Executions
<1>2. exec \in [Threads -> Executions \cup {None}] /\ begun \in BOOLEAN
  BY DEF TypeOK
<1>3. CASE SkipEmptyTransaction(t)
  <2>1. /\ op.keys = <<>> /\ exec[t].at = 0
        /\ UNCHANGED <<connOwner, rows, tx, begun, fails, confirmed, results>>
        /\ exec' = [exec EXCEPT ![t] = None]
    BY <1>3 DEF SkipEmptyTransaction, IsEmptyTransaction, resultVars
  <2>2. \A u \in Threads : connOwner = u => exec'[u] = exec[u]
    BY <1>1, <1>2, <2>1, OwnerSeen
  <2>3. UNCHANGED <<LeftOpen, Loose>>
    BY <2>1, <2>2, ConnectionUntouched
  <2> QED
    BY <2>1, <2>3 DEF Serial!EndTransaction, Serial!Nothing
<1>4. ASSUME exec[t].at # 0, connOwner' = NoThread, UNCHANGED <<results, confirmed>>, begun' = FALSE,
             \/ /\ exec[t].at = Len(op.keys) + 1
                /\ rows' = Content /\ tx' = None /\ UNCHANGED fails
             \/ fails' > fails /\ tx' \in {tx, None} /\ UNCHANGED rows
      PROVE  Serial!EndTransaction(op) /\ UNCHANGED <<results, confirmed>>
  <2>1. Loose = IF ~begun THEN op ELSE None
    BY <1>1, <1>4, OwnerSeen
  <2>2. Loose' = None /\ LeftOpen' = tx'
    BY <1>4 DEF Loose, LeftOpen
  <2>3. CASE begun
    <3>1. LeftOpen = None /\ Loose = None
      BY <2>1, <2>3, OwnerSeen
    <3>2. exec[t].at - 1 \in 0..Len(op.keys) /\ tx = Serial!Written(rows, op, exec[t].at - 1)
      BY <1>1, <1>4, <2>3, BegunHolds
    <3>3. tx # None
      BY <2>3 DEF Inductive, TransactionIsolated
    <3>4. CASE exec[t].at = Len(op.keys) + 1 /\ rows' = Content /\ tx' = None /\ UNCHANGED fails
      <4>1. exec[t].at - 1 = Len(op.keys)
        <5>1. Len(op.keys) \in Nat
          BY <1>1, StatementsAreSequences DEF Requests
        <5> QED
          BY <3>4, <5>1
      <4>2. rows' = Serial!Written(rows, op, Len(op.keys)) /\ LeftOpen' = LeftOpen
        BY <2>2, <3>1, <3>2, <3>3, <3>4, <4>1 DEF Content
      <4> HIDE DEF op
      <4>3. Serial!EndBegun(op)
        BY <3>1, <3>4, <4>2 DEF Serial!EndBegun
      <4> QED
        BY <1>1, <1>4, <2>2, <3>1, <4>3 DEF Serial!EndTransaction
    <3>5. CASE fails' > fails /\ tx' = None /\ UNCHANGED rows
      <4>1. Serial!Nothing /\ Serial!Refused
        BY <2>2, <3>1, <3>5 DEF Serial!Nothing, Serial!Refused
      <4> HIDE DEF op
      <4> QED
        BY <1>1, <1>4, <2>2, <3>1, <4>1 DEF Serial!EndTransaction
    <3>6. CASE fails' > fails /\ tx' = tx /\ UNCHANGED rows
      <4> DEFINE m == exec[t].at - 1
      <4>1. m \in 0..Len(op.keys) /\ LeftOpen' = Serial!Written(rows, op, m)
        BY <2>2, <3>2, <3>6
      <4> HIDE DEF op, m
      <4>2. Serial!EndBegun(op)
        BY <3>1, <3>6, <4>1 DEF Serial!EndBegun, Serial!Refused
      <4> QED
        BY <1>1, <1>4, <2>2, <3>1, <4>2 DEF Serial!EndTransaction
    <3> QED
      BY <1>4, <3>4, <3>5, <3>6
  <2>4. CASE ~begun
    <3>1. LeftOpen = tx /\ Loose = op
      BY <2>1, <2>4, OwnerSeen
    <3>2. CASE rows' = Content /\ tx' = None /\ UNCHANGED fails
      <4>1. Serial!EndLoose
        BY <2>2, <3>1, <3>2 DEF Serial!EndLoose, Serial!Nothing, Content
      <4> HIDE DEF op
      <4> QED
        BY <1>4, <2>2, <3>1, <4>1 DEF Serial!EndTransaction
    <3>3. CASE fails' > fails /\ UNCHANGED rows /\ tx' = tx
      <4>1. Serial!Nothing /\ Serial!Refused
        BY <2>2, <3>1, <3>3 DEF Serial!Nothing, Serial!Refused
      <4> HIDE DEF op
      <4> QED
        BY <1>4, <2>2, <3>1, <4>1 DEF Serial!EndTransaction
    <3>4. CASE fails' > fails /\ UNCHANGED rows /\ tx' = None /\ tx # None
      <4>1. Serial!EndLoose
        BY <2>2, <3>1, <3>4 DEF Serial!EndLoose, Serial!Refused
      <4> HIDE DEF op
      <4> QED
        BY <1>4, <2>2, <3>1, <4>1 DEF Serial!EndTransaction
    <3> QED
      BY <1>4, <3>2, <3>3, <3>4
  <2> QED
    BY <2>3, <2>4
<1>5. CASE RunStatement(t)
  <2>1. exec[t].at # 0 /\ UNCHANGED <<results, confirmed>>
    BY <1>5 DEF RunStatement, resultVars
  <2>2. exec[t].at + 1 \in Nat /\ [exec[t] EXCEPT !.at = exec[t].at + 1] # None
    <3>1. exec[t].at + 1 \in Nat
      BY <1>1, ExecutionAdvanced
    <3> QED
      BY <1>1, <3>1, ExecutionAdvanced
  <2>3. exec' # [exec EXCEPT ![t].at = @ + 1]
    BY <1>2, <2>2
  <2>4. /\ (Refuse(1) /\ tx' = None) \/ (Refuse(2) /\ tx' \in {tx, None})
        /\ Finish(t) /\ UNCHANGED rows
    BY <1>5, <2>3, Zenon DEF RunStatement
  <2>5. fails' > fails /\ tx' \in {tx, None} /\ UNCHANGED rows
    BY <2>4, RefusalsCounted
  <2> QED
    BY <1>4, <2>1, <2>4, <2>5 DEF Finish
<1>6. CASE CommitOnConnection(t)
  <2>1. Len(op.keys) \in Nat
    BY <1>1, StatementsAreSequences DEF Requests
  <2>2. exec[t].at = Len(op.keys) + 1 /\ UNCHANGED <<results, confirmed>> /\ Finish(t)
    BY <1>6 DEF CommitOnConnection, resultVars
  <2>3. \/ rows' = Content /\ tx' = None /\ UNCHANGED fails
        \/ fails' > fails /\ tx' \in {tx, None} /\ UNCHANGED rows
    BY <1>6, RefusalsCounted DEF CommitOnConnection
  <2>4. exec[t].at # 0
    BY <2>1, <2>2
  <2> QED
    BY <1>4, <2>2, <2>3, <2>4 DEF Finish
<1>7. CASE Lock(t)
  BY <1>1, <1>2, <1>7, ExecutionAdvanced DEF Lock
<1> QED
  BY <1>3, <1>5, <1>6, <1>7 DEF Perform, RunPlain, RunQuery, AddResult

\* A statement on its own ends written and reported, or neither.
LEMMA PlainEnds ==
    ASSUME TypeOK, TypeOK', Inductive, Inductive', NEW t \in Threads, Perform(t), exec'[t] = None,
           exec[t].op.kind = "plain"
    PROVE  /\ UNCHANGED <<results, Loose>>
           /\ \/ Serial!WriteStatement(exec[t].op) /\ Confirm(t, exec[t].op) /\ UNCHANGED fails
              \/ Serial!Nothing /\ Serial!Refused /\ UNCHANGED confirmed
<1> DEFINE op == exec[t].op
<1>1. exec[t] \in Executions /\ exec[t] # None /\ op \in Requests
  BY PerformIsLocal DEF TypeOK, Executions
<1>2. exec \in [Threads -> Executions \cup {None}] /\ begun \in BOOLEAN
  BY DEF TypeOK
<1>3. ~Lock(t)
  BY <1>1, <1>2, ExecutionAdvanced DEF Lock
<1>4. RunPlain(t)
  BY <1>3 DEF Perform, SkipEmptyTransaction, IsEmptyTransaction, RunStatement, CommitOnConnection,
              RunQuery, AddResult
<1>5. begun = FALSE /\ Loose = None /\ LeftOpen = tx
  BY <1>1, <1>2, <1>4, OwnerSeen DEF RunPlain
<1>6. begun' = FALSE /\ connOwner' = NoThread /\ UNCHANGED results
  BY <1>4 DEF RunPlain, Finish, resultVars
<1>7. Loose' = None /\ LeftOpen' = tx'
  BY <1>6 DEF Loose, LeftOpen
<1>8. CASE Write(op.keys[1], op.n) /\ Confirm(t, op) /\ UNCHANGED fails
  <2>1. op.keys[1] \in Keys
    <3>1. op.keys \in Statements /\ Len(op.keys) = 1
      BY <1>1 DEF Requests
    <3> QED
      BY <3>1, StatementsAreSequences
  <2>2. Serial!WriteStatement(op)
    <3> HIDE DEF op
    <3> QED
      BY <1>5, <1>6, <1>8, <2>1, StatementSeen
  <2> QED
    BY <1>5, <1>6, <1>7, <1>8, <2>2
<1>9. CASE Refuse(1) /\ UNCHANGED <<rows, tx, confirmed>>
  <2>1. Serial!Refused
    BY <1>9, RefusalsCounted DEF Serial!Refused
  <2> QED
    BY <1>5, <1>6, <1>7, <1>9, <2>1 DEF Serial!Nothing
<1> QED
  BY <1>4, <1>8, <1>9 DEF RunPlain

\* A query ends with the content as it still is.
LEMMA QueryEnds ==
    ASSUME TypeOK, TypeOK', Inductive, Inductive', NEW t \in Threads, Perform(t), exec'[t] = None,
           exec[t].op.kind = "query"
    PROVE  /\ results' = Append(results, [by |-> exec[t].op.by, n |-> exec[t].op.n,
                                          seen |-> Serial!Content])
           /\ UNCHANGED <<rows, LeftOpen, Loose, fails, confirmed>>
<1> DEFINE op == exec[t].op
<1>1. exec[t] \in Executions /\ exec[t] # None
  BY PerformIsLocal DEF TypeOK
<1>2. exec \in [Threads -> Executions \cup {None}] /\ begun \in BOOLEAN
  BY DEF TypeOK
<1>3. ~Lock(t) /\ ~RunQuery(t)
  <2>1. ~Lock(t)
    BY <1>1, <1>2, ExecutionAdvanced DEF Lock
  <2>2. [exec[t] EXCEPT !.at = 2, !.seen = Content] # None
    BY <1>1, ContentTyped, ExecutionAnswered
  <2> QED
    BY <1>2, <2>1, <2>2 DEF RunQuery
<1>4. AddResult(t)
  BY <1>3 DEF Perform, SkipEmptyTransaction, IsEmptyTransaction, RunPlain, RunStatement, CommitOnConnection
<1>5. begun = FALSE /\ Loose = None /\ LeftOpen = tx /\ Serial!Content = Content
  BY <1>1, <1>2, <1>4, OwnerSeen DEF AddResult
<1>6. exec[t].seen = Content
  BY <1>4 DEF AddResult, Inductive, Progress, Idle
<1>7. /\ results' = Append(results, [by |-> op.by, n |-> op.n, seen |-> exec[t].seen])
      /\ begun' = FALSE /\ connOwner' = NoThread /\ UNCHANGED <<rows, tx, fails, confirmed>>
  BY <1>4 DEF AddResult, Finish
<1>8. Loose' = None /\ LeftOpen' = tx'
  BY <1>7 DEF Loose, LeftOpen
<1> QED
  BY <1>5, <1>6, <1>7, <1>8

\* What the store calls current is executed.
LEMMA ExecutedIsCurrent ==
    ASSUME TypeOK, Inductive, NEW t \in Threads, exec[t] # None, exec[t].op.kind = "trans"
    PROVE  exec[t].op \in Serial!Current
<1> DEFINE op == exec[t].op
<1>1. CASE t = Delayer
  <2>1. op \in Delayed /\ \A p \in Elements(batch) \cup Elements(queue) : op.n \in Nat /\ p.n \in Nat /\ op.n < p.n
    BY <1>1, DelayedOrder DEF Idle, Inductive
  <2>2. op.n \in Nat
    BY <1>1, DelayedOrder DEF Idle, Inductive
  <2>3. Delayed = {op} \cup Elements(batch) \cup Elements(queue)
    BY <1>1, DelayedIs DEF DelayedParts, Idle
  <2> HIDE DEF op
  <2>4. \A p \in Delayed : op.n <= p.n
    BY <2>1, <2>2, <2>3
  <2>5. op.kind = "trans"
    BY DEF op
  <2>6. op \in Serial!Current
    BY <2>1, <2>4, <2>5 DEF Serial!Current, Serial!Queued
  <2> QED
    BY <2>6 DEF op
<1>2. CASE t # Delayer
  <2>1. t \in Callers
    BY <1>2 DEF Threads
  <2>2. DirectCalls[t] = op /\ op # None
    <3>1. op \in Requests
      BY DEF TypeOK, Executions
    <3> QED
      BY <2>1, <3>1, NoneAssumption DEF DirectCalls, Idle
  <2> QED
    BY <2>1, <2>2 DEF Serial!Current
<1> QED
  BY <1>1, <1>2

\* The steps of an execution are steps of the store.
LEMMA ExecutionSeen ==
    ASSUME TypeOK, TypeOK', Inductive, Inductive', NEW t \in Threads, Perform(t)
    PROVE  Serial!Next \/ UNCHANGED Serial!vars
<1> DEFINE op == exec[t].op
<1>1. /\ exec[t] \in Executions /\ exec[t] # None /\ op \in Requests
      /\ \A u \in Threads \ {t} : exec'[u] = exec[u]
      /\ UNCHANGED <<queue, batch, allowAsync, issued>>
  BY PerformIsLocal DEF TypeOK, Executions
<1>2. op # None /\ op.kind \in {"plain", "trans", "query"} /\ op.by \in Callers
  BY <1>1, NoneAssumption DEF Requests
<1>d. Delayer \notin Callers /\ Threads = Callers \cup {Delayer}
  BY CallersAssumption DEF Threads
<1>3. CASE exec'[t] # None
  <2>1. /\ exec'[t].op = op /\ UNCHANGED <<results, confirmed>>
        /\ \/ Unseen
           \/ BeginSeen /\ op.kind = "trans"
           \/ RefusalSeen(op) /\ op.kind = "trans"
           \/ LooseSeen
    BY <1>3, ExecutionGoesOn
  <2>2. \A u \in Threads : Idle(u)' = Idle(u) /\ (~Idle(u) => exec'[u].op = exec[u].op)
    BY <1>1, <1>3, <2>1 DEF Idle
  <2>3. Delayed' = Delayed
    BY <1>1, <1>d, <2>2, DelayedUndisturbed
  <2>4. DirectCalls' = DirectCalls
    BY <1>d, <2>2 DEF DirectCalls, Idle
  <2>5. op.kind = "trans" => op \in Serial!Current
    BY <1>1, ExecutedIsCurrent
  <2> HIDE DEF op
  <2>6. CASE Unseen
    BY <1>1, <2>1, <2>3, <2>4, <2>6 DEF Unseen, Serial!vars
  <2>7. CASE BeginSeen /\ op.kind = "trans"
    <3>1. Serial!Begin
      BY <1>1, <2>1, <2>3, <2>4, <2>5, <2>7 DEF BeginSeen, Serial!Begin
    <3> QED
      BY <3>1 DEF Serial!Next
  <2>8. CASE RefusalSeen(op) /\ op.kind = "trans"
    <3>1. Serial!RefuseBegin(op)
      BY <1>1, <2>1, <2>3, <2>4, <2>8 DEF RefusalSeen, Serial!RefuseBegin, Serial!Refused
    <3> QED
      BY <2>5, <2>8, <3>1 DEF Serial!Next
  <2>9. CASE LooseSeen
    <3>1. Serial!RunLoose
      BY <1>1, <2>1, <2>3, <2>4, <2>9 DEF LooseSeen, Serial!RunLoose
    <3> QED
      BY <3>1 DEF Serial!Next
  <2> QED
    BY <2>1, <2>6, <2>7, <2>8, <2>9
<1>4. CASE exec'[t] = None /\ t = Delayer
  <2>1. op \in Delayed /\ (\A p \in Delayed : op.n <= p.n) /\ Delayed' = Delayed \ {op}
    BY <1>1, <1>4, DelayedServed DEF Inductive, Idle
  <2>2. DirectCalls' = DirectCalls
    BY <1>1, <1>4, <1>d DEF DirectCalls, Idle
  <2>3. op.kind = "query" =>
           /\ results' = Append(results, [by |-> op.by, n |-> op.n, seen |-> Serial!Content])
           /\ UNCHANGED <<rows, LeftOpen, Loose, fails, confirmed>>
    BY <1>4, QueryEnds
  <2>4. op.kind = "plain" =>
           /\ UNCHANGED <<results, Loose>>
           /\ \/ Serial!WriteStatement(op) /\ Confirm(t, op) /\ UNCHANGED fails
              \/ Serial!Nothing /\ Serial!Refused /\ UNCHANGED confirmed
    BY <1>4, PlainEnds
  <2>5. op.kind = "trans" => Serial!EndTransaction(op) /\ UNCHANGED <<results, confirmed>>
    BY <1>4, TransactionEnds
  <2>6. Confirm(t, op) => UNCHANGED confirmed
    BY <1>2, <1>4, <1>d DEF Confirm
  <2> HIDE DEF op
  <2>7. Serial!Serve(op)
    <3>1. \A p \in Serial!Queued(op) : op.n <= p.n
      BY <2>1 DEF Serial!Queued
    <3>2. UNCHANGED <<DirectCalls, confirmed, allowAsync, issued>>
      BY <1>1, <1>2, <2>2, <2>3, <2>4, <2>5, <2>6
    <3>3. CASE op.kind = "query"
      BY <2>1, <2>3, <3>1, <3>2, <3>3 DEF Serial!Serve, Serial!Nothing
    <3>4. CASE op.kind = "plain"
      BY <2>1, <2>4, <3>1, <3>2, <3>4 DEF Serial!Serve
    <3>5. CASE op.kind = "trans"
      BY <2>1, <2>5, <3>1, <3>2, <3>5 DEF Serial!Serve
    <3> QED
      BY <1>2, <3>3, <3>4, <3>5
  <2> QED
    BY <2>1, <2>7 DEF Serial!Next
<1>5. CASE exec'[t] = None /\ t # Delayer
  <2>1. t \in Callers /\ op.by = t /\ op.kind # "query"
    BY <1>1, <1>5, <1>d DEF Inductive, OwnRequests, LockOwners, Idle
  <2>2. Delayed' = Delayed
    BY <1>1, <1>5, <1>d, DelayedUndisturbed DEF Idle
  <2>3. DirectCalls[t] = op /\ DirectCalls' = [DirectCalls EXCEPT ![t] = None]
    BY <1>1, <1>5, <1>d, <2>1 DEF DirectCalls, Idle
  <2>4. op.kind = "plain" =>
           /\ UNCHANGED <<results, Loose>>
           /\ \/ Serial!WriteStatement(op) /\ Confirm(t, op) /\ UNCHANGED fails
              \/ Serial!Nothing /\ Serial!Refused /\ UNCHANGED confirmed
    BY <1>5, PlainEnds
  <2>5. op.kind = "trans" => Serial!EndTransaction(op) /\ UNCHANGED <<results, confirmed>>
    BY <1>5, TransactionEnds
  <2>6. Confirm(t, op) => confirmed' = [confirmed EXCEPT ![t] = op.n]
    BY <2>1 DEF Confirm
  <2> HIDE DEF op
  <2>7. Serial!Return(t)
    <3>1. UNCHANGED <<Delayed, results, allowAsync, issued>>
      BY <1>1, <1>2, <2>1, <2>2, <2>4, <2>5
    <3>2. CASE op.kind = "plain"
      BY <2>3, <2>4, <2>6, <3>1, <3>2 DEF Serial!Return
    <3>3. CASE op.kind = "trans"
      BY <2>3, <2>5, <3>1, <3>3 DEF Serial!Return
    <3> QED
      BY <1>2, <2>1, <3>2, <3>3
  <2> QED
    BY <1>2, <2>1, <2>3, <2>7 DEF Serial!Next
<1> QED
  BY <1>3, <1>4, <1>5

\* A call issues a request, or nothing the store knows of.
LEMMA CallIssues ==
    ASSUME TypeOK, TypeOK', Inductive, NEW c \in Callers, Call(c)
    PROVE  Serial!Issue \/ UNCHANGED Serial!vars
<1> USE CallersAssumption
<1>1. /\ UNCHANGED <<connOwner, rows, tx, begun, fails, results, batch, allowAsync, confirmed>>
      /\ exec[c] = None
  BY CallStartsExecution, CallAsks
<1>2. exec \in [Threads -> Executions \cup {None}] /\ c \in Threads /\ c # Delayer
  BY DEF TypeOK, Threads
<1>3. UNCHANGED exec \/ \E op \in Requests : exec' = [exec EXCEPT ![c] = Started(op)]
  BY CallStartsExecution
<1>4. exec'[Delayer] = exec[Delayer] /\ \A u \in Threads \ {c} : exec'[u] = exec[u]
  <2>1. \A u \in Threads \ {c} : exec'[u] = exec[u]
    BY <1>2, <1>3
  <2> QED
    BY <1>2, <2>1 DEF Threads
<1>5. connOwner # c
  BY <1>1, <1>2 DEF Inductive, LockOwners, Idle
<1>6. UNCHANGED <<LeftOpen, Loose>>
  BY <1>1, <1>4, <1>5, ConnectionUntouched
<1>7. CASE UNCHANGED <<exec, queue, issued>>
  <2>1. Delayed' = Delayed
    BY <1>1, <1>7, DelayedUndisturbed DEF Idle
  <2>2. DirectCalls' = DirectCalls
    BY <1>7 DEF DirectCalls, Idle
  <2> QED
    BY <1>1, <1>6, <1>7, <2>1, <2>2 DEF Serial!vars
<1>8. ASSUME NEW op \in Requests, op.n = issued + 1, op.by = c, issued' = issued + 1,
             queue' = Append(queue, op), UNCHANGED exec, op.kind = "query" \/ allowAsync
      PROVE  Serial!Issue
  <2>1. Elements(queue)' = Elements(queue) \cup {op}
    <3>1. queue \in Seq(Requests)
      BY DEF TypeOK
    <3>2. Elements(Append(queue, op)) = Elements(queue) \cup {op}
      BY <3>1, ElementsAppended
    <3> QED
      BY <1>8, <3>2 DEF Elements
  <2>2. Delayed' = Delayed \cup {op}
    <3>1. Delayed' = (IF Idle(Delayer)' THEN {} ELSE {exec'[Delayer].op})
                        \cup Elements(batch)' \cup Elements(queue)'
      BY DelayedIsNext DEF DelayedParts
    <3>2. Idle(Delayer)' = Idle(Delayer) /\ Elements(batch)' = Elements(batch)
      BY <1>1, <1>4 DEF Idle, Elements
    <3> QED
      BY <1>4, <2>1, <3>1, <3>2, DelayedIs DEF DelayedParts
  <2>3. DirectCalls' = DirectCalls
    BY <1>8 DEF DirectCalls, Idle
  <2>4. Serial!Submit(op)
    BY <1>1, <1>6, <1>8, <2>2, <2>3 DEF Serial!Submit
  <2> QED
    BY <1>8, <2>4 DEF Serial!Issue
<1>9. ASSUME NEW op \in Requests, op.n = issued + 1, op.by = c, issued' = issued + 1,
             StartDirect(c, op), UNCHANGED queue,
             op.kind = "plain" \/ (op.kind = "trans" /\ ~allowAsync)
      PROVE  Serial!Issue
  <2>1. Delayed' = Delayed
    BY <1>1, <1>4, <1>9, DelayedUndisturbed DEF Idle
  <2>2. exec'[c] = Started(op) /\ exec'[c] # None /\ exec'[c].op = op
    <3>1. exec'[c] = Started(op)
      BY <1>2, <1>9 DEF StartDirect
    <3> QED
      BY <3>1, NewExecution, NoneAssumption
  <2>3. DirectCalls' = [DirectCalls EXCEPT ![c] = op]
    <3>1. \A d \in Callers \ {c} : exec'[d] = exec[d]
      BY <1>4 DEF Threads
    <3> QED
      BY <2>2, <3>1 DEF DirectCalls, Idle
  <2>4. DirectCalls[c] = None
    BY <1>1 DEF DirectCalls, Idle
  <2>5. Serial!Call(op)
    BY <1>1, <1>6, <1>9, <2>1, <2>3, <2>4 DEF Serial!Call
  <2> QED
    BY <1>9, <2>5 DEF Serial!Issue
<1>10. \/ UNCHANGED <<exec, queue, issued>>
       \/ issued' = issued + 1 /\ \E op \in Requests : AsksFor(c, op)
  BY CallAsks
<1> QED
  BY <1>7, <1>8, <1>9, <1>10 DEF AsksFor

\* The delay thread's loop moves requests along, the world's hands out answers,
\* and the master allows delayed requests.
LEMMA LoopsMoveOnly ==
    ASSUME TypeOK, TypeOK', Inductive, DelayLoop \/ WorldLoop \/ MasterStep
    PROVE  Serial!Deliver \/ Serial!Allow \/ UNCHANGED Serial!vars
<1> USE CallersAssumption
<1>1. /\ UNCHANGED <<rows, tx, begun, fails, connOwner, confirmed, issued>>
      /\ \A c \in Callers : exec'[c] = exec[c]
  BY StartsOnly
<1>2. DirectCalls' = DirectCalls
  BY <1>1 DEF DirectCalls, Idle
<1>3. ASSUME exec'[Delayer] = exec[Delayer] \/ Idle(Delayer) PROVE UNCHANGED <<LeftOpen, Loose>>
  <2>1. Idle(Delayer) => connOwner # Delayer
    BY DEF Inductive, LockOwners, Threads
  <2>2. \A t \in Threads : connOwner = t => exec'[t] = exec[t]
    BY <1>1, <1>3, <2>1 DEF Threads
  <2> QED
    BY <1>1, <2>2, ConnectionUntouched
<1>4. CASE MoveQueue
  <2>1. batch' = queue /\ queue' = <<>> /\ UNCHANGED <<exec, results, allowAsync>>
    BY <1>4 DEF MoveQueue, connVars, resultVars
  <2>2. batch = <<>> /\ Idle(Delayer) /\ Idle(Delayer)'
    BY <1>4, <2>1 DEF MoveQueue, Inductive, PhaseControl, Idle
  <2>3. Elements(batch) = {} /\ Elements(queue)' = {} /\ Elements(batch)' = Elements(queue)
    BY <2>1, <2>2 DEF Elements
  <2>4. Delayed' = Delayed
    BY <2>2, <2>3, DelayedIs, DelayedIsNext DEF DelayedParts
  <2> QED
    BY <1>1, <1>2, <1>3, <2>1, <2>2, <2>4 DEF Serial!vars
<1>5. CASE TakeOperation
  <2>1. /\ Idle(Delayer) /\ ~Idle(Delayer)' /\ exec'[Delayer].op = Head(batch)
        /\ batch # <<>> /\ batch' = Tail(batch) /\ UNCHANGED <<queue, results, allowAsync>>
    <3>1. batch # <<>> /\ Head(batch) \in Requests
      BY <1>5 DEF TakeOperation, TypeOK
    <3>2. exec'[Delayer] = Started(Head(batch))
      BY <1>5 DEF TakeOperation, TypeOK, Threads
    <3>3. Idle(Delayer) /\ batch' = Tail(batch) /\ UNCHANGED <<queue, results, allowAsync>>
      BY <1>5 DEF TakeOperation, Idle, callVars, resultVars
    <3> QED
      BY <3>1, <3>2, <3>3, NewExecution, NoneAssumption DEF Idle
  <2>2. Elements(batch) = {Head(batch)} \cup Elements(Tail(batch))
    <3>1. batch \in Seq(Requests)
      BY DEF TypeOK
    <3> QED
      BY <2>1, <3>1, ElementsOfTail
  <2>3. Elements(queue)' = Elements(queue) /\ Elements(batch)' = Elements(Tail(batch))
    BY <2>1 DEF Elements
  <2>4. Delayed' = Delayed
    BY <2>1, <2>2, <2>3, DelayedIs, DelayedIsNext DEF DelayedParts
  <2> QED
    BY <1>1, <1>2, <1>3, <2>1, <2>4 DEF Serial!vars
<1>6. CASE UNCHANGED <<exec, queue, batch>>
  <2>1. Delayed' = Delayed
    BY <1>6, DelayedUndisturbed DEF Idle
  <2>2. UNCHANGED <<LeftOpen, Loose>>
    BY <1>3, <1>6
  <2>3. CASE RunCallback
    <3>1. results # <<>> /\ results' = Tail(results) /\ UNCHANGED allowAsync
      BY <2>3 DEF RunCallback, callVars
    <3> QED
      BY <1>1, <1>2, <2>1, <2>2, <3>1 DEF Serial!Deliver
  <2>4. CASE AllowAsyncTransactions
    <3>1. \A c \in Callers : Idle(c)
      BY <2>4 DEF AllowAsyncTransactions, Inductive, PhaseControl, Idle
    <3>2. \A c \in Callers : DirectCalls[c] = None
      BY <3>1 DEF DirectCalls
    <3>3. allowAsync' = TRUE /\ UNCHANGED results
      BY <2>4 DEF AllowAsyncTransactions, resultVars
    <3> QED
      BY <1>1, <1>2, <2>1, <2>2, <3>2, <3>3 DEF Serial!Allow
  <2>5. CASE ~RunCallback /\ ~AllowAsyncTransactions
    <3>1. ~MoveQueue /\ ~TakeOperation => UNCHANGED <<results, allowAsync>>
      BY <2>5 DEF DelayLoop, EndProcessRequests, Ping, WorldLoop, LockResults, UnlockResults,
          MasterStep, JoinCallers, Stop, JoinDelayThread, Halt, resultVars, callVars
    <3> QED
      BY <1>1, <1>2, <1>4, <1>5, <2>1, <2>2, <3>1 DEF Serial!vars
  <2> QED
    BY <2>3, <2>4, <2>5
<1>7. EndProcessRequests \/ Ping \/ WorldLoop \/ MasterStep => UNCHANGED <<exec, queue, batch>>
  BY DEF EndProcessRequests, Ping, WorldLoop, LockResults, RunCallback, UnlockResults,
         MasterStep, AllowAsyncTransactions, JoinCallers, Stop, JoinDelayThread, Halt,
         callVars, delayVars, connVars
<1> QED
  BY <1>4, <1>5, <1>6, <1>7 DEF DelayLoop

\* The database layer, with its queue, its threads and its locks, implements
\* the store that serves every thread's requests in order and each one whole,
\* where only what the server refuses is left out: SqlTransaction::Execute.
THEOREM LayerIsSerial == Spec => ImplementsSerial
<1>1. Init => Serial!Init
  <2> SUFFICES ASSUME Init PROVE Serial!Init
    OBVIOUS
  <2>1. Delayed = {}
    BY DEF Init, Delayed, Line, Idle, Threads
  <2>2. DirectCalls = [c \in Callers |-> None]
    BY DEF Init, DirectCalls, Idle, Threads
  <2>3. LeftOpen = None /\ Loose = None
    BY DEF Init, LeftOpen, Loose
  <2> QED
    BY <2>1, <2>2, <2>3 DEF Init, Serial!Init
<1>2. TypeOK /\ Inductive /\ (TypeOK /\ Inductive)' /\ [Next]_vars => [Serial!Next]_(Serial!vars)
  <2> SUFFICES ASSUME TypeOK, Inductive, TypeOK', Inductive', [Next]_vars
               PROVE  Serial!Next \/ UNCHANGED Serial!vars
    OBVIOUS
  <2>1. CASE UNCHANGED vars
    <3>1. UNCHANGED <<rows, results, confirmed, exec, queue, batch, allowAsync, issued, fails, tx, begun,
                      connOwner>>
      BY <2>1 DEF vars, callVars, delayVars, connVars, resultVars
    <3>2. Delayed' = Delayed
      BY <3>1, DelayedUndisturbed DEF Idle
    <3>3. UNCHANGED <<DirectCalls, LeftOpen, Loose>>
      BY <3>1 DEF DirectCalls, LeftOpen, Loose, Idle
    <3> QED
      BY <3>1, <3>2, <3>3 DEF Serial!vars
  <2>2. ASSUME NEW c \in Callers, Call(c) PROVE Serial!Next \/ UNCHANGED Serial!vars
    BY <2>2, CallIssues DEF Serial!Next
  <2>3. ASSUME NEW t \in Threads, Perform(t) PROVE Serial!Next \/ UNCHANGED Serial!vars
    BY <2>3, ExecutionSeen
  <2>4. CASE DelayLoop \/ WorldLoop \/ MasterStep
    BY <2>4, LoopsMoveOnly DEF Serial!Next
  <2> QED
    BY <2>1, <2>2, <2>3, <2>4 DEF Next, Halted
<1> QED
  BY <1>1, <1>2, InductiveInvariant, PTL DEF Spec, ImplementsSerial, Serial!Spec
=============================================================================
