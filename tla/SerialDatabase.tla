---------------------------- MODULE SerialDatabase ---------------------------
(***************************************************************************)
(* What the asynchronous database layer promises the threads that use it:  *)
(* the delayed requests of one thread are served in the order the thread   *)
(* issued them, each one entirely or not at all, and an asynchronous query *)
(* is answered from content that already holds what its thread wrote       *)
(* earlier.  A direct request overtakes the delayed ones of its thread and *)
(* is finished when the call returns.                                      *)
(*                                                                         *)
(* A request fails only when the database server refuses something.  Two   *)
(* kinds of refusal leave a trace.  A transaction whose BEGIN was refused  *)
(* takes effect statement by statement.  One whose COMMIT or ROLLBACK was  *)
(* refused may stay open; it then takes in what is written until the next  *)
(* transaction begins and commits it all.                                  *)
(***************************************************************************)
EXTENDS Naturals, Sequences

CONSTANTS
    Callers,    \* the threads that use the database
    Keys,       \* the rows
    Requests,   \* the requests, records [by, n, kind, keys]
    None        \* no request, no transaction

VARIABLES
    rows,       \* [Keys -> the number of the request that wrote the row last, 0 at first]
    pending,    \* the delayed requests still to be served; those of a thread by their number
    calls,      \* [Callers -> the direct request a thread waits for]
    replies,    \* answers to queries not yet handed to their callback
    confirmed,  \* [Callers -> number of the last direct statement reported done]
    allowed,    \* requests may be delayed; until then all but queries are direct
    last,       \* number of the last request
    open,       \* content of a transaction left open, which a later one commits
    loose,      \* the transaction being served although it was not begun
    refusals    \* number of things the database server refused

vars == <<rows, pending, calls, replies, confirmed, allowed, last, open, loose, refusals>>

\* The requests of the same thread that are still to be served.
Queued(op) == {p \in pending : p.by = op.by}

\* r after the first m statements of op.
Written(r, op, m) == [k \in DOMAIN r |-> IF \E i \in 1..m : op.keys[i] = k THEN op.n ELSE r[k]]

Content == IF open = None THEN rows ELSE open

Init == /\ rows = [k \in Keys |-> 0]
        /\ pending = {}
        /\ calls = [c \in Callers |-> None]
        /\ replies = <<>>
        /\ confirmed = [c \in Callers |-> 0]
        /\ allowed = FALSE
        /\ last = 0
        /\ open = None
        /\ loose = None
        /\ refusals = 0

\* A request queues behind those of its thread.
Submit(op) ==
    /\ op.kind = "query" \/ allowed
    /\ pending' = pending \cup {op}
    /\ UNCHANGED <<rows, calls, replies, confirmed, allowed, open, loose, refusals>>

\* A direct request; transactions are direct only until requests may be delayed.
Call(op) ==
    /\ calls[op.by] = None
    /\ op.kind = "plain" \/ (op.kind = "trans" /\ ~allowed)
    /\ calls' = [calls EXCEPT ![op.by] = op]
    /\ UNCHANGED <<rows, pending, replies, confirmed, allowed, open, loose, refusals>>

Issue == /\ last' = last + 1
         /\ \E op \in Requests : op.n = last' /\ (Submit(op) \/ Call(op))

Allow == /\ \A c \in Callers : calls[c] = None
         /\ allowed' = TRUE
         /\ UNCHANGED <<rows, pending, calls, replies, confirmed, last, open, loose, refusals>>

Nothing == UNCHANGED <<rows, open>>

Refused == refusals' > refusals

\* A statement on its own is written, to the transaction left open if there is one.
WriteStatement(op) ==
    LET after == Written(Content, op, 1) IN
       IF open = None THEN rows' = after /\ UNCHANGED open ELSE open' = after /\ UNCHANGED rows

\* A transaction that was begun is committed, or it stays open, as far as it went.
EndBegun(op) ==
    /\ open = None
    /\ \/ rows' = Written(rows, op, Len(op.keys)) /\ UNCHANGED <<open, refusals>>
       \/ Refused /\ UNCHANGED rows /\ \E m \in 0..Len(op.keys) : open' = Written(rows, op, m)

\* One that was not begun ends, with what it finds open, by a COMMIT or a ROLLBACK.
EndLoose == \/ open = None /\ Nothing /\ UNCHANGED refusals
            \/ open # None /\ open' = None /\ rows' = open /\ UNCHANGED refusals
            \/ open # None /\ open' = None /\ rows' = rows /\ Refused

EndTransaction(op) == \/ Nothing /\ Refused /\ loose' = IF loose = op THEN None ELSE loose
                      \/ Nothing /\ op.keys = <<>> /\ UNCHANGED <<loose, refusals>>
                      \/ op # loose /\ EndBegun(op) /\ UNCHANGED loose
                      \/ op = loose /\ EndLoose /\ loose' = None

\* The oldest delayed request of a thread is answered, takes effect, or fails.
Serve(op) ==
    /\ \A p \in Queued(op) : op.n <= p.n
    /\ pending' = pending \ {op}
    /\ \/ /\ op.kind = "query"
          /\ replies' = Append(replies, [by |-> op.by, n |-> op.n, seen |-> Content])
          /\ Nothing /\ UNCHANGED <<loose, refusals>>
       \/ /\ op.kind = "plain"
          /\ \/ WriteStatement(op) /\ UNCHANGED refusals
             \/ Nothing /\ Refused
          /\ UNCHANGED <<replies, loose>>
       \/ /\ op.kind = "trans"
          /\ EndTransaction(op)
          /\ UNCHANGED replies
    /\ UNCHANGED <<calls, confirmed, allowed, last>>

\* A direct statement is either done and reported done, or neither.
Return(c) ==
    /\ calls' = [calls EXCEPT ![c] = None]
    /\ LET op == calls[c] IN
          \/ /\ op.kind = "plain"
             /\ \/ /\ WriteStatement(op)
                   /\ confirmed' = [confirmed EXCEPT ![c] = op.n]
                   /\ UNCHANGED refusals
                \/ Nothing /\ Refused /\ UNCHANGED confirmed
             /\ UNCHANGED loose
          \/ /\ op.kind = "trans"
             /\ EndTransaction(op)
             /\ UNCHANGED confirmed
    /\ UNCHANGED <<pending, replies, allowed, last>>

\* The transactions that may be executed now: the oldest of a thread, or a direct one.
Current == {op \in pending : op.kind = "trans" /\ \A p \in Queued(op) : op.n <= p.n}
             \cup {calls[c] : c \in {d \in Callers : calls[d] # None /\ calls[d].kind = "trans"}}

\* A BEGIN commits what is left open, or it is refused.
Begin == /\ open # None /\ loose = None /\ Current # {}
         /\ rows' = open /\ open' = None
         /\ UNCHANGED <<pending, calls, replies, confirmed, allowed, last, loose, refusals>>

RefuseBegin(op) == /\ loose = None /\ loose' = op
                   /\ Refused
                   /\ UNCHANGED <<rows, pending, calls, replies, confirmed, allowed, last, open>>

\* A statement of a transaction that was not begun is a statement on its own.
RunLoose == /\ loose # None
            /\ \E i \in DOMAIN loose.keys :
                  WriteStatement([loose EXCEPT !.keys = <<loose.keys[i]>>])
            /\ UNCHANGED <<pending, calls, replies, confirmed, allowed, last, loose, refusals>>

Deliver == /\ replies # <<>>
           /\ replies' = Tail(replies)
           /\ UNCHANGED <<rows, pending, calls, confirmed, allowed, last, open, loose, refusals>>

Next == \/ Issue
        \/ Allow
        \/ \E op \in pending : Serve(op)
        \/ \E c \in Callers : calls[c] # None /\ Return(c)
        \/ Begin
        \/ \E op \in Current : RefuseBegin(op)
        \/ RunLoose
        \/ Deliver

Spec == Init /\ [][Next]_vars
=============================================================================
