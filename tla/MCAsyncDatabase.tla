-------------------------- MODULE MCAsyncDatabase ---------------------------
(* Instances of AsyncDatabase for TLC: the master thread and the world     *)
(* thread, with divisions of the calls between them.                       *)
EXTENDS AsyncDatabase, TLC

\* While the server runs: the world thread saves, loads and writes directly,
\* the other thread writes.
RuntimeUses == [c \in Callers |-> IF c = World THEN {"trans", "query", "direct"} ELSE {"plain"}]

\* For liveness: all kinds of requests, on both sides.
AllUses == [c \in Callers |->
    IF c = World THEN {"trans", "direct", "query"} ELSE {"plain", "query"}]

\* What the callbacks of the game call: none of them executes directly.
DelayingUses == {"plain", "trans", "query"}

\* Rows are interchangeable: no call treats one row differently from another.
RowSymmetry == Permutations(Keys)
=============================================================================
