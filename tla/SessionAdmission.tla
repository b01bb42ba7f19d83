-------------------------- MODULE SessionAdmission --------------------------
(***************************************************************************)
(* What the player queue promises: a player who arrives while the realm is *)
(* full waits at the end of one line; who leaves makes room for the first  *)
(* in line; accounts above player security never wait.                     *)
(***************************************************************************)
EXTENDS Integers, Sequences, FiniteSets

CONSTANTS
    Sessions,   \* whoever may arrive
    Exempt,     \* the sessions above player security
    Limits      \* the limits an administrator may set: 0 is none, below 0 locks the realm

VARIABLES
    inside,     \* the sessions admitted
    line,       \* the sessions waiting, the first to be admitted first
    limit       \* the limit in force

vars == <<inside, line, limit>>

InLine == {line[i] : i \in DOMAIN line}

Init == inside = {} /\ line = <<>> /\ limit \in Limits

Full == limit > 0 /\ Cardinality(inside) + Len(line) >= limit

Enter(x) == /\ x \notin inside \cup InLine
            /\ x \in Exempt \/ ~Full
            /\ inside' = inside \cup {x}
            /\ UNCHANGED <<line, limit>>

Wait(x) == /\ x \notin inside \cup InLine \cup Exempt
           /\ Full
           /\ line' = Append(line, x)
           /\ UNCHANGED <<inside, limit>>

\* The line without x.
Without(x) ==
    IF \E i \in DOMAIN line : line[i] = x
    THEN LET at == CHOOSE i \in DOMAIN line : line[i] = x
         IN SubSeq(line, 1, at - 1) \o SubSeq(line, at + 1, Len(line))
    ELSE line

\* x leaves, and the first of the others in line enters if there is room.
Leave(x) ==
    /\ x \in inside \cup InLine
    /\ LET stay == inside \ {x}
           rest == Without(x)
           room == limit = 0 \/ Cardinality(stay) < limit
       IN IF room /\ rest # <<>>
          THEN inside' = stay \cup {Head(rest)} /\ line' = Tail(rest)
          ELSE inside' = stay /\ line' = rest
    /\ UNCHANGED limit

ChangeLimit == limit' \in Limits /\ UNCHANGED <<inside, line>>

\* The realm shuts down: nobody waits any longer.
CloseDown == inside' = inside \cup InLine /\ line' = <<>> /\ UNCHANGED limit

Next == (\E x \in Sessions : Enter(x) \/ Wait(x) \/ Leave(x)) \/ ChangeLimit \/ CloseDown

Spec == Init /\ [][Next]_vars
=============================================================================
