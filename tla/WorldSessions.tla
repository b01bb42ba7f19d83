---------------------------- MODULE WorldSessions ----------------------------
(***************************************************************************)
(* Sessions of the world server: WorldSocket::HandleAuthSession in the     *)
(* network threads, the queue of new sessions, World::UpdateSessions with  *)
(* the player queue, WorldSession::Update, login and logout of characters, *)
(* and the halt.                                                           *)
(*                                                                         *)
(* A socket authenticates once, so the session it creates has its name.    *)
(* The network threads run between any two steps of the world thread.      *)
(* m_playerLoading is set and reset within one call and is left out.       *)
(* Time is a choice: a pending logout may or may not be due.               *)
(***************************************************************************)
EXTENDS Integers, Sequences, FiniteSets

CONSTANTS
    Sockets,    \* the connections clients may open
    Accounts,   \* the accounts
    Staff,      \* the accounts above SEC_PLAYER
    AccountOf,  \* the account each connection authenticates for
    None,       \* nullptr
    Limits,     \* PlayerLimit and what the console may set it to
    MaxLogins,  \* bound: CMSG_PLAYER_LOGIN packets that load a character
    MaxKicks,   \* bound: calls of KickPlayer
    MaxChanges  \* bound: calls of SetPlayerLimit

ASSUME AccountsAssumption ==
    /\ IsFiniteSet(Sockets)
    /\ Staff \subseteq Accounts
    /\ AccountOf \in [Sockets -> Accounts]
    /\ None \notin Sockets
ASSUME SessionBoundsAssumption ==
    Limits \subseteq Int /\ MaxLogins \in Nat /\ MaxKicks \in Nat /\ MaxChanges \in Nat

VARIABLES
    conn,       \* where each connection is
    ref,        \* WorldSocket::m_session
    session,    \* the WorldSession objects in memory
    addQueue,   \* m_sessionAddQueue
    adding,     \* sessionQueueCopy
    sessions,   \* m_sessions
    waiting,    \* m_QueuedSessions
    limit,      \* m_playerLimit
    step,       \* where the world thread is
    todo,       \* accounts the loop of UpdateSessions has still to reach
    cur,        \* the account whose session is being updated
    logins,     \* login query holders of the character database
    chars,      \* Player objects of each account
    late,       \* history: accounts with a login answered too late (HandlePlayerLogin)
    stopping,   \* World::CleanupsBeforeStop has begun
    used        \* the numbers of loads, kicks and limit changes so far

netVars == <<conn, ref>>
listVars == <<addQueue, adding, sessions, waiting, limit>>
loopVars == <<step, todo, cur, stopping>>
charVars == <<logins, chars, late>>
vars == <<netVars, session, listVars, loopVars, charVars, used>>

Listed == {sessions[a] : a \in Accounts} \ {None}

SessionObjects ==
    [state : {"created", "charsel", "ready", "offline"},
     sock : Sockets \cup {None}, req : Sockets \cup {None},
     player : {"none", "world", "refused"}, inQueue : BOOLEAN,
     logout : {"none", "asked", "kicked"}, kick : BOOLEAN, recent : BOOLEAN,
     mail : Seq(Sockets)]

\* A null pointer is no session.
ASSUME NullSessionAssumption == None \notin SessionObjects

NewSession(s) ==
    [state |-> "created", sock |-> s, req |-> None, player |-> "none", inQueue |-> FALSE,
     logout |-> "none", kick |-> FALSE, recent |-> FALSE, mail |-> <<>>]

Init == /\ conn = [s \in Sockets |-> "away"]
        /\ ref = [s \in Sockets |-> None]
        /\ session = [s \in Sockets |-> None]
        /\ addQueue = <<>> /\ adding = <<>>
        /\ sessions = [a \in Accounts |-> None]
        /\ waiting = <<>>
        /\ limit \in Limits
        /\ step = "between" /\ todo = {} /\ cur = None
        /\ logins = <<>>
        /\ chars = [a \in Accounts |-> 0]
        /\ late = {}
        /\ stopping = FALSE
        /\ used = [logins |-> 0, kicks |-> 0, changes |-> 0]

\* No socket at all, or IsClosed().
Closed(s) == s \notin {c \in Sockets : conn[c] # "closed"}

\* Use one of a bounded number of events.
Use(what, bound) == used[what] < bound /\ used' = [used EXCEPT ![what] = @ + 1]
-----------------------------------------------------------------------------
(* Network threads: WorldSocket.                                           *)

\* HandleAuthSession up to sWorld.FindSession; a locked realm refuses players.
FindSession(s) ==
    /\ conn[s] = "away"
    /\ \/ /\ limit >= 0 \/ AccountOf[s] \in Staff
          /\ conn' = [conn EXCEPT ![s] = "found"]
          /\ ref' = [ref EXCEPT ![s] = sessions[AccountOf[s]]]
       \/ /\ limit < 0 /\ AccountOf[s] \notin Staff
          /\ conn' = [conn EXCEPT ![s] = "closed"]
          /\ UNCHANGED ref
    /\ UNCHANGED <<session, listVars, loopVars, charVars, used>>

\* The account is online: the reconnection is posted to the session found.  A
\* session deleted in the meantime does not get it.
PostRequest(s) ==
    /\ conn[s] = "found" /\ ref[s] # None
    /\ conn' = [conn EXCEPT ![s] = "open"]
    /\ session' = IF session[ref[s]] = None THEN session
                  ELSE [session EXCEPT ![ref[s]].mail = Append(@, s)]
    /\ UNCHANGED <<ref, listVars, loopVars, charVars, used>>

\* The account is not online: a new session, and World::AddSession.
AddSession(s) ==
    /\ conn[s] = "found" /\ ref[s] = None
    /\ conn' = [conn EXCEPT ![s] = "open"]
    /\ session' = [session EXCEPT ![s] = NewSession(s)]
    /\ ref' = [ref EXCEPT ![s] = s]
    /\ addQueue' = Append(addQueue, s)
    /\ UNCHANGED <<adding, sessions, waiting, limit, loopVars, charVars, used>>

\* The client goes away or the connection is lost.
Disconnect(s) ==
    /\ conn[s] = "open"
    /\ conn' = [conn EXCEPT ![s] = "closed"]
    /\ UNCHANGED <<ref, session, listVars, loopVars, charVars, used>>
-----------------------------------------------------------------------------
(* World thread: new sessions and the player queue.                        *)

ActiveCount == Cardinality(Listed) - Len(waiting)

AmountLimit == IF limit >= 0 THEN limit ELSE 0

SetPlayerLimit ==
    /\ step \in {"between", "packets"}
    /\ Use("changes", MaxChanges)
    /\ limit' \in Limits \ {limit}
    /\ UNCHANGED <<netVars, session, addQueue, adding, sessions, waiting, loopVars, charVars>>

SwapAddQueue ==
    /\ adding' = addQueue
    /\ addQueue' = <<>>
    /\ step' = "add"

BeginUpdateSessions ==
    /\ step = "between"
    /\ SwapAddQueue
    /\ UNCHANGED <<netVars, session, sessions, waiting, limit, todo, cur, stopping, charVars, used>>

\* Mutant: the limit is compared with > .
MustQueueAbove(x) ==
    AmountLimit > 0 /\ Cardinality(Listed) > AmountLimit /\ AccountOf[x] \notin Staff

\* Sessions already exclude x, which is counted and subtracted again.
MustQueue(x) ==
    AmountLimit > 0 /\ Cardinality(Listed) >= AmountLimit /\ AccountOf[x] \notin Staff

\* Mutant: AddQueuedSession puts the session at the front.
QueueAtFront(x) == /\ waiting' = <<x>> \o waiting
                   /\ session' = [session EXCEPT ![x].inQueue = TRUE]

AddQueuedSession(x) == /\ waiting' = Append(waiting, x)
                       /\ session' = [session EXCEPT ![x].inQueue = TRUE]

\* World::AddSession_: a session of an account that has one is forgotten.
AddSession_ ==
    /\ step = "add" /\ adding # <<>>
    /\ adding' = Tail(adding)
    /\ LET x == Head(adding)
           a == AccountOf[x]
       IN \/ sessions[a] # None /\ UNCHANGED <<sessions, waiting, session>>
          \/ /\ sessions[a] = None
             /\ sessions' = [sessions EXCEPT ![a] = x]
             /\ IF MustQueue(x) THEN AddQueuedSession(x) ELSE UNCHANGED <<waiting, session>>
    /\ UNCHANGED <<netVars, addQueue, limit, loopVars, charVars, used>>

AllAdded ==
    /\ step = "add" /\ adding = <<>>
    /\ step' = "pick"
    /\ todo' = {a \in Accounts : sessions[a] # None}
    /\ UNCHANGED <<netVars, session, listVars, cur, stopping, charVars, used>>

AllUpdated ==
    /\ step = "pick" /\ todo = {}
    /\ step' = IF stopping THEN "stopped" ELSE "callbacks"
    /\ UNCHANGED <<netVars, session, listVars, todo, cur, stopping, charVars, used>>
-----------------------------------------------------------------------------
(* World thread: WorldSession::Update, messages and packets.               *)

\* Messager::Execute: RequestNewSocket refuses all but the first.
RequestNewSocket(r) ==
    IF r.mail = <<>> THEN r
    ELSE IF r.req # None THEN [r EXCEPT !.mail = <<>>]
    ELSE [r EXCEPT !.mail = <<>>, !.req = Head(r.mail), !.state = "created"]

BeginUpdate(a) ==
    /\ step = "pick" /\ a \in todo
    /\ todo' = todo \ {a}
    /\ cur' = a
    /\ step' = "packets"
    /\ session' = [session EXCEPT ![sessions[a]] = RequestNewSocket(@)]
    /\ UNCHANGED <<netVars, listVars, stopping, charVars, used>>

\* The session being updated handles a packet of its client.
Handling(x) == step = "packets" /\ sessions[cur] = x /\ ~Closed(session[x].sock)

Kicked(r) == [r EXCEPT !.kick = TRUE]

\* Mutant: LogoutPlayer does not reset _player.
LogoutKeepingPlayer(r) ==
    IF r.recent THEN r
    ELSE [r EXCEPT !.recent = TRUE, !.state = "charsel",
                   !.logout = "none", !.kick = FALSE,
                   !.sock = IF r.kick THEN None ELSE r.sock]

\* WorldSession::LogoutPlayer on the session r, and what it does to sockets and
\* to the number of characters in the world.
Logout(r) ==
    IF r.recent THEN r
    ELSE [r EXCEPT !.player = "none", !.recent = TRUE, !.state = "charsel",
                   !.logout = "none", !.kick = FALSE,
                   !.sock = IF r.kick THEN None ELSE r.sock]

LogoutCloses(r) == IF ~r.recent /\ r.kick THEN {r.sock} \ {None} ELSE {}

\* Mutant: only a connected player is removed from the world.
LogoutRemovesConnected(r) ==
    IF ~r.recent /\ r.player # "none" /\ r.sock # None THEN 1 ELSE 0

LogoutRemoves(r) == IF ~r.recent /\ r.player # "none" THEN 1 ELSE 0

Close(S) == conn' = [s \in Sockets |-> IF s \in S THEN "closed" ELSE conn[s]]

\* LogoutPlayer of session x, which is now r.
LogoutPlayer(x, r) ==
    /\ session' = [session EXCEPT ![x] = Logout(r)]
    /\ Close(LogoutCloses(r))
    /\ chars' = [chars EXCEPT ![AccountOf[x]] = @ - LogoutRemoves(r)]

\* A STATUS_AUTHED opcode other than CMSG_PLAYER_LOGIN.
HandleAuthed(x) ==
    /\ Handling(x) /\ ~session[x].inQueue
    /\ session' = [session EXCEPT ![x].recent = FALSE]
    /\ UNCHANGED <<netVars, listVars, loopVars, charVars, used>>

\* CMSG_PLAYER_LOGIN without a character in the world.  Nothing remembers that a login
\* is with the database: m_playerLoading is set in the callback.
HandlePlayerLoginOpcode(x) ==
    /\ Handling(x) /\ ~session[x].inQueue
    /\ session[x].player = "none"
    /\ Use("logins", MaxLogins)
    /\ session' = [session EXCEPT ![x].recent = FALSE]
    /\ logins' = Append(logins, AccountOf[x])
    /\ UNCHANGED <<netVars, listVars, loopVars, chars, late>>

\* CMSG_PLAYER_LOGIN with the character still in the world and leaving it.
HandlePlayerReconnect(x) ==
    /\ Handling(x) /\ ~session[x].inQueue
    /\ session[x].player = "world" /\ session[x].logout # "none"
    /\ session' = [session EXCEPT ![x] =
          [@ EXCEPT !.recent = FALSE, !.logout = "none", !.kick = FALSE, !.state = "ready"]]
    /\ UNCHANGED <<netVars, listVars, loopVars, charVars, used>>

\* HandleLogoutRequestOpcode: refused, at once or delayed; a cancelled logout
\* ends as a refused one.
HandleLogoutRequestOpcode(x) ==
    /\ Handling(x) /\ session[x].player = "world"
    /\ \/ /\ \E when \in {"none", "asked"} :
                session' = [session EXCEPT ![x].logout = when, ![x].kick = FALSE]
          /\ UNCHANGED <<conn, chars>>
       \/ LogoutPlayer(x, session[x])
    /\ UNCHANGED <<ref, listVars, loopVars, logins, late, used>>

\* KickPlayer() by a command, by the anticheat or by KickAllLess.
KickPlayer(x) ==
    /\ step \in {"between", "packets"} /\ x \in Listed
    /\ Use("kicks", MaxKicks)
    /\ session' = [session EXCEPT ![x].logout = "kicked", ![x].kick = TRUE]
    /\ UNCHANGED <<netVars, listVars, loopVars, charVars>>

EndPackets ==
    /\ step = "packets"
    /\ step' = "switch"
    /\ UNCHANGED <<netVars, session, listVars, todo, cur, stopping, charVars, used>>
-----------------------------------------------------------------------------
(* World thread: WorldSession::Update, the switch on m_sessionState.       *)

Updating(x, state) == /\ step = "switch" /\ sessions[cur] = x
                      /\ session[x].state = state

Continue == step' = "pick" /\ cur' = None /\ UNCHANGED <<todo, stopping>>

\* SetOffline: a player in the world gets a logout request.
Offline(r) == [r EXCEPT !.state = "offline", !.sock = None,
                        !.logout = IF r.player # "none" THEN "asked" ELSE @,
                        !.kick = IF r.player # "none" THEN FALSE ELSE @]

\* Close and FinalizeSession of the socket a session leaves.
Finalize(S) == /\ Close(S)
               /\ ref' = [s \in Sockets |-> IF s \in S THEN None ELSE ref[s]]

\* WORLD_SESSION_STATE_CREATED without a new socket: the first answer.
UpdateCreated(x) ==
    /\ Updating(x, "created") /\ session[x].req = None
    /\ session' = [session EXCEPT ![x].state = "charsel"]
    /\ Continue
    /\ UNCHANGED <<netVars, listVars, charVars, used>>

\* WORLD_SESSION_STATE_CREATED with m_requestSocket.
SwitchSocket(x) ==
    /\ Updating(x, "created") /\ session[x].req # None
    /\ Finalize({session[x].sock} \ {None})
    /\ session' = [session EXCEPT ![x] =
          [Offline(@) EXCEPT !.sock = session[x].req, !.req = None, !.state = "charsel"]]
    /\ Continue
    /\ UNCHANGED <<listVars, charVars, used>>

\* Whether _logoutTime is 20 s (or 60 s) ago.
LogoutDue(r) == r.logout # "none"
LogoutNotDue(r) == r.logout # "kicked"

StaysConnected(x) ==
    /\ \/ Updating(x, "charsel")
       \/ Updating(x, "ready")
    /\ ~Closed(session[x].sock)
    /\ \/ /\ LogoutDue(session[x]) \/ (session[x].state = "ready" /\ session[x].player # "none")
          /\ LogoutPlayer(x, session[x])
       \/ /\ LogoutNotDue(session[x])
          /\ UNCHANGED <<session, conn, chars>>
    /\ Continue
    /\ UNCHANGED <<ref, listVars, logins, late, used>>

\* The player gets the opportunity to reconnect.
GoesOffline(x) ==
    /\ Updating(x, "ready") /\ Closed(session[x].sock) /\ session[x].player # "none"
    /\ Finalize({session[x].sock} \ {None})
    /\ session' = [session EXCEPT ![x] = Offline(@)]
    /\ Continue
    /\ UNCHANGED <<listVars, charVars, used>>

StaysOffline(x) ==
    /\ Updating(x, "offline")
    /\ Continue
    /\ UNCHANGED <<netVars, session, listVars, charVars, used>>

\* Mutant: the time to reconnect never ends.
EndsUnlessOffline(x) ==
    \/ Updating(x, "charsel") /\ (Closed(session[x].sock) \/ LogoutNotDue(session[x]))
    \/ Updating(x, "ready") /\ Closed(session[x].sock) /\ session[x].player = "none"

\* WorldSession::Update returns false: the socket closed in character selection
\* or 15 minutes passed there, or the time to reconnect has passed.
Ends(x) ==
    \/ Updating(x, "charsel") /\ (Closed(session[x].sock) \/ LogoutNotDue(session[x]))
    \/ Updating(x, "ready") /\ Closed(session[x].sock) /\ session[x].player = "none"
    \/ Updating(x, "offline") /\ LogoutDue(session[x])

\* Session r as Update leaves it when it returns false, and then ~WorldSession
\* finds or makes it without a player, unless the logout is skipped.
AfterUpdate(r) == IF r.state = "offline" THEN Logout(r)
                  ELSE IF r.state = "charsel" /\ ~Closed(r.sock) THEN Logout(Kicked(r))
                  ELSE r

Deleted(r) == IF AfterUpdate(r).player = "none" THEN AfterUpdate(r) ELSE Logout(AfterUpdate(r))

\* The queue without x, which is in it at most once.
Without(line, x) ==
    IF \E i \in DOMAIN line : line[i] = x
    THEN LET at == CHOOSE i \in DOMAIN line : line[i] = x
         IN SubSeq(line, 1, at - 1) \o SubSeq(line, at + 1, Len(line))
    ELSE line

Room(count) == limit = 0 \/ count < limit

\* Mutant: erased from m_sessions but not from the queue.
RemoveUnqueued(x) == [line |-> waiting, admitted |-> {}]

\* Mutant: the session that leaves still counts.
RemoveCountingLeaver(x) ==
    LET rest == Without(waiting, x)
    IN IF Room(ActiveCount) /\ rest # <<>>
       THEN [line |-> Tail(rest), admitted |-> {Head(rest)}]
       ELSE [line |-> rest, admitted |-> {}]

\* RemoveQueuedSession: the queue without x, and the session admitted instead.
RemoveQueuedSession(x) ==
    LET found == \E i \in DOMAIN waiting : waiting[i] = x
        count == IF found \/ ActiveCount = 0 THEN ActiveCount ELSE ActiveCount - 1
        rest == Without(waiting, x)
    IN IF Room(count) /\ rest # <<>>
       THEN [line |-> Tail(rest), admitted |-> {Head(rest)}]
       ELSE [line |-> rest, admitted |-> {}]

\* World::UpdateSessions when Update returned false, and ~WorldSession.
RemoveSession(x) ==
    /\ Ends(x)
    /\ LET queue == RemoveQueuedSession(x)
           left == Deleted(session[x]).sock
       IN /\ Close({session[x].sock} \ {None})
          /\ ref' = [s \in Sockets |-> IF s = left THEN None ELSE ref[s]]
          /\ chars' = [chars EXCEPT ![AccountOf[x]] = @ - LogoutRemoves(session[x])]
          /\ waiting' = queue.line
          /\ session' = [y \in Sockets |->
                IF y = x THEN None
                ELSE IF y \in queue.admitted THEN [session[y] EXCEPT !.inQueue = FALSE]
                ELSE session[y]]
    /\ sessions' = [sessions EXCEPT ![AccountOf[x]] = None]
    /\ Continue
    /\ UNCHANGED <<addQueue, adding, limit, logins, late, used>>
-----------------------------------------------------------------------------
(* World thread: UpdateResultQueue, and the halt.                          *)

\* An answer comes too late when the session has a character already, or has been
\* logged out since its last packet, so that LogoutPlayer will do nothing.
TooLate(r) == r.player # "none" \/ r.recent

\* HandlePlayerLoginCallback finds the session by account; the character loads
\* or is refused.  SetOnline needs an open socket.
HandlePlayerLogin ==
    /\ step = "callbacks" /\ logins # <<>>
    /\ logins' = Tail(logins)
    /\ LET a == Head(logins)
           x == sessions[a]
       IN \/ x = None /\ UNCHANGED <<session, chars, late>>
          \/ /\ x # None
             /\ chars' = [chars EXCEPT ![a] = @ + 1]
             /\ late' = IF TooLate(session[x]) THEN late \cup {a} ELSE late
             /\ LET online == [session[x] EXCEPT !.player = "world",
                                 !.state = IF Closed(session[x].sock) THEN @ ELSE "ready"]
                IN session' \in {[session EXCEPT ![x] = online],
                                 [session EXCEPT ![x] =
                                    [online EXCEPT !.player = "refused", !.logout = "kicked",
                                            !.kick = TRUE]]}
    /\ UNCHANGED <<netVars, listVars, loopVars, used>>

EndTick ==
    /\ step = "callbacks"
    /\ step' = "between"
    /\ UNCHANGED <<netVars, session, listVars, todo, cur, stopping, charVars, used>>

\* CleanupsBeforeStop: KickAll, and a last UpdateSessions.
CleanupsBeforeStop ==
    /\ step = "between" /\ ~stopping
    /\ stopping' = TRUE
    /\ waiting' = <<>>
    /\ session' = [x \in Sockets |-> IF x \in Listed THEN Logout(Kicked(session[x])) ELSE session[x]]
    /\ Close(UNION {LogoutCloses(Kicked(session[x])) : x \in Listed})
    /\ chars' = [a \in Accounts |-> IF sessions[a] = None THEN chars[a]
                                    ELSE chars[a] - LogoutRemoves(session[sessions[a]])]
    /\ SwapAddQueue
    /\ UNCHANGED <<ref, sessions, limit, todo, cur, logins, late, used>>

Stopped == step = "stopped" /\ UNCHANGED vars
-----------------------------------------------------------------------------
Network(s) == FindSession(s) \/ PostRequest(s) \/ AddSession(s) \/ Disconnect(s)

Packets(x) == \/ HandleAuthed(x) \/ HandlePlayerLoginOpcode(x) \/ HandlePlayerReconnect(x)
              \/ HandleLogoutRequestOpcode(x)

Switch(x) == \/ UpdateCreated(x) \/ SwitchSocket(x) \/ StaysConnected(x) \/ GoesOffline(x)
             \/ StaysOffline(x) \/ RemoveSession(x)

Loop == \/ BeginUpdateSessions \/ AddSession_ \/ AllAdded \/ AllUpdated \/ EndPackets
        \/ EndTick \/ (\E a \in Accounts : BeginUpdate(a)) \/ (\E x \in Sockets : Switch(x))

Next == \/ \E s \in Sockets : Network(s) \/ Packets(s) \/ KickPlayer(s)
        \/ Loop \/ HandlePlayerLogin \/ SetPlayerLimit \/ CleanupsBeforeStop \/ Stopped

Spec == Init /\ [][Next]_vars

\* The world thread runs; time passes, so a session whose end is due again and
\* again ends.
FairSpec == Spec /\ WF_vars(Loop) /\ \A x \in Sockets : SF_vars(RemoveSession(x))
-----------------------------------------------------------------------------
(* Properties.                                                             *)

InLine == {waiting[i] : i \in DOMAIN waiting}

Active == Listed \ InLine

TypeOK ==
    /\ conn \in [Sockets -> {"away", "found", "open", "closed"}]
    /\ ref \in [Sockets -> Sockets \cup {None}]
    /\ session \in [Sockets -> SessionObjects \cup {None}]
    /\ addQueue \in Seq(Sockets) /\ adding \in Seq(Sockets) /\ waiting \in Seq(Sockets)
    /\ sessions \in [Accounts -> Sockets \cup {None}]
    /\ limit \in Limits
    /\ step \in {"between", "add", "pick", "packets", "switch", "callbacks", "stopped"}
    /\ todo \in SUBSET Accounts /\ cur \in Accounts \cup {None}
    /\ logins \in Seq(Accounts) /\ chars \in [Accounts -> Nat] /\ late \in SUBSET Accounts
    /\ stopping \in BOOLEAN
    /\ used \in [{"logins", "kicks", "changes"} -> Nat]

\* The player queue holds sessions of the list that know they are queued, each
\* once, and nothing it refers to has been deleted; and a session that believes
\* it is queued is in the queue, or its client would wait for ever.
QueueConsistent ==
    /\ \A x \in InLine : x \in Listed /\ session[x] # None /\ session[x].inQueue
    /\ \A i, j \in DOMAIN waiting : waiting[i] = waiting[j] => i = j
    /\ ~stopping => \A x \in Sockets : session[x] # None /\ session[x].inQueue => x \in InLine

\* Until the limit is changed nobody waits while there is room: whoever leaves,
\* in whatever state, lets the next one in.
QueueMeansFull == used.changes = 0 /\ waiting # <<>> => Cardinality(Active) >= limit

\* The limit holds for players: until it is changed, not more than it allows are
\* ever admitted, however arrivals, departures and the queue interleave.
PlayersWithinLimit ==
    used.changes = 0 /\ limit > 0 /\ ~stopping =>
        Cardinality({x \in Active : AccountOf[x] \notin Staff}) <= limit

\* The sessions implement the promise of the player queue, changes of the limit
\* included.
Admission == INSTANCE SessionAdmission WITH
    Sessions <- Sockets,
    Exempt <- {x \in Sockets : AccountOf[x] \in Staff},
    inside <- Active,
    line <- waiting

ImplementsAdmission == Admission!Spec

\* A character is in the world exactly while a listed session has it: none is
\* left without a session, none is logged out twice, through disconnects,
\* reconnections, kicks and timeouts, with any number of logins under way.  Only a
\* login answered too late breaks this.
CharactersOwned ==
    \A a \in Accounts \ late :
        chars[a] = IF sessions[a] # None /\ session[sessions[a]].player # "none" THEN 1 ELSE 0

\* The halt logs every character out, and with that saves it, unless its login was
\* answered too late.
StopLogsOut == step = "stopped" => \A a \in Accounts \ late : chars[a] = 0

\* A session whose client is gone is reused by a reconnection or ends.
DisconnectedSessionsEnd ==
    \A x \in Sockets :
        x \in Listed /\ Closed(session[x].sock)
            ~> step = "stopped" \/ x \notin Listed \/ ~Closed(session[x].sock)

\* "Maximum number of players in the world. Excluding Mods, GM's and Admins":
\* who waits, waits for players only.
OnlyPlayersFillTheRealm ==
    waiting # <<>> => Cardinality({x \in Active : AccountOf[x] \notin Staff}) >= limit

\* "Since each account can only have one online character at any given time".
OneCharacter == \A a \in Accounts : chars[a] <= 1
=============================================================================
