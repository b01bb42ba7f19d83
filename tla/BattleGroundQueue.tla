------------------------- MODULE BattleGroundQueue --------------------------
(* The queue for battlegrounds: game/BattleGround/BattleGroundQueue.cpp,     *)
(* the packet handlers of BattleGroundHandler.cpp and the part of            *)
(* BattleGround.cpp that counts the players.  Two threads share nothing but  *)
(* two lists of messages: the queue thread (BattleGroundQueue::Update) has   *)
(* the groups that wait and the list of battlegrounds with free places, the  *)
(* world thread has the players and the battlegrounds.                       *)
(*                                                                           *)
(* One type of battleground and one level bracket, with the default          *)
(* configuration (mangosd.conf.dist.in): no premade groups, invitation type  *)
(* 0.  playersInside < maxPlayers in every entry of the list: an entry is    *)
(* filled from a template or after somebody has left.                        *)
EXTENDS Integers, FiniteSets, SequencesExt

CONSTANTS
    Players,
    TeamOf,        \* the side of each player
    Parties,       \* the groups that join together; {p} is a player alone
    MinPerTeam,    \* GetMinPlayersPerTeam
    MaxPerTeam,    \* GetMaxPlayersPerTeam
    CountMod,      \* uint32 narrowed: the invited counts are taken modulo CountMod
    MaxJoins,      \* bound: groups that join, for each side
    MaxLogouts,    \* bound: players who log out
    MaxPending     \* bound: messages under way

Teams == {"alliance", "horde"}
Requests == MaxJoins["alliance"] + MaxJoins["horde"]
\* A battleground is only made for a group of each side that has not been invited yet.
Instances == 1..Min({MaxJoins[t] : t \in Teams})

ASSUME QueueAssumption ==
    /\ TeamOf \in [Players -> Teams] /\ Parties \subseteq (SUBSET Players) \ {{}}
    /\ \A party \in Parties : \A p, q \in party : TeamOf[p] = TeamOf[q]
    /\ IsFiniteSet(Players)
    /\ MaxPerTeam \in Nat /\ MinPerTeam \in 1..MaxPerTeam
    /\ CountMod \in Nat /\ CountMod > MaxPerTeam + 1
    /\ MaxJoins \in [Teams -> Nat] /\ MaxLogouts \in Nat /\ MaxPending \in Nat \ {0}

VARIABLES
    toQueue,       \* BattleGroundQueue::m_messager
    toWorld,       \* World::m_messager, what concerns battlegrounds
    batch,         \* messages left of those the queue thread has taken
    tick,          \* messages left of those the world thread has taken
    scheduled,     \* whether m_queueUpdateScheduler has the bracket
    queued,        \* m_queuedPlayers: the number of the player's group, or 0
    groups,        \* m_queuedGroups[bracket], the normal lists of both sides
    free,          \* m_bgFreeSlotQueue
    clock,         \* when groups were invited last
    lastInstance,  \* MapManager::GenerateInstanceId
    player,        \* the Player objects
    bgs,           \* m_battleGrounds
    used,          \* how much of the bounds is used
    astray,        \* players of whom the queue may have a group they do not know of (history)
    skewed         \* battlegrounds a count of which may have been overwritten or
                   \* kept for nobody (history)

queueVars == <<batch, scheduled, queued, groups, free, clock, lastInstance>>
worldVars == <<player, bgs>>
history == <<used, astray, skewed>>
vars == <<toQueue, toWorld, tick, queueVars, worldVars, history>>

-----------------------------------------------------------------------------
(* Types                                                                   *)

\* reg: GetBattleGroundQueueIndex finds the queue; invited: invitedToInstance;
\* at: m_bgData.bgInstanceID; going: IsBeingTeleportedFar; timers: the
\* BgQueueRemoveEvents in m_events.
NoPlayer == [online |-> FALSE, reg |-> FALSE, invited |-> 0, at |-> 0, going |-> FALSE, timers |-> <<>>]

\* listed: m_hasBgFreeSlotQueue; offline: m_offlineQueue.
NoBg == [status |-> "none", invited |-> [t \in Teams |-> 0], listed |-> FALSE, players |-> {}, offline |-> {}]

Exists(i) == i \in Instances /\ bgs[i].status # "none"
Ended(i) == bgs[i].status = "leave"

GroupOf(p) == CHOOSE g \in ToSet(groups[TeamOf[p]]) : g.id = queued[p]

\* The place of a group in its list.
PlaceOf(g) == CHOOSE n \in DOMAIN groups[g.team] : groups[g.team][n] = g

\* isInvitedToBgInstanceGuid of the player's group, 0 when there is no group.
CalledTo(p) == IF queued[p] = 0 THEN 0 ELSE GroupOf(p).inst

\* GetFreeSlotInstance: the first entry of the battleground, 0 when there is none.
GetFreeSlotInstance(i) == SelectInSeq(free, LAMBDA e : e.inst = i)

Less(count) == (count - 1) % CountMod
More(count, n) == (count + n) % CountMod

GetFreeSlotsForTeam(e, t) == IF e.invited[t] < MaxPerTeam THEN MaxPerTeam - e.invited[t] ELSE 0

Invited(inst, t, count) == [type |-> "invited", inst |-> inst, team |-> t, count |-> count]

-----------------------------------------------------------------------------
(* The queue thread: what a message does                                   *)

\* Messager::Execute takes all that is there when it has done what it took
\* before; an update that is due comes first.
Take(type) ==
    /\ tick = 0 /\ UNCHANGED tick
    /\ toQueue # <<>> /\ Head(toQueue).type = type
    /\ toQueue' = Tail(toQueue)
    /\ \/ batch > 0 /\ batch' = batch - 1
       \/ batch = 0 /\ ~scheduled /\ batch' = Len(toQueue) - 1

\* AddGroup, and the answer that registers the players.
AddGroup ==
    /\ Take("join")
    /\ LET m == Head(toQueue)
       IN /\ groups' = [groups EXCEPT ![m.team] = Append(@,
                [id |-> m.id, team |-> m.team, players |-> m.party, inst |-> 0, due |-> 0])]
          /\ queued' = [p \in Players |-> IF p \in m.party THEN m.id ELSE queued[p]]
          /\ toWorld' = Append(toWorld, [type |-> "joined", party |-> m.party])
    /\ scheduled' = TRUE
    /\ UNCHANGED <<free, clock, lastInstance, worldVars, history>>

\* Mutant: the group stays when its last player has gone.
RemovePlayerKeepingGroup(p, decreaseInvitedCount, answer) ==
    /\ groups' = [groups EXCEPT ![TeamOf[p]] = [n \in DOMAIN @ |->
           IF @[n].id = queued[p] THEN [@[n] EXCEPT !.players = @ \ {p}] ELSE @[n]]]
    /\ queued' = [queued EXCEPT ![p] = 0]
    /\ toWorld' = toWorld \o answer
    /\ UNCHANGED free

\* Mutant: the place is given back although the player takes it.
RemovePlayerAndPlace(p, decreaseInvitedCount, answer) ==
    LET g == GroupOf(p)
        k == IF g.inst # 0 THEN GetFreeSlotInstance(g.inst) ELSE 0
        count == Less(free[k].invited[g.team])
    IN /\ groups' = [groups EXCEPT ![g.team] = SelectSeq(@, LAMBDA h : h.players # {p})]
       /\ queued' = [queued EXCEPT ![p] = 0]
       /\ free' = IF k = 0 THEN free ELSE [free EXCEPT ![k].invited[g.team] = count]
       /\ toWorld' = toWorld \o (IF k = 0 THEN <<>> ELSE <<Invited(g.inst, g.team, count)>>) \o answer

\* BattleGroundQueueItem::RemovePlayer: the group goes with its last player.
RemovePlayer(p, decreaseInvitedCount, answer) ==
    LET g == GroupOf(p)
        n == PlaceOf(g)
        rest == [g EXCEPT !.players = g.players \ {p}]
        k == IF decreaseInvitedCount /\ g.inst # 0 THEN GetFreeSlotInstance(g.inst) ELSE 0
        count == Less(free[k].invited[g.team])
    IN /\ groups' = [groups EXCEPT ![g.team] = IF rest.players = {} THEN RemoveAt(@, n) ELSE ReplaceAt(@, n, rest)]
       /\ queued' = [queued EXCEPT ![p] = 0]
       /\ free' = IF k = 0 THEN free ELSE [free EXCEPT ![k].invited[g.team] = count]
       /\ toWorld' = toWorld \o (IF k = 0 THEN <<>> ELSE <<Invited(g.inst, g.team, count)>>) \o answer

\* The message of HandleBattlefieldPortOpcode.  The assertion that the
\* battleground is in the list is PortFindsInstance.
Port ==
    /\ Take("answer")
    /\ LET m == Head(toQueue)
           p == m.player
       IN \/ /\ queued[p] = 0 \/ (m.enter /\ CalledTo(p) = 0)
             /\ UNCHANGED <<toWorld, scheduled, queued, groups, free>>
          \/ /\ m.enter /\ CalledTo(p) # 0
             /\ RemovePlayer(p, FALSE, <<[type |-> "port", player |-> p, inst |-> CalledTo(p)]>>)
             /\ UNCHANGED scheduled
          \/ /\ queued[p] # 0 /\ ~m.enter
             /\ RemovePlayer(p, TRUE, <<[type |-> "left", player |-> p]>>)
             /\ scheduled' = TRUE
    /\ UNCHANGED <<clock, lastInstance, worldVars, history>>

\* LogoutPlayer's message: the place is free again, but no update is asked for.
LoggedOut ==
    /\ Take("gone")
    /\ LET p == Head(toQueue).player
       IN IF queued[p] = 0 THEN UNCHANGED <<toWorld, queued, groups, free>> ELSE RemovePlayer(p, TRUE, <<>>)
    /\ UNCHANGED <<scheduled, clock, lastInstance, worldVars, history>>

\* Mutant: the time of the invitation is not compared.
IsPlayerInvitedThere(m) == queued[m.player] # 0 /\ GroupOf(m.player).inst = m.inst

IsPlayerInvited(m) ==
    /\ queued[m.player] # 0
    /\ GroupOf(m.player).inst = m.inst /\ GroupOf(m.player).due = m.due

\* BgQueueRemoveEvent, in the queue.
TimedOut ==
    /\ Take("expire")
    /\ LET m == Head(toQueue)
       IN IF IsPlayerInvited(m)
          THEN /\ RemovePlayer(m.player, TRUE, <<[type |-> "left", player |-> m.player]>>)
               /\ scheduled' = (scheduled \/ m.running)
          ELSE UNCHANGED <<toWorld, scheduled, queued, groups, free>>
    /\ UNCHANGED <<clock, lastInstance, worldVars, history>>

AddBgToFreeSlots ==
    /\ Take("add")
    /\ free' = <<Head(toQueue).entry>> \o free
    /\ UNCHANGED <<toWorld, scheduled, queued, groups, clock, lastInstance, worldVars, history>>

\* Mutant: every entry of the battleground goes.
RemoveAllFromFreeSlots ==
    /\ Take("remove")
    /\ free' = SelectSeq(free, LAMBDA e : e.inst # Head(toQueue).inst)
    /\ UNCHANGED <<toWorld, scheduled, queued, groups, clock, lastInstance, worldVars, history>>

RemoveBgFromFreeSlots ==
    /\ Take("remove")
    /\ LET k == GetFreeSlotInstance(Head(toQueue).inst)
       IN free' = IF k = 0 THEN free ELSE RemoveAt(free, k)
    /\ UNCHANGED <<toWorld, scheduled, queued, groups, clock, lastInstance, worldVars, history>>

\* The message of SetStatus.
StatusChanged ==
    /\ Take("status")
    /\ LET m == Head(toQueue)
           k == GetFreeSlotInstance(m.inst)
       IN free' = IF k = 0 THEN free ELSE [free EXCEPT ![k].status = m.status]
    /\ UNCHANGED <<toWorld, scheduled, queued, groups, clock, lastInstance, worldVars, history>>

\* DecreaseInvitedCount for a player who has left a battleground that is listed.
PlayerLeft ==
    /\ Take("decrease")
    /\ LET m == Head(toQueue)
           k == GetFreeSlotInstance(m.inst)
           count == Less(free[k].invited[m.team])
       IN IF k = 0 THEN UNCHANGED <<free, toWorld>>
          ELSE /\ free' = [free EXCEPT ![k].invited[m.team] = count]
               /\ toWorld' = Append(toWorld, Invited(m.inst, m.team, count))
    /\ UNCHANGED <<scheduled, queued, groups, clock, lastInstance, worldVars, history>>

ScheduleQueueUpdate ==
    /\ Take("schedule")
    /\ scheduled' = TRUE
    /\ UNCHANGED <<toWorld, queued, groups, free, clock, lastInstance, worldVars, history>>

-----------------------------------------------------------------------------
(* The queue thread: BattleGroundQueueItem::Update                         *)

\* The groups of a pool are named by their places in the list.
NoPool == [selected |-> {}, count |-> 0, full |-> FALSE]

\* SelectionPool::AddGroup.
PoolAdd(pool, gs, n, desired) ==
    LET size == Cardinality(gs[n].players)
    IN IF gs[n].inst = 0 /\ pool.count + size <= desired
       THEN [pool EXCEPT !.selected = @ \cup {n}, !.count = @ + size]
       ELSE [pool EXCEPT !.full = pool.count >= desired]

\* FillPlayersToBg, for one side.
Fill(gs, desired) ==
    LET pool[n \in 0..Len(gs)] ==
            IF n = 0 THEN NoPool
            ELSE IF pool[n - 1].full THEN pool[n - 1] ELSE PoolAdd(pool[n - 1], gs, n, desired)
    IN pool[Len(gs)]

\* CheckNormalMatch, for one side.
Match(gs) ==
    LET pool[n \in 0..Len(gs)] ==
            IF n = 0 THEN NoPool
            ELSE IF gs[n].inst # 0 \/ pool[n - 1].count >= MinPerTeam THEN pool[n - 1]
            ELSE PoolAdd(pool[n - 1], gs, n, MaxPerTeam)
    IN pool[Len(gs)]

\* InviteGroupToBg, for the groups selected of one side: who is invited, one after the other, the
\* groups after it, and for each player an invitation and one more invited player.
Guests(gs, selected) ==
    LET guests[n \in 0..Len(gs)] ==
            IF n = 0 THEN <<>>
            ELSE guests[n - 1] \o (IF n \in selected THEN SetToSeq(gs[n].players) ELSE <<>>)
    IN guests[Len(gs)]

Called(gs, selected, inst) == [n \in DOMAIN gs |->
    IF n \in selected THEN [gs[n] EXCEPT !.inst = inst, !.due = clock + 1] ELSE gs[n]]

Invitations(e, t, guests) == [n \in 1..(2 * Len(guests)) |->
    IF n % 2 = 1 THEN [type |-> "invite", player |-> guests[(n + 1) \div 2], inst |-> e.inst, due |-> clock + 1]
                 ELSE Invited(e.inst, t, More(e.invited[t], n \div 2))]

InviteGroups(st, e, pool) ==
    LET guests == [t \in Teams |-> Guests(st.groups[t], pool[t].selected)]
    IN [groups |-> [t \in Teams |-> Called(st.groups[t], pool[t].selected, e.inst)],
        entry |-> [e EXCEPT !.invited = [t \in Teams |-> More(@[t], Len(guests[t]))]],
        out |-> st.out \o Invitations(e, "alliance", guests["alliance"])
                       \o Invitations(e, "horde", guests["horde"])]

\* The loop over the battlegrounds that have free places.
FillEntry(st, k) ==
    LET e == st.free[k]
        pool == [t \in Teams |-> Fill(st.groups[t], GetFreeSlotsForTeam(e, t))]
        done == InviteGroups(st, e, pool)
    IN IF e.status \notin {"join", "progress"} THEN st
       ELSE [groups |-> done.groups, free |-> [st.free EXCEPT ![k] = done.entry], out |-> done.out]

FillAll ==
    LET filled[k \in 0..Len(free)] ==
            IF k = 0 THEN [groups |-> groups, free |-> free, out |-> <<>>]
            ELSE FillEntry(filled[k - 1], k)
    IN filled[Len(free)]

\* The battleground that is made when both sides are strong enough.
NewEntry == [inst |-> lastInstance + 1, status |-> "none", invited |-> [t \in Teams |-> 0]]

NewMatch(st) ==
    LET pool == [t \in Teams |-> Match(st.groups[t])]
        done == InviteGroups(st, NewEntry, pool)
    IN IF \E t \in Teams : pool[t].count < MinPerTeam THEN st
       ELSE [groups |-> done.groups, free |-> <<done.entry>> \o st.free,
             out |-> Append(done.out, [type |-> "create", inst |-> done.entry.inst, invited |-> done.entry.invited])]

\* A battleground that is listed again has two entries, and the older one does not know who
\* has left since: those of which Update fills the older one (history).
FilledTwice == {free[k].inst : k \in
    {n \in DOMAIN free : n # GetFreeSlotInstance(free[n].inst) /\ FillAll.free[n] # free[n]}}

Update ==
    /\ tick = 0 /\ batch = 0 /\ scheduled
    /\ scheduled' = FALSE
    /\ LET st == IF \A t \in Teams : groups[t] = <<>> THEN [groups |-> groups, free |-> free, out |-> <<>>]
                 ELSE NewMatch(FillAll)
       IN /\ groups' = st.groups /\ free' = st.free /\ toWorld' = toWorld \o st.out
          /\ clock' = IF st.groups # groups THEN clock + 1 ELSE clock
          /\ lastInstance' = IF Len(st.free) > Len(free) THEN lastInstance + 1 ELSE lastInstance
    /\ skewed' = skewed \cup FilledTwice
    /\ UNCHANGED <<toQueue, tick, batch, queued, worldVars, used, astray>>

-----------------------------------------------------------------------------
(* The world thread: the clients' packets                                  *)

Under(p, types) ==
    \E m \in ToSet(toQueue) \cup ToSet(toWorld) :
        m.type \in types /\ (IF m.type \in {"join", "joined"} THEN p \in m.party ELSE m.player = p)

\* The rest of World::Update, after the messages.  A player, an event or a
\* battleground acts only while fewer than MaxPending messages wait for the queue;
\* those that wait for the world count as one.
InTick ==
    /\ tick = 0 /\ UNCHANGED tick
    /\ Len(toQueue) + (IF toWorld = <<>> THEN 0 ELSE 1) < MaxPending

Settled == toQueue = <<>> /\ toWorld = <<>> /\ ~scheduled

Use(what, bound) == used[what] < bound /\ used' = [used EXCEPT ![what] = @ + 1]

\* Nothing but the player's own index tells that he is queued, and it is set
\* when the queue has answered.
HandleBattlemasterJoinOpcode(party) ==
    /\ InTick
    /\ \A p \in party : player[p].online /\ ~player[p].going /\ ~player[p].reg
    /\ \E leader \in party : player[leader].at = 0
    /\ LET t == TeamOf[CHOOSE p \in party : TRUE]
       IN /\ Use(t, MaxJoins[t])
          /\ toQueue' = Append(toQueue, [type |-> "join", id |-> used'.alliance + used'.horde, party |-> party, team |-> t])
    /\ astray' = astray \cup {p \in party : queued[p] # 0 \/ Under(p, {"join"})}
    /\ UNCHANGED <<toWorld, queueVars, worldVars, skewed>>

\* enter: the client accepts, as far as it knows with reason, and has no deserter
\* debuff; the acceptance of a deserter is a refusal.  A player inside a battleground
\* is still registered and may send the message too: the queue has no group of his.
\* A client waits for the queue to take an answer before it sends another (a bound
\* on toQueue).
HandleBattlefieldPortOpcode(p, enter) ==
    /\ InTick
    /\ player[p].online /\ ~player[p].going /\ player[p].reg
    /\ LET m == [type |-> "answer", player |-> p, enter |-> enter]
       IN toQueue' = Append(toQueue, m)
    /\ ~Under(p, {"answer"})
    /\ enter => player[p].invited # 0
    /\ UNCHANGED <<toWorld, queueVars, worldVars, history>>

-----------------------------------------------------------------------------
(* The world thread: what the queue's messages do                          *)

\* World::Update begins with the messages that are there; what one thread does
\* in one go the other sees at once.
Deliver(type) ==
    /\ toWorld # <<>> /\ Head(toWorld).type = type
    /\ toWorld' = Tail(toWorld)
    /\ tick' = IF tick > 0 THEN tick - 1 ELSE Len(toWorld) - 1

PlayersRegistered ==
    /\ Deliver("joined")
    /\ player' = [p \in Players |-> IF p \in Head(toWorld).party /\ player[p].online
                                     THEN [player[p] EXCEPT !.reg = TRUE, !.invited = 0] ELSE player[p]]
    /\ UNCHANGED <<toQueue, queueVars, bgs, history>>

\* The invitation, with the event that takes it back.
PlayerInvited ==
    /\ Deliver("invite")
    /\ LET m == Head(toWorld)
       IN player' = IF ~player[m.player].online THEN player
                    ELSE [player EXCEPT ![m.player].invited = IF player[m.player].reg THEN m.inst ELSE @,
                                        ![m.player].timers = Append(@, [inst |-> m.inst, due |-> m.due])]
    /\ UNCHANGED <<toQueue, queueVars, bgs, history>>

SetInvitedCount ==
    /\ Deliver("invited")
    /\ LET m == Head(toWorld)
       IN bgs' = IF Exists(m.inst) THEN [bgs EXCEPT ![m.inst].invited[m.team] = m.count] ELSE bgs
    /\ UNCHANGED <<toQueue, queueVars, player, history>>

StatusMessage(i, status) == [type |-> "status", inst |-> i, status |-> status]

\* CreateNewBattleGround and StartBattleGround; the two messages about the status,
\* STATUS_WAIT_QUEUE and at once STATUS_WAIT_JOIN, are one.  Reset leaves
\* m_hasBgFreeSlotQueue false although the queue has the entry.
CreateNewBattleGround ==
    /\ Deliver("create")
    /\ LET m == Head(toWorld)
       IN /\ bgs' = [bgs EXCEPT ![m.inst] = [NoBg EXCEPT !.status = "join", !.invited = m.invited]]
          /\ toQueue' = Append(toQueue, StatusMessage(m.inst, "join"))
    /\ UNCHANGED <<queueVars, player, history>>

\* The player is sent to the battleground, or nowhere when it is gone.  He is in no
\* other: with one type of battleground his group and his place exclude each other,
\* so that RemovePlayerAtLeave for the one he jumps from has nothing to do.
SendToBattleGround ==
    /\ Deliver("port")
    /\ LET m == Head(toWorld)
       IN player' = IF ~player[m.player].online THEN player
                    ELSE [player EXCEPT ![m.player].at = m.inst, ![m.player].going = Exists(m.inst)]
    /\ UNCHANGED <<toQueue, queueVars, bgs, history>>

\* Mutant: the player's index keeps the queue.
PlayerLeftInvitation ==
    /\ Deliver("left")
    /\ player' = [player EXCEPT ![Head(toWorld).player].invited = 0]
    /\ UNCHANGED <<toQueue, queueVars, bgs, history>>

PlayerLeftQueue ==
    /\ Deliver("left")
    /\ LET p == Head(toWorld).player
       IN player' = IF ~player[p].online THEN player
                    ELSE [player EXCEPT ![p].reg = FALSE, ![p].invited = 0]
    /\ UNCHANGED <<toQueue, queueVars, bgs, history>>

\* BgQueueRemoveEvent: the event asks the world thread, which asks the queue.
RemoveEvent(p) ==
    /\ InTick
    /\ player[p].online /\ ~player[p].going /\ player[p].timers # <<>>
    /\ LET e == Head(player[p].timers)
       IN toWorld' = Append(toWorld, [type |-> "expired", player |-> p, inst |-> e.inst, due |-> e.due])
    /\ player' = [player EXCEPT ![p].timers = Tail(@)]
    /\ UNCHANGED <<toQueue, queueVars, bgs, history>>

RemoveEventExecute ==
    /\ Deliver("expired")
    /\ LET m == Head(toWorld)
       IN toQueue' = IF ~player[m.player].online \/ ~player[m.player].reg THEN toQueue
                     ELSE Append(toQueue, [type |-> "expire", player |-> m.player, inst |-> m.inst, due |-> m.due,
                                           running |-> Exists(m.inst) /\ ~Ended(m.inst)])
    /\ UNCHANGED <<queueVars, player, bgs, history>>

-----------------------------------------------------------------------------
(* The world thread: battlegrounds                                         *)

\* HandleMoveWorldportAckOpcode: AddPlayer for those who were invited.
Arrive(p) ==
    /\ InTick
    /\ player[p].going
    /\ player' = [player EXCEPT ![p].going = FALSE, ![p].at = IF Exists(@) THEN @ ELSE 0]
    /\ LET i == player[p].at
       IN bgs' = IF Exists(i) /\ player[p].invited = i THEN [bgs EXCEPT ![i].players = @ \cup {p}] ELSE bgs
    /\ UNCHANGED <<toQueue, toWorld, queueVars, history>>

\* The place is free again: the battleground is listed, unless it says that it
\* is, and the queue is told to look for somebody.
Vacate(p, i) ==
    LET t == TeamOf[p]
        bg == [bgs[i] EXCEPT !.players = @ \ {p}, !.offline = @ \ {p}, !.invited[t] = Less(@)]
        entry == [inst |-> i, status |-> bg.status, invited |-> bg.invited]
    IN /\ bgs' = [bgs EXCEPT ![i] = [bg EXCEPT !.listed = @ \/ ~Ended(i)]]
       /\ toQueue' = toQueue \o
            IF Ended(i) THEN <<>>
            ELSE <<IF bg.listed THEN [type |-> "decrease", inst |-> i, team |-> t] ELSE [type |-> "add", entry |-> entry],
                   [type |-> "schedule"]>>
       /\ skewed' = IF (bg.listed \/ Settled) /\ ~(Ended(i) /\ \E q \in Players : CalledTo(q) = i) THEN skewed
                    ELSE skewed \cup {i}
       /\ UNCHANGED <<used, astray>>

\* RemovePlayerAtLeave: a player leaves, or is thrown out two minutes after the
\* end, or has been offline for five minutes.
RemovePlayerAtLeave(p, i) ==
    /\ InTick
    /\ p \in bgs[i].players /\ ~player[p].going
    /\ player[p].online \/ p \in bgs[i].offline \/ Ended(i)
    /\ Vacate(p, i)
    /\ player' = IF ~player[p].online THEN player
                 ELSE [player EXCEPT ![p].reg = FALSE, ![p].invited = 0, ![p].at = 0]
    /\ UNCHANGED <<toWorld, queueVars>>

\* BattleGround::Update, which runs while somebody is inside.
StartMatch(i) ==
    /\ InTick
    /\ bgs[i].status = "join" /\ bgs[i].players # {}
    /\ bgs' = [bgs EXCEPT ![i].status = "progress"]
    /\ toQueue' = Append(toQueue, StatusMessage(i, "progress"))
    /\ UNCHANGED <<toWorld, queueVars, player, history>>

Unlist(i) == IF bgs[i].listed THEN <<[type |-> "remove", inst |-> i]>> ELSE <<>>

EndBattleGround(i) ==
    /\ InTick
    /\ bgs[i].status = "progress" /\ bgs[i].players # {}
    /\ bgs' = [bgs EXCEPT ![i].listed = FALSE, ![i].status = "leave"]
    /\ toQueue' = Append(toQueue \o Unlist(i), StatusMessage(i, "leave"))
    /\ skewed' = IF bgs[i].listed /\ (~Settled \/ \E q \in Players : CalledTo(q) = i) THEN skewed \cup {i}
                 ELSE skewed
    /\ UNCHANGED <<toWorld, queueVars, player, used, astray>>

\* BattleGroundMap::Update posts the removal to BattleGroundMgr, whose Update follows
\* that of the maps in the same World::Update: no message to the world, no login and
\* no arrival comes in between, so posting, removal and the destructor are one step.
RemoveBattleGround(i) ==
    /\ InTick
    /\ Exists(i) /\ bgs[i].players = {} /\ \A t \in Teams : bgs[i].invited[t] = 0
    /\ bgs' = [bgs EXCEPT ![i] = NoBg]
    /\ toQueue' = toQueue \o Unlist(i)
    /\ skewed' = skewed \ {i}
    /\ UNCHANGED <<toWorld, queueVars, player, used, astray>>

-----------------------------------------------------------------------------
(* The world thread: players come and go                                   *)

\* LogoutPlayer: a transfer under way ends, EventPlayerLoggedOut for a player
\* inside, a message to the queue when he is registered.
LogoutPlayer(p) ==
    /\ InTick
    /\ player[p].online
    /\ Use("logouts", MaxLogouts)
    /\ LET i == player[p].at
       IN bgs' = IF Exists(i) THEN [bgs EXCEPT ![i].players = @ \cup {p}, ![i].offline = @ \cup {p}] ELSE bgs
    /\ player' = [player EXCEPT ![p] = [NoPlayer EXCEPT !.at = player[p].at]]
    /\ toQueue' = IF player[p].reg THEN Append(toQueue, [type |-> "gone", player |-> p]) ELSE toQueue
    /\ astray' = IF Under(p, {"join", "joined"}) THEN astray \cup {p} ELSE astray
    /\ skewed' = skewed
          \cup {m.inst : m \in {x \in ToSet(toWorld) : x.type = "port" /\ x.player = p}}
          \cup (IF [type |-> "answer", player |-> p, enter |-> TRUE] \in ToSet(toQueue) THEN {CalledTo(p)} ELSE {})
    /\ UNCHANGED <<toWorld, queueVars>>

\* LoadFromDB of a player who was in a battleground, after what was under way for
\* him has been done (a login takes several database queries).
LoadFromDB(p) ==
    /\ InTick
    /\ ~player[p].online /\ player[p].at # 0
    /\ ~Under(p, {"join", "joined", "answer", "gone", "expire", "invite", "port", "left", "expired"})
    /\ LET i == player[p].at
           there == Exists(i) /\ p \in bgs[i].players
       IN \/ /\ there /\ ~Ended(i)
             /\ bgs' = [bgs EXCEPT ![i].offline = @ \ {p}]
             /\ player' = [player EXCEPT ![p] = [@ EXCEPT !.online = TRUE, !.reg = TRUE, !.invited = i]]
             /\ UNCHANGED <<toQueue, history>>
          \/ /\ there /\ Ended(i)
             /\ Vacate(p, i)
             /\ player' = [player EXCEPT ![p] = [NoPlayer EXCEPT !.online = TRUE]]
          \/ /\ ~there
             /\ player' = [player EXCEPT ![p] = [NoPlayer EXCEPT !.online = TRUE]]
             /\ UNCHANGED <<toQueue, bgs, history>>
    /\ UNCHANGED <<toWorld, queueVars>>

-----------------------------------------------------------------------------
(* The specification                                                       *)

Init ==
    /\ toQueue = <<>> /\ toWorld = <<>> /\ tick = 0 /\ batch = 0 /\ scheduled = FALSE
    /\ queued = [p \in Players |-> 0] /\ groups = [t \in Teams |-> <<>>] /\ free = <<>>
    /\ clock = 0 /\ lastInstance = 0
    /\ player = [p \in Players |-> [NoPlayer EXCEPT !.online = TRUE]]
    /\ bgs = [i \in Instances |-> NoBg]
    /\ used = [alliance |-> 0, horde |-> 0, logouts |-> 0] /\ astray = {} /\ skewed = {}

QueueThread ==
    \/ AddGroup \/ Port \/ LoggedOut \/ TimedOut \/ AddBgToFreeSlots \/ RemoveBgFromFreeSlots
    \/ StatusChanged \/ PlayerLeft \/ ScheduleQueueUpdate \/ Update

WorldMessages ==
    \/ PlayersRegistered \/ PlayerInvited \/ SetInvitedCount \/ CreateNewBattleGround \/ SendToBattleGround
    \/ PlayerLeftQueue \/ RemoveEventExecute

Next ==
    \/ QueueThread \/ WorldMessages
    \/ \E party \in Parties : HandleBattlemasterJoinOpcode(party)
    \/ \E p \in Players :
        \/ \E enter \in BOOLEAN : HandleBattlefieldPortOpcode(p, enter)
        \/ RemoveEvent(p) \/ Arrive(p) \/ LogoutPlayer(p) \/ LoadFromDB(p)
        \/ \E i \in Instances : RemovePlayerAtLeave(p, i)
    \/ \E i \in Instances : StartMatch(i) \/ EndBattleGround(i) \/ RemoveBattleGround(i)

Spec == Init /\ [][Next]_vars

-----------------------------------------------------------------------------
(* Properties                                                              *)

Statuses == {"none", "join", "progress", "leave"}
Counts == [Teams -> 0..(CountMod - 1)]
Entries == [inst : Instances, status : Statuses, invited : Counts]
Groups == [id : 1..Requests, team : Teams, players : (SUBSET Players) \ {{}}, inst : Instances \cup {0}, due : 0..Requests]
Events == [inst : Instances, due : 1..Requests]

\* The state has the form the declarations of the code give it; who is in
\* m_queuedPlayers is in the group it names, and that group is in the list of his side.
TypeOK ==
    /\ tick \in 0..Len(toWorld) /\ batch \in 0..Len(toQueue) /\ scheduled \in BOOLEAN
    /\ clock \in 0..Requests /\ lastInstance \in Instances \cup {0}
    /\ \A n \in DOMAIN free : free[n] \in Entries
    /\ \A t \in Teams : \A n \in DOMAIN groups[t] : groups[t][n] \in Groups /\ groups[t][n].team = t
    /\ \A p \in Players : queued[p] # 0 =>
        \E g \in ToSet(groups[TeamOf[p]]) : g.id = queued[p] /\ p \in g.players
    /\ \A p \in Players : \A n \in DOMAIN player[p].timers : player[p].timers[n] \in Events
    /\ bgs \in [Instances -> [status : Statuses, invited : Counts, listed : BOOLEAN,
                             players : SUBSET Players, offline : SUBSET Players]]

\* MANGOS_ASSERT(bgInQueue) in the message of HandleBattlefieldPortOpcode: the
\* battleground a player was invited to is in m_bgFreeSlotQueue, also when it has
\* ended, or has been listed and taken off the list again, since.
PortFindsInstance == \A p \in Players : CalledTo(p) # 0 => GetFreeSlotInstance(CalledTo(p)) # 0

Placed(p, i) == p \in bgs[i].players \/ (player[p].going /\ player[p].at = i)

\* The two threads count the same, and what they count is true: once every message
\* has been handled, the invited players of a side are those inside, those on
\* the way and those who have an invitation.  Leaving a listed battleground is
\* "synched again after", whatever is under way; the property exempts the
\* battlegrounds of skewed and the sides of the players of astray.
CountsAgree ==
    Settled => \A i \in Instances \ skewed, t \in Teams : Exists(i) /\ t \notin {TeamOf[p] : p \in astray} =>
        /\ bgs[i].invited[t] = Cardinality({p \in Players : TeamOf[p] = t /\ (Placed(p, i) \/ CalledTo(p) = i)})
        /\ ~Ended(i) => free[GetFreeSlotInstance(i)].invited[t] = bgs[i].invited[t]

\* The world thread's index and the queue agree once every message has been
\* handled: who is queued has a record that says so, with the same invitation, and who has
\* such a record is queued, in a battleground, or was on his way to one that has been deleted:
\* HandleMoveWorldportAckOpcode sends him home and leaves the index as it is.  The exception are the
\* players of astray, who asked again, or logged out, before the answer to a request.
PlayersAgree ==
    Settled => \A p \in Players \ astray :
        LET r == player[p]
        IN /\ queued[p] # 0 => r.online /\ r.reg /\ r.at = 0 /\ r.invited = CalledTo(p)
           /\ r.online /\ r.reg => queued[p] # 0 \/ r.at # 0 \/ (r.invited # 0 /\ ~Exists(r.invited))

\* An invitation is taken back only by its own event (case 4 in the comment of
\* BgQueueRemoveEvent::Execute): a player who has left the queue, joined it again
\* and been invited to the same battleground again keeps the new invitation while
\* the time to answer it runs.  The exception are the players of astray: one who is in two groups
\* has two invitations, and the event of either may end the one the queue knows of.
WithdrawnOnlyWhenDue ==
    [][\A p \in Players \ astray : queued[p] # 0 /\ queued'[p] = 0 /\ TimedOut =>
            player[p].timers = <<>> /\ ~Under(p, {"invite"})]_vars

=============================================================================
