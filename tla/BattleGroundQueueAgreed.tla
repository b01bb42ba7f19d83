----------------------- MODULE BattleGroundQueueAgreed -----------------------
(***************************************************************************)
(* BattleGroundQueue: the world's index and the queue agree.  Agreed       *)
(* relates, for each player but those of astray, his record, his group,    *)
(* what he has told the queue and what he will be told: Core says how,     *)
(* Said and News what is under way.  A step either leaves a player as he   *)
(* was (Still, Bystander) or is about him, and then one of the lemmas      *)
(* CoreXxx says what becomes of him.                                       *)
(***************************************************************************)
EXTENDS BattleGroundQueueProofs

\* What the player will be told: that he is registered, invited, taken out, or sent to his battleground.
About(m, p) == (m.type = "joined" /\ p \in m.party) \/ (m.type \in {"invite", "port", "left"} /\ m.player = p)

Rank(type) == IF type = "joined" THEN 1 ELSE IF type = "invite" THEN 2 ELSE 3

\* He is told each of these once, and in this order.
InTurn(w, p) == \A a, b \in 1..Len(w) : a < b /\ About(w[a], p) /\ About(w[b], p) => Rank(w[a].type) < Rank(w[b].type)

News(w, p) == {m \in ToWorld : About(m, p) /\ \E n \in 1..Len(w) : w[n] = m}

SameNews(w, w1, p) == News(w1, p) = News(w, p) /\ (InTurn(w, p) => InTurn(w1, p))

LEMMA NewsAre ==
    ASSUME NEW w, NEW p, NEW m \in News(w, p)
    PROVE  /\ m.type \in {"joined", "invite", "port", "left"}
           /\ m.type = "invite" => m \in Invites
           /\ m.type = "port" => m \in Ports
BY WorldKinds DEF News, About

\* Nothing of this is added.
LEMMA NewsSilent ==
    ASSUME NEW p, NEW w \in Seq(ToWorld), NEW out \in Seq(ToWorld), \A k \in 1..Len(out) : ~About(out[k], p),
           NEW w1, w1 = w \o out
    PROVE  SameNews(w, w1, p)
<1>1. w1 \in Seq(ToWorld) /\ Joined(w1, w, out)
  BY Joining
<1>2. \A n \in 1..Len(w1) : About(w1[n], p) => n \in 1..Len(w) /\ w1[n] = w[n]
  BY <1>1 DEF Joined
<1>3. \A n \in 1..Len(w) : n \in 1..Len(w1) /\ w1[n] = w[n]
  BY <1>1 DEF Joined
<1>4. News(w1, p) = News(w, p)
  BY <1>2, <1>3 DEF News
<1>5. InTurn(w, p) => InTurn(w1, p)
  BY <1>2 DEF InTurn
<1> QED
  BY <1>4, <1>5 DEF SameNews

\* One message for him is added, of a higher rank than those there are.
Outranks(m, w, p) == \A x \in News(w, p) : Rank(x.type) < Rank(m.type)
OnlyOne(out, j, m, p) ==
    /\ j \in 1..Len(out) /\ out[j] = m /\ About(m, p)
    /\ \A k \in 1..Len(out) : About(out[k], p) => k = j
Hears(w, w1, m, p) == InTurn(w1, p) /\ News(w1, p) = News(w, p) \cup {m}

LEMMA NewsTold ==
    ASSUME NEW p, NEW w \in Seq(ToWorld), InTurn(w, p), NEW out \in Seq(ToWorld), NEW j, NEW x, OnlyOne(out, j, x, p),
           Outranks(x, w, p), NEW w1, w1 = w \o out
    PROVE  Hears(w, w1, x, p)
<1>0. /\ j \in 1..Len(out) /\ out[j] = x /\ About(x, p) /\ \A k \in 1..Len(out) : About(out[k], p) => k = j
      /\ \A m \in News(w, p) : Rank(m.type) < Rank(x.type)
  BY DEF OnlyOne, Outranks
<1>1. w1 \in Seq(ToWorld) /\ Joined(w1, w, out)
  BY Joining
<1>2. /\ Len(w) \in Nat /\ x \in ToWorld /\ \A n \in 1..Len(w) : w[n] \in ToWorld /\ n \in 1..Len(w1) /\ w1[n] = w[n]
      /\ Len(w) + j \in 1..Len(w1) /\ w1[Len(w) + j] = x
  BY <1>0, <1>1 DEF Joined
<1>3. ASSUME NEW n \in 1..Len(w1), About(w1[n], p) PROVE (n \in 1..Len(w) /\ w1[n] = w[n]) \/ (n = Len(w) + j /\ w1[n] = x)
  <2>1. n \in 1..Len(w) \/ (n - Len(w) \in 1..Len(out) /\ w1[n] = out[n - Len(w)])
    BY <1>1 DEF Joined
  <2>2. CASE n - Len(w) \in 1..Len(out) /\ w1[n] = out[n - Len(w)]
    <3>1. n - Len(w) = j
      BY <1>0, <1>3, <2>2
    <3> QED
      BY <1>0, <1>2, <2>2, <3>1
  <2> QED
    BY <1>2, <2>1, <2>2
<1>4. \A n \in 1..Len(w) : About(w[n], p) => Rank(w[n].type) < Rank(x.type)
  BY <1>0, <1>2 DEF News
<1>5. InTurn(w1, p)
  <2> SUFFICES ASSUME NEW a \in 1..Len(w1), NEW b \in 1..Len(w1), a < b, About(w1[a], p), About(w1[b], p)
               PROVE Rank(w1[a].type) < Rank(w1[b].type)
    BY DEF InTurn
  <2>1. CASE b \in 1..Len(w) /\ w1[b] = w[b]
    <3>1. a \in 1..Len(w) /\ w1[a] = w[a]
      BY <1>2, <2>1
    <3> QED
      BY <2>1, <3>1 DEF InTurn
  <2>2. CASE b = Len(w) + j /\ w1[b] = x
    <3>1. a \in 1..Len(w) /\ w1[a] = w[a]
      BY <1>0, <1>2, <1>3, <2>2
    <3> QED
      BY <1>4, <2>2, <3>1
  <2> QED
    BY <1>3, <2>1, <2>2
<1>6. News(w1, p) = News(w, p) \cup {x}
  BY <1>0, <1>2, <1>3 DEF News
<1> QED
  BY <1>5, <1>6 DEF Hears

\* The first message is handled.
LEMMA NewsHeard ==
    ASSUME NEW p, NEW w \in Seq(ToWorld), w # <<>>, InTurn(w, p)
    PROVE  /\ InTurn(Tail(w), p)
           /\ About(Head(w), p) => /\ Head(w) \in News(w, p) /\ News(Tail(w), p) = News(w, p) \ {Head(w)}
                                   /\ \A m \in News(w, p) \ {Head(w)} : Rank(Head(w).type) < Rank(m.type)
           /\ ~About(Head(w), p) => SameNews(w, Tail(w), p)
<1> DEFINE h == Head(w)
           w1 == Tail(w)
<1>1. /\ Len(w) \in Nat /\ 1 \in 1..Len(w) /\ w[1] = h /\ h \in ToWorld /\ Len(w1) = Len(w) - 1
      /\ \A k \in 1..Len(w1) : k + 1 \in 1..Len(w) /\ w1[k] = w[k + 1]
  BY TailIs
<1>2. \A n \in 1..Len(w) : n = 1 \/ (n - 1 \in 1..Len(w1) /\ w1[n - 1] = w[n])
  BY <1>1
<1> HIDE DEF h, w1
<1>3. InTurn(w1, p)
  BY <1>1 DEF InTurn
<1>4. \A m \in News(w, p) : m = h \/ m \in News(w1, p)
  BY <1>1, <1>2 DEF News
<1>5. \A m \in News(w1, p) : m \in News(w, p)
  BY <1>1 DEF News
<1>6. ASSUME About(h, p) PROVE h \in News(w, p) /\ \A m \in News(w1, p) : Rank(h.type) < Rank(m.type)
  <2>1. h \in News(w, p)
    BY <1>1, <1>6 DEF News
  <2>2. ASSUME NEW m \in News(w1, p) PROVE Rank(h.type) < Rank(m.type)
    <3>1. PICK n \in 1..Len(w1) : w1[n] = m /\ About(m, p)
      BY <2>2 DEF News
    <3> QED
      BY <1>1, <1>6, <3>1 DEF InTurn
  <2> QED
    BY <2>1, <2>2
<1>7. About(h, p) => News(w1, p) = News(w, p) \ {h}
  <2> SUFFICES ASSUME About(h, p) PROVE h \notin News(w1, p)
    BY <1>4, <1>5
  <2>1. Rank(h.type) \in Nat
    BY DEF Rank
  <2> QED
    BY <1>6, <2>1
<1>8. ~About(h, p) => News(w1, p) = News(w, p)
  BY <1>4, <1>5 DEF News
<1> QED
  BY <1>3, <1>4, <1>6, <1>7, <1>8 DEF h, w1, SameNews

\* What the player has told the queue, or has been asked for him.
IsAnswer(m, p) == m.type = "answer" /\ m.player = p
IsGone(m, p) == m.type = "gone" /\ m.player = p

Asked(q, p) == \E n \in 1..Len(q) : Asks(q[n], p)
Quit(q, p) == \E n \in 1..Len(q) : IsGone(q[n], p)
Answering(q, p) == \E n \in 1..Len(q) : IsAnswer(q[n], p)
Accepting(q, p) == \E n \in 1..Len(q) : IsAnswer(q[n], p) /\ q[n].enter

\* An answer is one to an earlier request.
Earlier(q, p) == \A a, b \in 1..Len(q) : IsAnswer(q[a], p) /\ Asks(q[b], p) => a < b

\* Nothing is added to what he has told the queue; his logout stays.
Quieter(q, q1, p) ==
    /\ Asked(q1, p) => Asked(q, p)
    /\ Quit(q1, p) <=> Quit(q, p)
    /\ Answering(q1, p) => Answering(q, p)
    /\ Accepting(q1, p) => Accepting(q, p)
    /\ Earlier(q, p) => Earlier(q1, p)

LEMMA QuieterSelf ==
    ASSUME NEW p, NEW q
    PROVE  Quieter(q, q, p)
BY DEF Quieter

LEMMA QuieterTail ==
    ASSUME NEW p, NEW q \in Seq(ToQueue), q # <<>>
    PROVE  /\ Asked(Tail(q), p) => Asked(q, p)
           /\ Quit(Tail(q), p) => Quit(q, p)
           /\ Answering(Tail(q), p) => Answering(q, p)
           /\ Accepting(Tail(q), p) => Accepting(q, p)
           /\ Earlier(q, p) => Earlier(Tail(q), p)
           /\ ~IsGone(Head(q), p) => Quieter(q, Tail(q), p)
<1> DEFINE h == Head(q)
           q1 == Tail(q)
<1>1. /\ Len(q) \in Nat /\ 1 \in 1..Len(q) /\ q[1] = h /\ Len(q1) = Len(q) - 1
      /\ \A k \in 1..Len(q1) : k + 1 \in 1..Len(q) /\ q1[k] = q[k + 1]
  BY TailIs
<1>2. \A n \in 1..Len(q) : n = 1 \/ (n - 1 \in 1..Len(q1) /\ q1[n - 1] = q[n])
  BY <1>1
<1> HIDE DEF h, q1
<1>3. /\ Asked(q1, p) => Asked(q, p)
      /\ Quit(q1, p) => Quit(q, p)
      /\ Answering(q1, p) => Answering(q, p)
      /\ Accepting(q1, p) => Accepting(q, p)
  BY <1>1 DEF Asked, Quit, Answering, Accepting
<1>4. Earlier(q, p) => Earlier(q1, p)
  BY <1>1 DEF Earlier
<1>5. ~IsGone(h, p) => (Quit(q, p) => Quit(q1, p))
  BY <1>1, <1>2 DEF Quit
<1> QED
  BY <1>3, <1>4, <1>5 DEF Quieter, h, q1

LEMMA QuieterPlain ==
    ASSUME NEW p, NEW q, NEW q1, Plain(q, q1)
    PROVE  Quieter(q, q1, p)
<1>1. /\ Len(q) \in Nat /\ Len(q1) \in Nat
      /\ \A n \in 1..Len(q) : n \in 1..Len(q1) /\ q1[n] = q[n]
      /\ \A n \in 1..Len(q1) : (n \in 1..Len(q) /\ q1[n] = q[n])
                               \/ (~Asks(q1[n], p) /\ ~IsGone(q1[n], p) /\ ~IsAnswer(q1[n], p))
  BY DEF Plain, Asks, IsJoin, IsGone, IsAnswer
<1>2. /\ Asked(q1, p) => Asked(q, p)
      /\ Quit(q1, p) <=> Quit(q, p)
      /\ Answering(q1, p) => Answering(q, p)
      /\ Accepting(q1, p) => Accepting(q, p)
  BY <1>1 DEF Asked, Quit, Answering, Accepting
<1>3. Earlier(q, p) => Earlier(q1, p)
  BY <1>1 DEF Earlier
<1> QED
  BY <1>2, <1>3 DEF Quieter

\* One message for the queue is added.
LEMMA OneTold ==
    ASSUME NEW p, NEW q \in Seq(ToQueue), NEW m \in ToQueue, NEW q1, q1 = Append(q, m)
    PROVE  /\ Asked(q1, p) <=> Asked(q, p) \/ Asks(m, p)
           /\ Quit(q1, p) <=> Quit(q, p) \/ IsGone(m, p)
           /\ Answering(q1, p) <=> Answering(q, p) \/ IsAnswer(m, p)
           /\ Accepting(q1, p) <=> Accepting(q, p) \/ (IsAnswer(m, p) /\ m.enter)
           /\ Earlier(q, p) /\ (IsAnswer(m, p) => ~Asked(q, p)) => Earlier(q1, p)
<1>1. /\ Len(q) \in Nat /\ Len(q1) = Len(q) + 1 /\ \A n \in 1..Len(q) : n \in 1..Len(q1) /\ q1[n] = q[n]
      /\ q1[Len(q) + 1] = m /\ Len(q) + 1 \in 1..Len(q1)
  OBVIOUS
<1>2. \A n \in 1..Len(q1) : (n \in 1..Len(q) /\ q1[n] = q[n]) \/ (n = Len(q) + 1 /\ q1[n] = m)
  BY <1>1
<1>3. /\ Asked(q1, p) <=> Asked(q, p) \/ Asks(m, p)
      /\ Quit(q1, p) <=> Quit(q, p) \/ IsGone(m, p)
  BY <1>1, <1>2 DEF Asked, Quit
<1>4. /\ Answering(q1, p) <=> Answering(q, p) \/ IsAnswer(m, p)
      /\ Accepting(q1, p) <=> Accepting(q, p) \/ (IsAnswer(m, p) /\ m.enter)
  BY <1>1, <1>2 DEF Answering, Accepting
<1>5. ASSUME Earlier(q, p), IsAnswer(m, p) => ~Asked(q, p) PROVE Earlier(q1, p)
  <2> SUFFICES ASSUME NEW a \in 1..Len(q1), NEW b \in 1..Len(q1), IsAnswer(q1[a], p), Asks(q1[b], p) PROVE a < b
    BY DEF Earlier
  <2>1. CASE a \in 1..Len(q) /\ q1[a] = q[a]
    BY <1>1, <1>2, <1>5, <2>1 DEF Earlier
  <2>2. CASE a = Len(q) + 1 /\ q1[a] = m
    BY <1>2, <1>5, <2>2 DEF Asked, IsAnswer, Asks, IsJoin
  <2> QED
    BY <1>2, <2>1, <2>2
<1> QED
  BY <1>3, <1>4, <1>5

-----------------------------------------------------------------------------
\* What the player's record says, what the queue has of him, and what either is about to be told.

\* isInvitedToBgInstanceGuid of the group a player is in: CalledTo.
InstIn(p, qd, gs) == IF qd[p] = 0 THEN 0 ELSE (CHOOSE g \in ToSet(gs[TeamOf[p]]) : g.id = qd[p]).inst

\* Battlegrounds the world thread has made or will not make any more; those that are there.
Past(w, last) == {i \in Instances : i <= last /\ \A n \in 1..Len(w) : w[n].type = "create" => w[n].inst # i}
There(bs) == {i \in Instances : bs[i].status # "none"}

\* r: the record; c: the battleground the group is invited to; news: what the player will be told;
\* past, there: battlegrounds.  A player in the queue has been told so, and has the same invitation,
\* or the message is on its way.
OnQueue(c, said, r, news, past) ==
    /\ "asked" \notin said /\ r.at = 0
    /\ \A m \in news : m.type \in {"joined", "invite"}
    /\ r.reg <=> (\A m \in news : m.type # "joined")
    /\ \A m \in news : m.type = "invite" => c = m.inst /\ (r.reg => r.invited = 0)
    /\ (\A m \in news : m.type # "invite") => IF r.reg THEN r.invited = c ELSE c = 0

\* A player not in the queue has no such record, or is in a battleground, or will be sent there, or
\* will be told that he is out, or was on his way to a battleground that has been deleted.
OffQueue(said, r, news, past, there) ==
    /\ \A m \in news : m.type # "joined"
    /\ "asked" \in said => ~r.reg
    /\ ~r.reg => r.at = 0 /\ news = {}
    /\ r.at # 0 => r.invited = r.at /\ r.at \in past /\ news = {}
    /\ \A m \in news : m.type = "port" => r.invited = m.inst /\ m.inst \in past /\ news = {m}
    /\ r.reg /\ r.at = 0 => \/ \E m \in news : m.type \in {"left", "port"}
                            \/ news = {} /\ r.invited \in past /\ r.invited \notin there

\* What he tells the queue.
Said(q, p) == {word \in {"asked", "quit", "answer", "accept"} :
    (word = "asked" /\ Asked(q, p)) \/ (word = "quit" /\ Quit(q, p)) \/ (word = "answer" /\ Answering(q, p))
    \/ (word = "accept" /\ Accepting(q, p))}

\* n: the number of the group, or 0; said: what he tells the queue.
Core(n, c, said, r, news, past, there) ==
    /\ r.going => r.online /\ r.at # 0
    /\ "quit" \in said => ~r.online
    /\ ~r.online => "asked" \notin said /\ \A m \in news : m.type # "joined"
    /\ ~r.online /\ n # 0 => "quit" \in said /\ \A m \in news : m.type = "invite" /\ m.inst = c
    /\ r.online /\ n # 0 => /\ OnQueue(c, said, r, news, past)
                            /\ "answer" \in said => r.reg
                            /\ "accept" \in said => c # 0 /\ r.invited = c /\ c \in past
    /\ r.online /\ n = 0 => OffQueue(said, r, news, past, there)

CoreOf(p) == Core(queued[p], InstIn(p, queued, groups), Said(toQueue, p), player[p], News(toWorld, p),
                  Past(toWorld, lastInstance), There(bgs))

\* Between the updates of the world thread, the battleground a player is invited to has been made.
Sent(r, tk, past) == tk = 0 /\ r.online /\ r.reg /\ r.invited # 0 => r.invited \in past

Accord(p) ==
    /\ InTurn(toWorld, p) /\ Earlier(toQueue, p)
    /\ CoreOf(p)
    /\ \A i \in Instances : p \in bgs[i].players => player[p].at = i
    /\ player[p].invited <= lastInstance
    /\ Sent(player[p], tick, Past(toWorld, lastInstance))

Batched == tick = 0 \/ tick = Len(toWorld)
Asking == \A n \in 1..Len(toWorld) : toWorld[n].type = "invite" => toWorld[n].inst <= lastInstance

Agreed == Batched /\ Asking /\ \A p \in Players \ astray : Accord(p)

-----------------------------------------------------------------------------
\* A player whom a step does not concern.

SameRecord(r, r1) == r1.online = r.online /\ r1.reg = r.reg /\ r1.invited = r.invited /\ r1.at = r.at /\ r1.going = r.going

SaysLess(said, said1) == said1 \subseteq said /\ ("quit" \in said => "quit" \in said1)

LEMMA SaidLess ==
    ASSUME NEW p, NEW q, NEW q1, Quieter(q, q1, p)
    PROVE  SaysLess(Said(q, p), Said(q1, p))
BY DEF Quieter, Said, SaysLess

LEMMA CoreStill ==
    ASSUME NEW n, NEW c, NEW said, NEW r, NEW news, NEW past, NEW there, NEW said1, NEW r1, NEW past1, NEW there1,
           Core(n, c, said, r, news, past, there), SaysLess(said, said1), SameRecord(r, r1),
           past \subseteq past1, past \cap there1 \subseteq there
    PROVE  Core(n, c, said1, r1, news, past1, there1)
<1>0. said1 \subseteq said /\ ("quit" \in said => "quit" \in said1)
  BY DEF SaysLess
<1>1. r1.online = r.online /\ r1.reg = r.reg /\ r1.invited = r.invited /\ r1.at = r.at /\ r1.going = r.going
  BY DEF SameRecord
<1>2. OnQueue(c, said, r, news, past) => OnQueue(c, said1, r1, news, past1)
  BY <1>0, <1>1 DEF OnQueue
<1>3. OffQueue(said, r, news, past, there) => OffQueue(said1, r1, news, past1, there1)
  BY <1>0, <1>1 DEF OffQueue
<1> QED
  BY <1>0, <1>1, <1>2, <1>3 DEF Core

\* The instances that are there or will be; the messages of a batch.
Course ==
    /\ lastInstance \in Nat /\ lastInstance' \in Nat /\ lastInstance <= lastInstance'
    /\ Past(toWorld, lastInstance) \subseteq Past(toWorld', lastInstance')
    /\ Past(toWorld, lastInstance) \cap There(bgs') \subseteq There(bgs)
    /\ tick' = 0 => tick = 0 \/ toWorld' = <<>>

Still(p) ==
    /\ SameNews(toWorld, toWorld', p) /\ Quieter(toQueue, toQueue', p)
    /\ queued'[p] = queued[p] /\ InstIn(p, queued', groups') = InstIn(p, queued, groups)
    /\ SameRecord(player[p], player'[p])
    /\ \A i \in Instances : p \in bgs'[i].players => p \in bgs[i].players

\* Once all messages are handled everything the world thread knows of has been made.
LEMMA SentOn ==
    ASSUME Course, NEW r, NEW r1, r1.invited = r.invited \/ r1.invited = 0, r1.online /\ r1.reg /\ r1.invited # 0 => r.online /\ r.reg,
           r.invited \in Instances \cup {0}, r.invited <= lastInstance,
           Sent(r, tick, Past(toWorld, lastInstance))
    PROVE  Sent(r1, tick', Past(toWorld', lastInstance')) /\ r1.invited <= lastInstance'
<1>1. Past(toWorld, lastInstance) \subseteq Past(toWorld', lastInstance') /\ (tick' = 0 => tick = 0 \/ toWorld' = <<>>)
      /\ lastInstance \in Nat /\ lastInstance' \in Nat /\ lastInstance <= lastInstance'
  BY DEF Course
<1>2. \A i \in Instances : i \in Nat /\ i # 0
  BY InstancesAre
<1>3. r1.invited <= lastInstance'
  BY <1>1, <1>2
<1>4. toWorld' = <<>> => Past(toWorld', lastInstance') = {i \in Instances : i <= lastInstance'}
  BY DEF Past
<1>5. Sent(r1, tick', Past(toWorld', lastInstance'))
  BY <1>1, <1>3, <1>4 DEF Sent
<1> QED
  BY <1>3, <1>5

LEMMA Bystander ==
    ASSUME Basis, Course, NEW p \in Players, Still(p), Accord(p)
    PROVE  Accord(p)'
<1>1. /\ News(toWorld', p) = News(toWorld, p) /\ (InTurn(toWorld, p) => InTurn(toWorld', p))
      /\ Quieter(toQueue, toQueue', p)
      /\ queued'[p] = queued[p] /\ InstIn(p, queued', groups') = InstIn(p, queued, groups)
      /\ SameRecord(player[p], player'[p])
      /\ \A i \in Instances : p \in bgs'[i].players => p \in bgs[i].players
  BY DEF Still, SameNews
<1>2. /\ InTurn(toWorld, p) /\ Earlier(toQueue, p) /\ CoreOf(p)
      /\ \A i \in Instances : p \in bgs[i].players => player[p].at = i
      /\ player[p].invited <= lastInstance
      /\ Sent(player[p], tick, Past(toWorld, lastInstance))
  BY DEF Accord
<1>3. InTurn(toWorld', p) /\ Earlier(toQueue', p)
  BY <1>1, <1>2 DEF Quieter
<1>4. CoreOf(p)'
  <2>1. /\ Past(toWorld, lastInstance) \subseteq Past(toWorld', lastInstance')
        /\ Past(toWorld, lastInstance) \cap There(bgs') \subseteq There(bgs)
    BY DEF Course
  <2> DEFINE n == queued[p]
             c == InstIn(p, queued, groups)
             said == Said(toQueue, p)
             r == player[p]
             news == News(toWorld, p)
             past == Past(toWorld, lastInstance)
             there == There(bgs)
             said1 == Said(toQueue', p)
             r1 == player'[p]
             past1 == Past(toWorld', lastInstance')
             there1 == There(bgs')
  <2>2. SaysLess(said, said1)
    BY <1>1, SaidLess
  <2>3. Core(n, c, said, r, news, past, there)
    BY <1>2 DEF CoreOf
  <2>4. SameRecord(r, r1) /\ past \subseteq past1 /\ past \cap there1 \subseteq there
    BY <1>1, <2>1
  <2> HIDE DEF n, c, said, r, news, past, there, said1, r1, past1, there1
  <2>5. Core(n, c, said1, r1, news, past1, there1)
    BY <2>2, <2>3, <2>4, CoreStill
  <2> QED
    BY <1>1, <2>5 DEF CoreOf, n, c, said1, r1, news, past1, there1
<1>5. \A i \in Instances : p \in bgs'[i].players => player'[p].at = i
  BY <1>1, <1>2 DEF SameRecord
<1>6. Sent(player'[p], tick', Past(toWorld', lastInstance')) /\ player'[p].invited <= lastInstance'
  <2>1. player[p].invited \in Instances \cup {0}
    BY PlayersAre, RecordIs
  <2> QED
    BY <1>1, <1>2, <2>1, SentOn DEF SameRecord
<1> QED
  BY <1>3, <1>4, <1>5, <1>6 DEF Accord

-----------------------------------------------------------------------------
\* The queue thread: what it tells the world, and the groups the players are in.

LEMMA PastTells ==
    ASSUME NEW w \in Seq(ToWorld), NEW w1, Tells(w, w1), NEW last
    PROVE  /\ Past(w1, last) = Past(w, last)
           /\ \A n \in 1..Len(w1) : w1[n].type = "invite" => n \in 1..Len(w) /\ w1[n] = w[n]
<1>1. PICK out \in Seq(ToWorld) : w1 = w \o out /\ \A k \in 1..Len(out) : Harmless(out[k])
  BY DEF Tells
<1>2. Joined(w1, w, out)
  BY <1>1, Joining
<1>3. \A n \in 1..Len(w1) : w1[n].type \in {"create", "invite"} => n \in 1..Len(w) /\ w1[n] = w[n]
  BY <1>1, <1>2 DEF Joined, Harmless
<1>4. \A n \in 1..Len(w) : n \in 1..Len(w1) /\ w1[n] = w[n]
  BY <1>2 DEF Joined
<1>5. Past(w1, last) = Past(w, last)
  BY <1>3, <1>4 DEF Past
<1> QED
  BY <1>3, <1>5

LEMMA QueueCourse ==
    ASSUME Basis, Agreed, NEW type, Take(type), UNCHANGED <<lastInstance, bgs>>, Tells(toWorld, toWorld')
    PROVE  Course /\ Batched' /\ Asking'
<1>1. toWorld \in Seq(ToWorld) /\ lastInstance \in Nat
  BY DEF Basis, Typed
<1>2. /\ Past(toWorld', lastInstance) = Past(toWorld, lastInstance)
      /\ \A n \in 1..Len(toWorld') : toWorld'[n].type = "invite" => n \in 1..Len(toWorld) /\ toWorld'[n] = toWorld[n]
  BY <1>1, PastTells
<1>3. tick = 0 /\ tick' = 0
  BY Taken
<1>4. Asking'
  BY <1>2 DEF Agreed, Asking
<1>5. Course
  BY <1>1, <1>2, <1>3 DEF Course
<1> QED
  BY <1>3, <1>4, <1>5 DEF Batched

GroupAt(p, qd, gs, n) == n \in 1..Len(gs[TeamOf[p]]) /\ gs[TeamOf[p]][n].id = qd[p] /\ qd[p] # 0

LEMMA InstIs ==
    ASSUME NEW p \in Players, NEW q, NEW gs, Sides(gs), Distinct(q, gs), NEW qd, NEW n, GroupAt(p, qd, gs, n)
    PROVE  InstIn(p, qd, gs) = gs[TeamOf[p]][n].inst
<1> DEFINE t == TeamOf[p]
           mine == gs[t]
           id == qd[p]
<1>1. t \in Teams
  BY QueueAssumption
<1>2. mine \in Seq(SideGroups(t)) /\ \A a, b \in 1..Len(mine) : mine[a].id = mine[b].id => a = b
  BY <1>1 DEF Sides, Distinct
<1>3. n \in 1..Len(mine) /\ mine[n].id = id
  BY DEF GroupAt
<1>4. InstIn(p, qd, gs) = (CHOOSE g \in ToSet(mine) : g.id = id).inst
  BY DEF InstIn, GroupAt
<1> HIDE DEF mine, id
<1>5. ToSet(mine) = {mine[a] : a \in 1..Len(mine)}
  BY <1>2 DEF ToSet
<1>6. mine[n] \in ToSet(mine) /\ \A g \in ToSet(mine) : g.id = id => g = mine[n]
  BY <1>2, <1>3, <1>5
<1>7. (CHOOSE g \in ToSet(mine) : g.id = id) = mine[n]
  BY <1>3, <1>6
<1> QED
  BY <1>4, <1>7 DEF mine

LEMMA CalledToIs == \A p \in Players : CalledTo(p) = InstIn(p, queued, groups)
BY DEF CalledTo, GroupOf, InstIn

LEMMA InstFewer ==
    ASSUME NEW p \in Players, NEW q, NEW gs, Sides(gs), Distinct(q, gs), NEW q1, NEW hs, Sides(hs), Distinct(q1, hs),
           Fewer(gs, hs), NEW qd, NEW qd1, Enlisted(qd1, hs), qd1[p] = qd[p]
    PROVE  InstIn(p, qd1, hs) = InstIn(p, qd, gs)
<1> DEFINE t == TeamOf[p]
<1>1. t \in Teams
  BY QueueAssumption
<1>2. CASE qd[p] = 0
  BY <1>2 DEF InstIn
<1>3. CASE qd[p] # 0
  <2>1. PICK n \in 1..Len(hs[t]) : hs[t][n].id = qd1[p]
    BY <1>3 DEF Enlisted
  <2>2. PICK f \in [1..Len(hs[t]) -> 1..Len(gs[t])] : \A k \in 1..Len(hs[t]) : Part(hs[t][k], gs[t][f[k]])
    BY <1>1 DEF Fewer
  <2>3. f[n] \in 1..Len(gs[t]) /\ gs[t][f[n]].id = qd[p] /\ gs[t][f[n]].inst = hs[t][n].inst
    BY <2>1, <2>2 DEF Part
  <2>4. GroupAt(p, qd1, hs, n) /\ GroupAt(p, qd, gs, f[n])
    BY <1>3, <2>1, <2>3 DEF GroupAt
  <2>5. InstIn(p, qd1, hs) = hs[t][n].inst /\ InstIn(p, qd, gs) = gs[t][f[n]].inst
    BY <2>4, InstIs
  <2> QED
    BY <2>3, <2>5
<1> QED
  BY <1>2, <1>3

LEMMA InstKept ==
    ASSUME Basis, Basis', Fewer(groups, groups') \/ groups' = groups, NEW p \in Players, queued'[p] = queued[p]
    PROVE  InstIn(p, queued', groups') = InstIn(p, queued, groups)
<1>1. CASE groups' = groups
  BY <1>1 DEF InstIn
<1>2. CASE Fewer(groups, groups')
  <2>1. Sides(groups) /\ Distinct(toQueue, groups) /\ Enlisted(queued, groups)
    BY DEF Basis, Typed, Crowd, Numbered, Sides
  <2>2. Sides(groups') /\ Distinct(toQueue', groups') /\ Enlisted(queued', groups')
    BY DEF Basis, Typed, Crowd, Numbered, Sides
  <2> QED
    BY <1>2, <2>1, <2>2, InstFewer
<1> QED
  BY <1>1, <1>2

\* Those whom the message is not about.
LEMMA ReportsOthers ==
    ASSUME NEW w \in Seq(ToWorld), NEW w1, NEW answer \in Seq(ToWorld), Reports(w, w1, answer), NEW p,
           \A k \in 1..Len(answer) : ~About(answer[k], p)
    PROVE  SameNews(w, w1, p)
<1>1. PICK news \in Seq(ToWorld) : w1 = w \o (news \o answer) /\ \A k \in 1..Len(news) : news[k].type = "invited"
  BY DEF Reports
<1> DEFINE out == news \o answer
<1>2. out \in Seq(ToWorld) /\ Joined(out, news, answer)
  BY Joining
<1>3. w1 = w \o out
  BY <1>1
<1> HIDE DEF out
<1>4. \A k \in 1..Len(out) : ~About(out[k], p)
  BY <1>1, <1>2 DEF Joined, About
<1> QED
  BY <1>2, <1>3, <1>4, NewsSilent

\* The one whom the answer is for.
LEMMA ReportsTo ==
    ASSUME NEW w \in Seq(ToWorld), NEW w1, NEW m \in ToWorld, Reports(w, w1, <<m>>), NEW p, InTurn(w, p), About(m, p),
           Outranks(m, w, p)
    PROVE  Hears(w, w1, m, p)
<1> DEFINE answer == <<m>>
<1>1. answer \in Seq(ToWorld) /\ Len(answer) = 1 /\ answer[1] = m
  OBVIOUS
<1>2. PICK news \in Seq(ToWorld) : w1 = w \o (news \o answer) /\ \A k \in 1..Len(news) : news[k].type = "invited"
  BY DEF Reports
<1> HIDE DEF answer
<1> DEFINE out == news \o answer
           j == Len(news) + 1
<1>3. out \in Seq(ToWorld) /\ Joined(out, news, answer)
  BY <1>1, Joining
<1>4. w1 = w \o out
  BY <1>2
<1> HIDE DEF out
<1>5. j \in 1..Len(out) /\ out[j] = m
  BY <1>1, <1>3 DEF Joined
<1>6. \A k \in 1..Len(out) : About(out[k], p) => k = j
  <2>1. \A k \in 1..Len(out) : (k \in 1..Len(news) /\ out[k] = news[k]) \/ k - Len(news) \in 1..1
    BY <1>1, <1>3 DEF Joined
  <2>2. Len(news) \in Nat
    OBVIOUS
  <2> QED
    BY <1>2, <2>1, <2>2 DEF About
<1> HIDE DEF j
<1>7. OnlyOne(out, j, m, p)
  BY <1>5, <1>6 DEF OnlyOne
<1> QED
  BY <1>3, <1>4, <1>7, NewsTold

-----------------------------------------------------------------------------
\* What is to be shown of a player who is concerned.
LEMMA CoreNext ==
    ASSUME NEW p, NEW n, NEW c, NEW said, NEW r, NEW news, NEW past, NEW there, Core(n, c, said, r, news, past, there),
           queued'[p] = n, InstIn(p, queued', groups') = c, SaysLess(said, Said(toQueue', p)), SameRecord(r, player'[p]),
           News(toWorld', p) = news, past \subseteq Past(toWorld', lastInstance'), past \cap There(bgs') \subseteq there
    PROVE  CoreOf(p)'
<1> DEFINE said1 == Said(toQueue', p)
           r1 == player'[p]
           past1 == Past(toWorld', lastInstance')
           there1 == There(bgs')
<1>1. SaysLess(said, said1) /\ SameRecord(r, r1) /\ past \subseteq past1 /\ past \cap there1 \subseteq there
  OBVIOUS
<1> HIDE DEF said1, r1, past1, there1
<1>2. Core(n, c, said1, r1, news, past1, there1)
  BY <1>1, CoreStill
<1>3. Core(queued'[p], InstIn(p, queued', groups'), said1, r1, News(toWorld', p), past1, there1)
  BY <1>2
<1> QED
  BY <1>3 DEF CoreOf, said1, r1, past1, there1

-----------------------------------------------------------------------------
\* The queue thread takes a message: the players whom it is not about, and what holds of the one it is about.

LEMMA QueueStill ==
    ASSUME Basis, Course, NEW type, Take(type), UNCHANGED <<player, bgs>>, NEW p \in Players, Accord(p),
           queued'[p] = queued[p], InstIn(p, queued', groups') = InstIn(p, queued, groups),
           SameNews(toWorld, toWorld', p), ~IsGone(Head(toQueue), p)
    PROVE  Accord(p)'
<1>1. toQueue \in Seq(ToQueue) /\ toQueue # <<>> /\ toQueue' = Tail(toQueue)
  BY Taken
<1>2. Quieter(toQueue, toQueue', p)
  BY <1>1, QuieterTail
<1>4. Still(p)
  BY <1>2 DEF Still, SameRecord
<1> QED
  BY <1>4, Bystander

LEMMA QueueActor ==
    ASSUME Basis, Course, NEW type, Take(type), UNCHANGED <<player, bgs>>, NEW p \in Players, Accord(p),
           InTurn(toWorld', p), CoreOf(p)'
    PROVE  Accord(p)'
<1>1. toQueue \in Seq(ToQueue) /\ toQueue # <<>> /\ toQueue' = Tail(toQueue)
  BY Taken
<1>2. /\ Earlier(toQueue, p)
      /\ \A i \in Instances : p \in bgs[i].players => player[p].at = i
      /\ player[p].invited <= lastInstance
      /\ Sent(player[p], tick, Past(toWorld, lastInstance))
  BY DEF Accord
<1>3. Earlier(toQueue', p)
  BY <1>1, <1>2, QuieterTail
<1>4. player[p].invited \in Instances \cup {0}
  BY PlayersAre, RecordIs
<1>5. Sent(player[p], tick', Past(toWorld', lastInstance')) /\ player[p].invited <= lastInstance'
  BY <1>2, <1>4, SentOn
<1> QED
  BY <1>2, <1>3, <1>5 DEF Accord

\* The group of a player who asked: he was not in the queue, and has no other news.
LEMMA CoreAdded ==
    ASSUME NEW n, NEW c, NEW said, NEW r, NEW news, NEW past, NEW there, Core(n, c, said, r, news, past, there),
           n = 0, "asked" \in said,
           NEW id, id # 0, NEW m, m.type = "joined", NEW news1, news1 = news \cup {m}, NEW said1, said1 \subseteq said,
           "asked" \notin said1, "answer" \notin said1, "accept" \notin said1
    PROVE  Core(id, 0, said1, r, news1, past, there) /\ news = {}
<1>1. r.online /\ OffQueue(said, r, news, past, there) /\ (r.going => r.at # 0) /\ "quit" \notin said
  BY DEF Core
<1>2. ~r.reg /\ r.at = 0 /\ news = {}
  BY <1>1 DEF OffQueue
<1>3. OnQueue(0, said1, r, news1, past)
  BY <1>2 DEF OnQueue
<1> QED
  BY <1>1, <1>2, <1>3 DEF Core

\* He takes the place he is invited to.
LEMMA CoreEntered ==
    ASSUME NEW n, NEW c, NEW said, NEW r, NEW news, NEW past, NEW there, Core(n, c, said, r, news, past, there),
           n # 0, "accept" \in said, "answer" \in said, c # 0,
           NEW m, m.type = "port", m.inst = c, NEW news1, news1 = news \cup {m}, NEW said1, said1 \subseteq said
    PROVE  Core(0, 0, said1, r, news1, past, there) /\ \A x \in news : x.type \in {"joined", "invite"}
<1>1. CASE r.online
  <2>1. OnQueue(c, said, r, news, past) /\ r.invited = c /\ c \in past /\ r.reg
    BY <1>1 DEF Core
  <2>2. news = {} /\ "asked" \notin said /\ r.at = 0
    BY <2>1 DEF OnQueue
  <2>3. OffQueue(said1, r, news1, past, there)
    BY <2>1, <2>2 DEF OffQueue
  <2> QED
    BY <1>1, <2>2, <2>3 DEF Core
<1>2. CASE ~r.online
  BY <1>2 DEF Core
<1> QED
  BY <1>1, <1>2

\* He leaves the queue, or is taken out: he has been told of everything but an invitation, at most.
LEMMA CoreLeft ==
    ASSUME NEW n, NEW c, NEW said, NEW r, NEW news, NEW past, NEW there, Core(n, c, said, r, news, past, there),
           n # 0, r.online => r.reg, NEW m, m.type = "left", NEW news1, news1 = news \cup {m}, NEW said1, said1 \subseteq said
    PROVE  Core(0, 0, said1, r, news1, past, there) /\ \A x \in news : x.type \in {"joined", "invite"}
<1>1. CASE r.online
  <2>1. OnQueue(c, said, r, news, past) /\ r.reg
    BY <1>1 DEF Core
  <2>2. (\A x \in news : x.type = "invite") /\ "asked" \notin said /\ r.at = 0
    BY <2>1 DEF OnQueue
  <2>3. OffQueue(said1, r, news1, past, there)
    BY <2>1, <2>2 DEF OffQueue
  <2> QED
    BY <1>1, <2>2, <2>3 DEF Core
<1>2. CASE ~r.online
  BY <1>2 DEF Core
<1> QED
  BY <1>1, <1>2

\* The queue learns that he has logged out.
LEMMA CoreGone ==
    ASSUME NEW n, NEW c, NEW said, NEW r, NEW news, NEW past, NEW there, Core(n, c, said, r, news, past, there),
           "quit" \in said, NEW said1, said1 \subseteq said
    PROVE  Core(0, 0, said1, r, news, past, there)
BY DEF Core

LEMMA HearsOne ==
    ASSUME NEW w \in Seq(ToWorld), NEW m \in ToWorld, NEW p, NEW w1, w1 = Append(w, m)
    PROVE  /\ ~About(m, p) => SameNews(w, w1, p)
           /\ About(m, p) /\ InTurn(w, p) /\ Outranks(m, w, p) => Hears(w, w1, m, p)
<1> DEFINE out == <<m>>
           j == 1
<1>1. out \in Seq(ToWorld) /\ Len(out) = 1 /\ out[1] = m /\ w1 = w \o out
  BY AppendedOne
<1> HIDE DEF out
<1>2. \A k \in 1..Len(out) : k = j /\ out[k] = m
  BY <1>1
<1>3. j \in 1..Len(out)
  BY <1>1
<1> HIDE DEF j
<1>4. ASSUME ~About(m, p) PROVE SameNews(w, w1, p)
  <2>1. \A k \in 1..Len(out) : ~About(out[k], p)
    BY <1>2, <1>4
  <2> QED
    BY <1>1, <2>1, NewsSilent
<1>5. ASSUME About(m, p), InTurn(w, p), Outranks(m, w, p) PROVE Hears(w, w1, m, p)
  <2>1. OnlyOne(out, j, m, p)
    BY <1>2, <1>3, <1>5 DEF OnlyOne
  <2> QED
    BY <1>1, <1>5, <2>1, NewsTold
<1> QED
  BY <1>4, <1>5

LEMMA AgreedTaken ==
    ASSUME Basis, Agreed, NEW type, Take(type), UNCHANGED <<lastInstance, bgs, astray>>, Tells(toWorld, toWorld'),
           \A p \in Players \ astray : Accord(p)'
    PROVE  Agreed'
BY QueueCourse DEF Agreed

AddsGroup(gs, t, g, hs) ==
    t \in Teams /\ g \in SideGroups(t) /\ hs = [gs EXCEPT ![t] = Append(@, g)] /\ Sides(gs) /\ Sides(hs)

\* The group that is added is the player's.
LEMMA InstAdded ==
    ASSUME NEW gs, NEW t, NEW g, NEW hs, AddsGroup(gs, t, g, hs), NEW q, Distinct(q, gs), NEW q1, Distinct(q1, hs), NEW qd, Enlisted(qd, gs), NEW qd1,
           NEW p \in Players
    PROVE  /\ qd1[p] = g.id /\ g.id # 0 /\ TeamOf[p] = t => InstIn(p, qd1, hs) = g.inst
           /\ qd1[p] = qd[p] => InstIn(p, qd1, hs) = InstIn(p, qd, gs)
<1>0. t \in Teams /\ g \in SideGroups(t) /\ hs = [gs EXCEPT ![t] = Append(@, g)] /\ Sides(gs) /\ Sides(hs)
  BY DEF AddsGroup
<1>1. gs \in [Teams -> Seq(Groups)] /\ gs[t] \in Seq(SideGroups(t)) /\ TeamOf[p] \in Teams
  BY <1>0, QueueAssumption DEF Sides
<1>2. hs[t] = Append(gs[t], g) /\ \A s \in Teams : s # t => hs[s] = gs[s]
  BY <1>0, <1>1
<1>3. /\ Len(gs[t]) \in Nat /\ Len(hs[t]) = Len(gs[t]) + 1 /\ Len(gs[t]) + 1 \in 1..Len(hs[t])
      /\ hs[t][Len(gs[t]) + 1] = g /\ \A n \in 1..Len(gs[t]) : n \in 1..Len(hs[t]) /\ hs[t][n] = gs[t][n]
  BY <1>0, <1>1, <1>2
<1>4. ASSUME qd1[p] = g.id, g.id # 0, TeamOf[p] = t PROVE InstIn(p, qd1, hs) = g.inst
  <2> DEFINE n == Len(gs[t]) + 1
  <2>1. GroupAt(p, qd1, hs, n) /\ hs[TeamOf[p]][n] = g
    BY <1>3, <1>4 DEF GroupAt
  <2> HIDE DEF n
  <2>2. InstIn(p, qd1, hs) = hs[TeamOf[p]][n].inst
    BY <1>0, <2>1, InstIs
  <2> QED
    BY <2>1, <2>2
<1>5. ASSUME qd1[p] = qd[p] PROVE InstIn(p, qd1, hs) = InstIn(p, qd, gs)
  <2>1. CASE qd[p] = 0
    BY <1>5, <2>1 DEF InstIn
  <2>2. CASE qd[p] # 0
    <3>1. PICK n \in 1..Len(gs[TeamOf[p]]) : gs[TeamOf[p]][n].id = qd[p]
      BY <2>2 DEF Enlisted
    <3>2. n \in 1..Len(hs[TeamOf[p]]) /\ hs[TeamOf[p]][n] = gs[TeamOf[p]][n]
      BY <1>1, <1>2, <1>3, <3>1
    <3>3. GroupAt(p, qd1, hs, n) /\ GroupAt(p, qd, gs, n)
      BY <1>5, <2>2, <3>1, <3>2 DEF GroupAt
    <3>4. InstIn(p, qd1, hs) = hs[TeamOf[p]][n].inst
      <4>1. GroupAt(p, qd1, hs, n) /\ Sides(hs) /\ Distinct(q1, hs)
        BY <1>0, <3>3
      <4> QED
        BY ONLY p \in Players, <4>1, InstIs
    <3>5. InstIn(p, qd, gs) = gs[TeamOf[p]][n].inst
      <4>1. GroupAt(p, qd, gs, n) /\ Sides(gs) /\ Distinct(q, gs)
        BY <1>0, <3>3
      <4> QED
        BY ONLY p \in Players, <4>1, InstIs
    <3> QED
      BY <3>2, <3>4, <3>5
  <2> QED
    BY <2>1, <2>2
<1> QED
  BY <1>4, <1>5

\* The player for whom the group is added has asked once.
LEMMA AskedOnce ==
    ASSUME Basis, NEW p, AsksOnce(p, toQueue, queued), NEW type, Take(type), Asks(Head(toQueue), p), Earlier(toQueue, p)
    PROVE  /\ queued[p] = 0 /\ Asked(toQueue, p) /\ ~Asked(Tail(toQueue), p) /\ ~Answering(Tail(toQueue), p)
           /\ Accepting(Tail(toQueue), p) => Answering(Tail(toQueue), p)
<1>1. toQueue \in Seq(ToQueue) /\ toQueue # <<>>
  BY Taken
<1> DEFINE q1 == Tail(toQueue)
<1>2. /\ Len(toQueue) \in Nat /\ 1 \in 1..Len(toQueue) /\ toQueue[1] = Head(toQueue)
      /\ \A k \in 1..Len(q1) : k + 1 \in 1..Len(toQueue) /\ q1[k] = toQueue[k + 1] /\ k + 1 # 1 /\ ~(k + 1 < 1)
  BY <1>1, TailIs
<1> HIDE DEF q1
<1>3. queued[p] = 0 /\ \A n \in 1..Len(toQueue) : Asks(toQueue[n], p) => n = 1
  BY <1>2 DEF AsksOnce
<1>4. Asked(toQueue, p) /\ ~Asked(q1, p)
  BY <1>2, <1>3 DEF Asked
<1>5. ~Answering(q1, p)
  BY <1>2 DEF Answering, Earlier
<1>6. Accepting(q1, p) => Answering(q1, p)
  BY DEF Accepting, Answering
<1> QED
  BY <1>3, <1>4, <1>5, <1>6 DEF q1

LEMMA AddGroupAgreed ==
    ASSUME Basis, Orderly, Agreed, Basis', AddGroup
    PROVE  Agreed'
<1> DEFINE m == Head(toQueue)
           g == [id |-> m.id, team |-> m.team, players |-> m.party, inst |-> 0, due |-> 0]
           told == [type |-> "joined", party |-> m.party]
           t == m.team
<1>1. /\ Take("join") /\ groups' = [groups EXCEPT ![t] = Append(@, g)]
      /\ queued' = [p \in Players |-> IF p \in m.party THEN m.id ELSE queued[p]]
      /\ toWorld' = Append(toWorld, told) /\ UNCHANGED <<player, bgs, lastInstance, astray>>
  BY DEF AddGroup, worldVars, history
<1>2. m \in ToQueue /\ m.type = "join" /\ toQueue' = Tail(toQueue)
  BY <1>1, Taken
<1>3. m \in Joins
  BY <1>2, QueueKinds
<1>4. /\ t \in Teams /\ m.id \in Nat /\ m.party \subseteq Players /\ \A p \in m.party : TeamOf[p] = t
      /\ g \in SideGroups(t) /\ g.id = m.id /\ g.inst = 0
  BY <1>3, NewGroup
<1>5. m.id # 0
  BY <1>3, Numbers DEF Joins
<1>6. told \in ToWorld /\ Harmless(told) /\ told.type = "joined" /\ \A p : About(told, p) <=> p \in m.party
  BY <1>4 DEF ToWorld, Registered, Harmless, About
<1> HIDE DEF g, told, t
<1>7. toWorld \in Seq(ToWorld)
  BY DEF Basis, Typed
<1>8. Tells(toWorld, toWorld')
  BY <1>1, <1>6, <1>7, TellsOne
<1>9. Course
  BY <1>1, <1>8, QueueCourse
<1>10. /\ Sides(groups) /\ Distinct(toQueue, groups) /\ Enlisted(queued, groups)
       /\ Sides(groups') /\ Distinct(toQueue', groups')
  BY DEF Basis, Typed, Crowd, Numbered, Sides
<1>11. ASSUME NEW p \in Players
       PROVE  /\ queued'[p] = g.id /\ g.id # 0 /\ TeamOf[p] = t => InstIn(p, queued', groups') = g.inst
              /\ queued'[p] = queued[p] => InstIn(p, queued', groups') = InstIn(p, queued, groups)
  <2>1. AddsGroup(groups, t, g, groups')
    BY <1>1, <1>4, <1>10 DEF AddsGroup
  <2> QED
    BY <1>10, <2>1, InstAdded
<1>12. ASSUME NEW p \in Players \ astray, p \in m.party PROVE Accord(p)'
  <2>1. Accord(p) /\ Alone(p, toQueue, groups, queued, toWorld, player[p].timers)
    BY DEF Agreed, Orderly
  <2>2. Asks(Head(toQueue), p)
    BY <1>2, <1>12 DEF Asks, IsJoin
  <2>3. /\ queued[p] = 0 /\ Asked(toQueue, p) /\ ~Asked(Tail(toQueue), p) /\ ~Answering(Tail(toQueue), p)
        /\ Accepting(Tail(toQueue), p) => Answering(Tail(toQueue), p)
    BY <1>1, <2>1, <2>2, AskedOnce DEF Alone, Accord
  <2>4. Quit(Tail(toQueue), p) => Quit(toQueue, p)
    BY <1>1, Taken, QuieterTail
  <2>5. queued'[p] = m.id /\ InstIn(p, queued', groups') = 0
    <3>1. queued'[p] = m.id /\ TeamOf[p] = t
      BY <1>1, <1>4, <1>12
    <3> QED
      BY <1>4, <1>5, <1>11, <3>1
  <2> DEFINE n == queued[p]
             c == InstIn(p, queued, groups)
             said == Said(toQueue, p)
             r == player[p]
             news == News(toWorld, p)
             past == Past(toWorld, lastInstance)
             there == There(bgs)
             said1 == Said(Tail(toQueue), p)
             id == m.id
             news1 == news \cup {told}
  <2>6. Core(n, c, said, r, news, past, there)
    BY <2>1 DEF Accord, CoreOf
  <2>61. n = 0 /\ "asked" \in said /\ "asked" \notin said1 /\ "answer" \notin said1 /\ "accept" \notin said1 /\ id # 0
    BY <1>5, <2>3 DEF Said
  <2>62. said1 \subseteq said
    BY <1>1, Taken, QuieterTail DEF Said
  <2>63. news1 = news \cup {told} /\ told.type = "joined"
    BY <1>6
  <2> HIDE DEF n, c, said, r, news, past, there, said1, id, news1
  <2>7. Core(id, 0, said1, r, news1, past, there) /\ news = {}
    BY ONLY <2>6, <2>61, <2>62, <2>63, CoreAdded
  <2> USE DEF n, c, said, r, news, past, there, said1, id, news1
  <2>8. Hears(toWorld, toWorld', told, p)
    <3>1. About(told, p) /\ InTurn(toWorld, p) /\ Outranks(told, toWorld, p)
      BY <1>6, <1>12, <2>1, <2>7 DEF Accord, Outranks
    <3> QED
      BY <1>1, <1>6, <1>7, <3>1, HearsOne
  <2>9. Past(toWorld', lastInstance) = Past(toWorld, lastInstance)
    BY <1>7, <1>8, PastTells
  <2>10. CoreOf(p)'
    <3>1. /\ queued'[p] = id /\ InstIn(p, queued', groups') = 0 /\ SameRecord(r, player'[p])
          /\ News(toWorld', p) = news1 /\ past \subseteq Past(toWorld', lastInstance') /\ past \cap There(bgs') \subseteq there
      BY <1>1, <2>5, <2>8, <2>9 DEF Hears, SameRecord
    <3>2. SaysLess(said1, Said(toQueue', p))
      BY <1>2 DEF SaysLess
    <3> HIDE DEF n, c, said, r, news, past, there, said1, id, news1
    <3> QED
      BY <2>7, <3>1, <3>2, CoreNext
  <2> QED
    BY <1>1, <1>9, <2>1, <2>8, <2>10, QueueActor DEF Hears
<1>13. ASSUME NEW p \in Players \ astray, p \notin m.party PROVE Accord(p)'
  <2>1. queued'[p] = queued[p] /\ InstIn(p, queued', groups') = InstIn(p, queued, groups)
    BY <1>1, <1>11, <1>13
  <2>2. SameNews(toWorld, toWorld', p)
    BY <1>1, <1>6, <1>7, <1>13, HearsOne
  <2>3. ~IsGone(Head(toQueue), p) /\ Accord(p)
    BY <1>2 DEF IsGone, Agreed
  <2> QED
    BY <1>1, <1>9, <2>1, <2>2, <2>3, QueueStill
<1> QED
  BY <1>1, <1>8, <1>12, <1>13, AgreedTaken

-----------------------------------------------------------------------------
\* The queue thread: a player is taken out of his group, or nobody is.

LEMMA UntoldAgreed ==
    ASSUME Basis, Agreed, Basis', NEW type, Take(type), type # "gone", UNCHANGED <<player, bgs, lastInstance, astray>>,
           UNCHANGED <<queued, groups>>, Tells(toWorld, toWorld'), \A p \in Players : SameNews(toWorld, toWorld', p)
    PROVE  Agreed'
<1>1. Course
  BY QueueCourse
<1>2. ASSUME NEW p \in Players \ astray PROVE Accord(p)'
  <2>1. ~IsGone(Head(toQueue), p)
    BY DEF Take, IsGone
  <2>2. queued'[p] = queued[p] /\ InstIn(p, queued', groups') = InstIn(p, queued, groups) /\ Accord(p)
    BY DEF InstIn, Agreed
  <2> QED
    BY <1>1, <2>1, <2>2, QueueStill
<1> QED
  BY <1>2, AgreedTaken

LEMMA LeavesAgreed ==
    ASSUME Basis, Agreed, Basis', NEW type, Take(type), UNCHANGED <<player, bgs, lastInstance, astray>>,
           Tells(toWorld, toWorld'), NEW p \in Players, Leaves(p),
           \A s \in Players : s # p => SameNews(toWorld, toWorld', s) /\ ~IsGone(Head(toQueue), s),
           p \notin astray => Accord(p)'
    PROVE  Agreed'
<1>1. Course
  BY QueueCourse
<1>2. queued \in [Players -> Nat] /\ Fewer(groups, groups') /\ queued' = [queued EXCEPT ![p] = 0]
  BY DEF Basis, Typed, Leaves
<1>3. ASSUME NEW s \in Players \ astray, s # p PROVE Accord(s)'
  <2>1. queued'[s] = queued[s]
    BY <1>2, <1>3
  <2>2. InstIn(s, queued', groups') = InstIn(s, queued, groups)
    BY <1>2, <2>1, InstKept
  <2>3. SameNews(toWorld, toWorld', s) /\ ~IsGone(Head(toQueue), s) /\ Accord(s)
    BY <1>3 DEF Agreed
  <2> QED
    BY <1>1, <2>1, <2>2, <2>3, QueueStill
<1> QED
  BY <1>3, AgreedTaken

\* What remains of what he has said.
LEMMA SaidTail ==
    ASSUME NEW type, Take(type), Basis, NEW p
    PROVE  Said(toQueue', p) \subseteq Said(toQueue, p)
BY Taken, QuieterTail DEF Said

LEMMA ActorLeaves ==
    ASSUME Basis, Agreed, NEW type, Take(type), UNCHANGED <<player, bgs, lastInstance>>, Tells(toWorld, toWorld'),
           NEW p \in Players \ astray, Leaves(p), InTurn(toWorld', p), NEW said, said = Said(toQueue', p),
           NEW news, news = News(toWorld', p),
           Core(0, 0, said, player[p], news, Past(toWorld, lastInstance), There(bgs))
    PROVE  Accord(p)'
<1>1. Course /\ Accord(p)
  BY QueueCourse DEF Agreed
<1>2. Past(toWorld', lastInstance') = Past(toWorld, lastInstance)
  BY PastTells DEF Basis, Typed
<1>3. queued'[p] = 0
  BY DEF Basis, Typed, Leaves
<1>4. InstIn(p, queued', groups') = 0
  BY <1>3 DEF InstIn
<1> DEFINE r == player[p]
           past == Past(toWorld, lastInstance)
           there == There(bgs)
<1>5. SaysLess(said, Said(toQueue', p))
  BY DEF SaysLess
<1>6. SameRecord(r, player'[p]) /\ past \subseteq Past(toWorld', lastInstance') /\ past \cap There(bgs') \subseteq there
  BY <1>2 DEF SameRecord
<1>7. Core(0, 0, said, r, news, past, there)
  OBVIOUS
<1> HIDE DEF r, past, there
<1>8. CoreOf(p)'
  BY <1>3, <1>4, <1>5, <1>6, <1>7, CoreNext
<1> QED
  BY <1>1, <1>8, QueueActor

LEMMA Higher ==
    ASSUME NEW w, NEW p, NEW m, m.type \in {"left", "port"}, \A x \in News(w, p) : x.type \in {"joined", "invite"}
    PROVE  Outranks(m, w, p)
BY DEF Outranks, Rank

\* He is told that he is out.
LEMMA LeftAgreed ==
    ASSUME Basis, Agreed, Basis', NEW type, Take(type), UNCHANGED <<player, bgs, lastInstance, astray>>,
           Tells(toWorld, toWorld'), NEW p \in Players, Leaves(p), queued[p] # 0,
           NEW m, m = [type |-> "left", player |-> p], Reports(toWorld, toWorld', <<m>>), type # "gone",
           p \notin astray /\ player[p].online => player[p].reg
    PROVE  Agreed'
<1>1. toWorld \in Seq(ToWorld) /\ m \in ToWorld /\ About(m, p)
  BY DEF Basis, Typed, ToWorld, Lefts, About
<1>2. ASSUME NEW s \in Players, s # p PROVE SameNews(toWorld, toWorld', s) /\ ~IsGone(Head(toQueue), s)
  <2> DEFINE answer == <<m>>
  <2>2. answer \in Seq(ToWorld) /\ Reports(toWorld, toWorld', answer)
    BY <1>1
  <2>0. ~About(m, s) /\ \A k \in 1..Len(answer) : answer[k] = m
    BY <1>2 DEF About
  <2> HIDE DEF answer
  <2>1. \A k \in 1..Len(answer) : ~About(answer[k], s)
    BY <2>0
  <2>3. SameNews(toWorld, toWorld', s)
    BY <1>1, <2>1, <2>2, ReportsOthers
  <2> QED
    BY <2>3 DEF Take, IsGone
<1>3. ASSUME p \notin astray PROVE Accord(p)'
  <2> DEFINE n == queued[p]
             c == InstIn(p, queued, groups)
             said == Said(toQueue, p)
             r == player[p]
             news == News(toWorld, p)
             past == Past(toWorld, lastInstance)
             there == There(bgs)
             said1 == Said(toQueue', p)
             news1 == news \cup {m}
  <2>1. Accord(p)
    BY <1>3 DEF Agreed
  <2>2. Core(n, c, said, r, news, past, there)
    BY <2>1 DEF Accord, CoreOf
  <2>3. n # 0 /\ (r.online => r.reg) /\ m.type = "left" /\ news1 = news \cup {m} /\ said1 \subseteq said
    BY <1>3, SaidTail
  <2> HIDE DEF n, c, said, r, news, past, there, said1, news1
  <2>4. Core(0, 0, said1, r, news1, past, there) /\ \A x \in news : x.type \in {"joined", "invite"}
    BY ONLY <2>2, <2>3, CoreLeft
  <2>5. Hears(toWorld, toWorld', m, p)
    <3>1. Outranks(m, toWorld, p)
      BY <2>3, <2>4, Higher DEF news
    <3> QED
      BY <1>1, <2>1, <3>1, ReportsTo DEF Accord
  <2>6. InTurn(toWorld', p) /\ News(toWorld', p) = news1
    BY <2>5 DEF Hears, news1, news
  <2>7. Core(0, 0, said1, player[p], news1, Past(toWorld, lastInstance), There(bgs)) /\ said1 = Said(toQueue', p)
    BY <2>4 DEF r, past, there, said1
  <2> QED
    BY <1>3, <2>6, <2>7, ActorLeaves
<1> QED
  BY <1>2, <1>3, LeavesAgreed

LEMMA EnteredAgreed ==
    ASSUME Basis, Agreed, Basis', NEW type, Take(type), UNCHANGED <<player, bgs, lastInstance, astray>>,
           Tells(toWorld, toWorld'), NEW p \in Players, Leaves(p), queued[p] # 0, CalledTo(p) \in Instances,
           NEW m, m = [type |-> "port", player |-> p, inst |-> CalledTo(p)], Reports(toWorld, toWorld', <<m>>),
           type = "answer", Head(toQueue).player = p, Head(toQueue).enter
    PROVE  Agreed'
<1>1. toWorld \in Seq(ToWorld) /\ m \in ToWorld /\ About(m, p) /\ m.inst = CalledTo(p) /\ m.inst # 0
  BY InstancesAre DEF Basis, Typed, ToWorld, Ports, About
<1>2. ASSUME NEW s \in Players, s # p PROVE SameNews(toWorld, toWorld', s) /\ ~IsGone(Head(toQueue), s)
  <2> DEFINE answer == <<m>>
  <2>2. answer \in Seq(ToWorld) /\ Reports(toWorld, toWorld', answer)
    BY <1>1
  <2>0. ~About(m, s) /\ \A k \in 1..Len(answer) : answer[k] = m
    BY <1>2 DEF About
  <2> HIDE DEF answer
  <2>1. \A k \in 1..Len(answer) : ~About(answer[k], s)
    BY <2>0
  <2>3. SameNews(toWorld, toWorld', s)
    BY <1>1, <2>1, <2>2, ReportsOthers
  <2> QED
    BY <2>3 DEF Take, IsGone
<1>3. ASSUME p \notin astray PROVE Accord(p)'
  <2> DEFINE n == queued[p]
             c == InstIn(p, queued, groups)
             said == Said(toQueue, p)
             r == player[p]
             news == News(toWorld, p)
             past == Past(toWorld, lastInstance)
             there == There(bgs)
             said1 == Said(toQueue', p)
             news1 == news \cup {m}
  <2>1. Accord(p)
    BY <1>3 DEF Agreed
  <2>2. Core(n, c, said, r, news, past, there)
    BY <2>1 DEF Accord, CoreOf
  <2>3. "accept" \in said /\ "answer" \in said
    <3>1. 1 \in 1..Len(toQueue) /\ toQueue[1] = Head(toQueue) /\ Head(toQueue).type = "answer"
      BY Taken, TailIs
    <3>2. IsAnswer(toQueue[1], p) /\ toQueue[1].enter
      BY <3>1 DEF IsAnswer
    <3>3. Answering(toQueue, p) /\ Accepting(toQueue, p)
      BY <3>1, <3>2 DEF Answering, Accepting
    <3> QED
      BY <3>3 DEF Said
  <2>4. c = m.inst /\ c # 0
    BY <1>1, CalledToIs
  <2>5. n # 0 /\ m.type = "port" /\ m.inst = c /\ news1 = news \cup {m} /\ said1 \subseteq said
    BY <2>4, SaidTail
  <2> HIDE DEF n, c, said, r, news, past, there, said1, news1
  <2>6. Core(0, 0, said1, r, news1, past, there) /\ \A x \in news : x.type \in {"joined", "invite"}
    BY ONLY <2>2, <2>3, <2>4, <2>5, CoreEntered
  <2>7. Hears(toWorld, toWorld', m, p)
    <3>1. Outranks(m, toWorld, p)
      BY <2>5, <2>6, Higher DEF news
    <3> QED
      BY <1>1, <2>1, <3>1, ReportsTo DEF Accord
  <2>8. InTurn(toWorld', p) /\ News(toWorld', p) = news1
    BY <2>7 DEF Hears, news1, news
  <2>9. Core(0, 0, said1, player[p], news1, Past(toWorld, lastInstance), There(bgs)) /\ said1 = Said(toQueue', p)
    BY <2>6 DEF r, past, there, said1
  <2> QED
    BY <1>3, <2>8, <2>9, ActorLeaves
<1> QED
  BY <1>2, <1>3, LeavesAgreed

LEMMA SelfNews ==
    ASSUME NEW w, NEW p
    PROVE  SameNews(w, w, p)
BY DEF SameNews

\* A player in the queue has been told so when he answers.
LEMMA AnswerRegistered ==
    ASSUME Basis, Agreed, NEW p \in Players \ astray, Take("answer"), Head(toQueue).player = p, queued[p] # 0, player[p].online
    PROVE  player[p].reg
<1>1. 1 \in 1..Len(toQueue) /\ toQueue[1] = Head(toQueue) /\ Head(toQueue).type = "answer"
  BY Taken, TailIs
<1>2. IsAnswer(toQueue[1], p)
  BY <1>1 DEF IsAnswer
<1>3. "answer" \in Said(toQueue, p)
  BY <1>1, <1>2 DEF Answering, Said
<1>4. CoreOf(p)
  BY DEF Agreed, Accord
<1> QED
  BY <1>3, <1>4 DEF CoreOf, Core

LEMMA PortAgreed ==
    ASSUME Basis, Agreed, Basis', Port
    PROVE  Agreed'
<1> DEFINE m == Head(toQueue)
           p == m.player
           sent == [type |-> "port", player |-> p, inst |-> CalledTo(p)]
           left == [type |-> "left", player |-> p]
           port == <<sent>>
           out == <<left>>
<1>1. Take("answer") /\ UNCHANGED <<player, bgs, lastInstance, astray>>
  BY DEF Port, worldVars, history
<1>2. \/ UNCHANGED <<toWorld, queued, groups>>
      \/ m.enter /\ CalledTo(p) # 0 /\ RemovePlayer(p, FALSE, port)
      \/ queued[p] # 0 /\ RemovePlayer(p, TRUE, out)
  BY DEF Port
<1>3. m \in ToQueue /\ m.type = "answer"
  BY <1>1, Taken
<1>4. p \in Players
  BY <1>3, QueueKinds DEF Answers
<1>5. Tells(toWorld, toWorld)
  BY QueueKept
<1>7. CASE m.enter /\ CalledTo(p) # 0 /\ RemovePlayer(p, FALSE, port)
  <2>1. queued[p] # 0 /\ CalledTo(p) \in Instances
    BY <1>4, <1>7, CalledAlready
  <2>2. sent \in ToWorld /\ Harmless(sent)
    BY <1>4, <2>1 DEF ToWorld, Ports, Harmless
  <2>3. port \in Seq(ToWorld) /\ \A k \in 1..Len(port) : Harmless(port[k])
    <3> HIDE DEF sent
    <3> QED
      BY <2>2, TellsOneOnly
  <2>5. m.player = p /\ m.enter
    BY <1>7
  <2> HIDE DEF p, port
  <2>4. Leaves(p) /\ Tells(toWorld, toWorld') /\ Reports(toWorld, toWorld', port)
    BY <1>4, <1>7, <2>1, <2>3, Leaving
  <2>6. Reports(toWorld, toWorld', <<sent>>)
    BY <2>4 DEF port
  <2> QED
    BY <1>1, <1>4, <2>1, <2>4, <2>5, <2>6, EnteredAgreed
<1>8. CASE queued[p] # 0 /\ RemovePlayer(p, TRUE, out)
  <2>0. out \in Seq(ToWorld) /\ \A k \in 1..Len(out) : Harmless(out[k])
    <3>1. left \in ToWorld /\ Harmless(left)
      BY <1>4 DEF ToWorld, Lefts, Harmless
    <3> HIDE DEF left
    <3> QED
      BY <3>1, TellsOneOnly
  <2>5. m.player = p
    OBVIOUS
  <2> HIDE DEF p, out
  <2>1. Leaves(p) /\ Tells(toWorld, toWorld') /\ Reports(toWorld, toWorld', out)
    BY <1>4, <1>8, <2>0, Leaving
  <2>2. p \notin astray /\ player[p].online => player[p].reg
    BY <1>1, <1>4, <1>8, <2>5, AnswerRegistered
  <2>3. Reports(toWorld, toWorld', <<left>>)
    BY <2>1 DEF out
  <2> QED
    BY <1>1, <1>4, <1>8, <2>1, <2>2, <2>3, LeftAgreed
<1>9. CASE UNCHANGED <<toWorld, queued, groups>>
  <2>1. UNCHANGED <<queued, groups>> /\ Tells(toWorld, toWorld') /\ \A s \in Players : SameNews(toWorld, toWorld', s)
    BY <1>5, <1>9, SelfNews
  <2> QED
    BY <1>1, <2>1, UntoldAgreed
<1> QED
  BY <1>2, <1>7, <1>8, <1>9

LEMMA LoggedOutAgreed ==
    ASSUME Basis, Agreed, Basis', LoggedOut
    PROVE  Agreed'
<1> DEFINE answer == <<>>
<1>1. Take("gone") /\ UNCHANGED <<player, bgs, lastInstance, astray>> /\ Head(toQueue).type = "gone"
  BY DEF LoggedOut, worldVars, history, Take
<1>3. PICK p \in Players : p = Head(toQueue).player
  BY <1>1, Taken, QueueKinds DEF Gone
<1>2. IF queued[p] = 0 THEN UNCHANGED <<toWorld, queued, groups>> ELSE RemovePlayer(p, TRUE, answer)
  BY <1>3 DEF LoggedOut
<1>4. answer \in Seq(ToWorld) /\ Len(answer) = 0 /\ \A k \in 1..Len(answer) : Harmless(answer[k])
  OBVIOUS
<1>5. Tells(toWorld, toWorld) /\ toWorld \in Seq(ToWorld) /\ queued \in [Players -> Nat]
  BY QueueKept DEF Basis, Typed
<1>6. "quit" \in Said(toQueue, p)
  <2>1. 1 \in 1..Len(toQueue) /\ toQueue[1] = Head(toQueue)
    BY <1>1, Taken, TailIs
  <2>2. IsGone(toQueue[1], p)
    BY <1>1, <1>3, <2>1 DEF IsGone
  <2> QED
    BY <2>1, <2>2 DEF Said, Quit
<1>7. \A s \in Players : s # p => ~IsGone(Head(toQueue), s)
  BY <1>3 DEF IsGone
<1> HIDE DEF answer
<1>8. /\ Tells(toWorld, toWorld') /\ \A s \in Players : SameNews(toWorld, toWorld', s)
      /\ queued[p] = 0 \/ Leaves(p)
      /\ queued[p] = 0 => UNCHANGED <<queued, groups>>
  <2>1. CASE queued[p] = 0
    BY <1>2, <1>5, <2>1, SelfNews
  <2>2. CASE queued[p] # 0
    <3>1. Leaves(p) /\ Tells(toWorld, toWorld') /\ Reports(toWorld, toWorld', answer)
      BY <1>2, <1>3, <1>4, <2>2, Leaving
    <3>2. ASSUME NEW s PROVE SameNews(toWorld, toWorld', s)
      <4>1. \A k \in 1..Len(answer) : ~About(answer[k], s)
        BY <1>4
      <4> QED
        BY <1>4, <1>5, <3>1, <4>1, ReportsOthers
    <3> QED
      BY <2>2, <3>1, <3>2
  <2> QED
    BY <2>1, <2>2
<1>9. Course
  BY <1>1, <1>8, QueueCourse
<1>10. queued' = [queued EXCEPT ![p] = 0] /\ (groups' = groups \/ Fewer(groups, groups'))
  <2>1. CASE queued[p] = 0
    BY <1>3, <1>5, <1>8, <2>1
  <2>2. CASE queued[p] # 0
    BY <1>8, <2>2 DEF Leaves
  <2> QED
    BY <2>1, <2>2
<1>11. ASSUME NEW s \in Players \ astray, s # p PROVE Accord(s)'
  <2>1. queued'[s] = queued[s]
    BY <1>5, <1>10, <1>11
  <2>2. InstIn(s, queued', groups') = InstIn(s, queued, groups)
    BY <1>10, <2>1, InstKept
  <2>3. SameNews(toWorld, toWorld', s) /\ ~IsGone(Head(toQueue), s) /\ Accord(s)
    BY <1>7, <1>8, <1>11 DEF Agreed
  <2> QED
    BY <1>1, <1>9, <2>1, <2>2, <2>3, QueueStill
<1>12. ASSUME p \notin astray PROVE Accord(p)'
  <2> DEFINE n == queued[p]
             c == InstIn(p, queued, groups)
             said == Said(toQueue, p)
             r == player[p]
             news == News(toWorld, p)
             past == Past(toWorld, lastInstance)
             there == There(bgs)
             said1 == Said(toQueue', p)
  <2>1. Accord(p)
    BY <1>3, <1>12 DEF Agreed
  <2>2. Core(n, c, said, r, news, past, there)
    BY <2>1 DEF Accord, CoreOf
  <2>3. "quit" \in said /\ said1 \subseteq said
    BY <1>1, <1>6, SaidTail
  <2>4. queued'[p] = 0
    BY <1>3, <1>5, <1>10
  <2>5. InstIn(p, queued', groups') = 0
    BY <2>4 DEF InstIn
  <2>6. News(toWorld', p) = news /\ InTurn(toWorld', p)
    BY <1>3, <1>8, <2>1 DEF SameNews, Accord
  <2>7. Past(toWorld', lastInstance') = past
    BY <1>1, <1>5, <1>8, PastTells
  <2>8. SaysLess(said1, Said(toQueue', p))
    BY DEF SaysLess
  <2>9. SameRecord(r, player'[p]) /\ past \subseteq Past(toWorld', lastInstance') /\ past \cap There(bgs') \subseteq there
    BY <1>1, <2>7 DEF SameRecord
  <2> HIDE DEF n, c, said, r, news, past, there, said1
  <2>10. Core(0, 0, said1, r, news, past, there)
    BY ONLY <2>2, <2>3, CoreGone
  <2>11. CoreOf(p)'
    BY <2>4, <2>5, <2>6, <2>8, <2>9, <2>10, CoreNext
  <2> QED
    BY <1>1, <1>3, <1>9, <2>1, <2>6, <2>11, QueueActor
<1>13. \A s \in Players \ astray : Accord(s)'
  BY <1>11, <1>12
<1>14. UNCHANGED <<lastInstance, bgs, astray>> /\ Tells(toWorld, toWorld')
  BY <1>1, <1>8
<1> QED
  BY <1>1, <1>13, <1>14, AgreedTaken

\* His last event takes a player out: no invitation is on its way, so he knows that he is in the queue.
LEMMA LastRegistered ==
    ASSUME Agreed, NEW p \in Players \ astray, queued[p] # 0, player[p].online, ~Under(p, {"invite"}),
           InstIn(p, queued, groups) # 0
    PROVE  player[p].reg
<1>1. \A m \in News(toWorld, p) : m.type # "invite"
  BY DEF News, About, Under, ToSet
<1>2. CoreOf(p)
  BY DEF Agreed, Accord
<1> QED
  BY <1>1, <1>2 DEF CoreOf, Core, OnQueue

LEMMA TimedOutAgreed ==
    ASSUME Basis, Orderly, Agreed, Basis', TimedOut
    PROVE  Agreed'
<1> DEFINE m == Head(toQueue)
           p == m.player
           left == [type |-> "left", player |-> p]
<1>1. UNCHANGED <<bgs, lastInstance>>
  BY DEF TimedOut, worldVars
<1>2. /\ Take("expire") /\ UNCHANGED <<player, astray>> /\ Tells(toWorld, toWorld')
      /\ m \in Expiries /\ p \in Players
      /\ \/ UNCHANGED <<queued, groups>> /\ toWorld' = toWorld
         \/ /\ IsPlayerInvited(m) /\ Leaves(p)
            /\ Reports(toWorld, toWorld', <<left>>)
  BY TimedOutIs
<1>3. CASE UNCHANGED <<queued, groups>> /\ toWorld' = toWorld
  <2>1. \A s \in Players : SameNews(toWorld, toWorld', s)
    BY <1>3, SelfNews
  <2> QED
    BY <1>1, <1>2, <1>3, <2>1, UntoldAgreed
<1>4. CASE IsPlayerInvited(m) /\ Leaves(p) /\ Reports(toWorld, toWorld', <<left>>)
  <2>1. queued[p] # 0 /\ queued'[p] = 0
    BY <1>2, <1>4 DEF IsPlayerInvited, Leaves, Basis, Typed
  <2>2. InstIn(p, queued, groups) # 0
    <3>1. CalledTo(p) = m.inst
      BY <1>4, <2>1 DEF IsPlayerInvited, CalledTo
    <3>2. m.inst # 0
      BY <1>2, InstancesAre DEF Expiries
    <3> QED
      BY <1>2, <3>1, <3>2, CalledToIs
  <2>3. p \notin astray /\ player[p].online => player[p].reg
    BY <1>2, <2>1, <2>2, LastEvent, LastRegistered
  <2> HIDE DEF p
  <2> QED
    BY <1>1, <1>2, <1>4, <2>1, <2>3, LeftAgreed
<1> QED
  BY <1>2, <1>3, <1>4

LEMMA CountAbout ==
    ASSUME NEW w \in Seq(ToWorld), NEW w1, NEW m \in ToWorld, m.type = "invited", w1 = Append(w, m), NEW p
    PROVE  SameNews(w, w1, p)
<1>1. ~About(m, p)
  BY DEF About
<1> QED
  BY <1>1, HearsOne

LEMMA PlayerLeftSilent ==
    ASSUME Basis, PlayerLeft, NEW p
    PROVE  SameNews(toWorld, toWorld', p)
<1> DEFINE m == Head(toQueue)
           k == GetFreeSlotInstance(m.inst)
           count == Less(free[k].invited[m.team])
           told == Invited(m.inst, m.team, count)
<1>1. Take("decrease")
  BY DEF PlayerLeft
<1>2. IF k = 0 THEN toWorld' = toWorld ELSE toWorld' = Append(toWorld, told)
  BY DEF PlayerLeft
<1>3. m.team \in Teams /\ m.inst \in Instances
  BY <1>1, Taken, QueueKinds DEF Decreases
<1>4. free \in Seq(Entries) /\ toWorld \in Seq(ToWorld)
  BY QueueKept DEF Basis, Typed
<1>5. k # 0 => k \in 1..Len(free)
  BY SlotFound
<1>6. CASE k # 0
  <2> HIDE DEF k
  <2>1. count \in 0..(CountMod - 1)
    BY <1>3, <1>4, <1>5, <1>6, CountChanged
  <2> HIDE DEF count
  <2>2. told \in ToWorld /\ told.type = "invited"
    BY <1>3, <2>1 DEF ToWorld, NewCounts, Invited
  <2> HIDE DEF told
  <2> QED
    BY <1>2, <1>4, <1>6, <2>2, CountAbout
<1>7. CASE k = 0
  BY <1>2, <1>7, SelfNews
<1> QED
  BY <1>6, <1>7

LEMMA ListAgreed ==
    ASSUME Basis, Agreed, Basis',
           AddBgToFreeSlots \/ RemoveBgFromFreeSlots \/ StatusChanged \/ PlayerLeft \/ ScheduleQueueUpdate
    PROVE  Agreed'
<1>1. Tells(toWorld, toWorld)
  BY QueueKept
<1>2. /\ AddBgToFreeSlots => Take("add") /\ toWorld' = toWorld
      /\ RemoveBgFromFreeSlots => Take("remove") /\ toWorld' = toWorld
      /\ StatusChanged => Take("status") /\ toWorld' = toWorld
      /\ PlayerLeft => Take("decrease")
      /\ ScheduleQueueUpdate => Take("schedule") /\ toWorld' = toWorld
      /\ UNCHANGED <<player, bgs, lastInstance, astray>> /\ UNCHANGED <<queued, groups>>
  BY DEF AddBgToFreeSlots, RemoveBgFromFreeSlots, StatusChanged, PlayerLeft, ScheduleQueueUpdate, worldVars, history
<1>3. Tells(toWorld, toWorld')
  BY <1>1, <1>2, PlayerLeftTells
<1>4. \A p \in Players : SameNews(toWorld, toWorld', p)
  BY <1>2, PlayerLeftSilent, SelfNews
<1>5. \E type : Take(type) /\ type # "gone"
  BY <1>2
<1> QED
  BY <1>2, <1>3, <1>4, <1>5, UntoldAgreed

-----------------------------------------------------------------------------
\* The queue thread: Update.

\* After the invitations out there may be the message that makes a battleground.
Ends(out, news) ==
    /\ out \in Seq(ToWorld) /\ news \in Seq(ToWorld)
    /\ \A k \in 1..Len(out) : k \in 1..Len(news) /\ news[k] = out[k]
    /\ \A k \in 1..Len(news) : (k \in 1..Len(out) /\ news[k] = out[k])
                               \/ (news[k].type = "create" /\ news[k].inst = lastInstance + 1)

LEMMA CreationEnds ==
    ASSUME NEW out \in Seq(ToWorld), NEW e \in Entries, e.inst = lastInstance + 1, NEW news, news = WithCreation(out, e)
    PROVE  Ends(out, news)
<1> DEFINE m == [type |-> "create", inst |-> e.inst, invited |-> e.invited]
<1>1. m \in ToWorld /\ m.type = "create" /\ m.inst = lastInstance + 1
  BY DEF ToWorld, Creations, Entries
<1>2. news = Append(out, m)
  BY DEF WithCreation
<1> HIDE DEF m
<1>3. /\ Len(out) \in Nat /\ news \in Seq(ToWorld) /\ Len(news) = Len(out) + 1 /\ news[Len(out) + 1] = m
      /\ \A k \in 1..Len(out) : news[k] = out[k]
  BY <1>1, <1>2
<1>4. \A k \in 1..Len(news) : k \in 1..Len(out) \/ k = Len(out) + 1
  BY <1>3
<1> QED
  BY <1>1, <1>3, <1>4 DEF Ends

\* What an update does.
Updates(out, news) ==
    /\ Inviting(groups, groups', out, lastInstance') /\ Ends(out, news) /\ toWorld' = toWorld \o news
    /\ lastInstance' \in Nat /\ lastInstance <= lastInstance'

LEMMA UpdateDoes ==
    ASSUME Basis, Update
    PROVE  \E out, news : Updates(out, news)
<1>1. Typed /\ Crowd /\ lastInstance \in Nat /\ UpTo(free, lastInstance)
  BY DEF Basis, Typed
<1>2. Timely(groups) /\ Spare(groups)
  BY <1>1, RoomLeft DEF Crowd, Basis, Typed
<1>3. PICK news : /\ toWorld' = toWorld \o news
                  /\ Filled(groups', free', news, lastInstance') \/ Made(groups', free', news, lastInstance')
  BY <1>1, <1>2, UpdateIs
<1>4. PICK out : /\ Inviting(groups, groups', out, lastInstance')
                 /\ \/ news = out /\ lastInstance' = lastInstance
                    \/ lastInstance' = lastInstance + 1 /\ \E e : e \in Entries /\ e.inst = lastInstance' /\ news = WithCreation(out, e)
  BY <1>3 DEF Filled, Made
<1>5. out \in Seq(ToWorld)
  BY <1>4 DEF Inviting
<1>6. Ends(out, news)
  <2>1. CASE news = out
    BY <1>5, <2>1 DEF Ends
  <2>2. CASE lastInstance' = lastInstance + 1 /\ \E e : e \in Entries /\ e.inst = lastInstance' /\ news = WithCreation(out, e)
    <3>1. PICK e : e \in Entries /\ e.inst = lastInstance + 1 /\ news = WithCreation(out, e)
      BY <2>2
    <3> QED
      BY <1>5, <3>1, CreationEnds
  <2> QED
    BY <1>4, <2>1, <2>2
<1>7. lastInstance' \in Nat /\ lastInstance <= lastInstance'
  BY <1>1, <1>4
<1> QED
  BY <1>3, <1>4, <1>6, <1>7 DEF Updates

\* The groups that are invited are invited to a battleground that is there or comes next.
LEMMA InvitesUpTo ==
    ASSUME NEW out, NEW hs, NEW last, Inviting(groups, hs, out, last), NEW a \in 1..Len(out), out[a].type = "invite"
    PROVE  out[a].inst \in 1..last
<1>1. Calls(groups, hs, clock + 1, last) /\ Tellings(groups, hs, out)
  BY DEF Inviting
<1>2. PICK t \in Teams : \E n \in 1..Len(groups[t]) : groups[t][n].inst = 0 /\ hs[t][n].inst = out[a].inst /\ hs[t][n].inst # 0
  BY <1>1 DEF Tellings
<1>3. PICK n \in 1..Len(groups[t]) : groups[t][n].inst = 0 /\ hs[t][n].inst = out[a].inst /\ hs[t][n].inst # 0
  BY <1>2
<1>4. CalledAs(hs[t][n], groups[t][n], clock + 1, last)
  BY <1>1, <1>3 DEF Calls
<1> QED
  BY <1>3, <1>4 DEF CalledAs

LEMMA UpdateCourse ==
    ASSUME Basis, Agreed, Update
    PROVE  Course /\ Batched' /\ Asking'
<1>1. lastInstance \in Nat /\ toWorld \in Seq(ToWorld) /\ tick = 0 /\ tick' = 0 /\ bgs' = bgs
  BY DEF Basis, Typed, Update, worldVars
<1>2. PICK out, news : Updates(out, news)
  BY UpdateDoes
<1>3. /\ Inviting(groups, groups', out, lastInstance') /\ toWorld' = toWorld \o news
      /\ lastInstance' \in Nat /\ lastInstance <= lastInstance' /\ news \in Seq(ToWorld)
      /\ \A k \in 1..Len(news) : (k \in 1..Len(out) /\ news[k] = out[k])
                                 \/ (news[k].type = "create" /\ news[k].inst = lastInstance + 1)
  BY <1>2 DEF Updates, Ends
<1>4. Joined(toWorld', toWorld, news)
  BY <1>1, <1>3, Joining
<1>5. ASSUME NEW n \in 1..Len(toWorld')
      PROVE  \/ n \in 1..Len(toWorld) /\ toWorld'[n] = toWorld[n]
             \/ toWorld'[n].type = "create" /\ toWorld'[n].inst = lastInstance + 1
             \/ \E a \in 1..Len(out) : toWorld'[n] = out[a]
  BY <1>3, <1>4 DEF Joined
<1>6. Inviting(groups, groups', out, lastInstance') => Tellings(groups, groups', out)
  BY DEF Inviting
<1>7. \A a \in 1..Len(out) : out[a].type \in {"invite", "invited"} /\ (out[a].type = "invite" => out[a].inst <= lastInstance')
  <2> SUFFICES ASSUME NEW a \in 1..Len(out)
               PROVE  out[a].type \in {"invite", "invited"} /\ (out[a].type = "invite" => out[a].inst <= lastInstance')
    OBVIOUS
  <2>1. out[a].type \in {"invite", "invited"}
    BY <1>3, <1>6 DEF Tellings
  <2>2. out[a].type = "invite" => out[a].inst \in 1..lastInstance'
    BY <1>3, InvitesUpTo
  <2> QED
    BY <1>3, <2>1, <2>2
<1>8. Past(toWorld, lastInstance) \subseteq Past(toWorld', lastInstance')
  <2> SUFFICES ASSUME NEW i \in Past(toWorld, lastInstance) PROVE i \in Past(toWorld', lastInstance')
    OBVIOUS
  <2>1. i \in Instances /\ i \in Nat /\ i <= lastInstance /\ \A n \in 1..Len(toWorld) : toWorld[n].type = "create" => toWorld[n].inst # i
    BY InstancesAre DEF Past
  <2>2. i <= lastInstance' /\ i # lastInstance + 1
    BY <1>1, <1>3, <2>1
  <2>3. \A n \in 1..Len(toWorld') : toWorld'[n].type = "create" => toWorld'[n].inst # i
    BY <1>5, <1>7, <2>1, <2>2
  <2> QED
    BY <2>1, <2>2, <2>3 DEF Past
<1>9. Asking'
  <2> SUFFICES ASSUME NEW n \in 1..Len(toWorld'), toWorld'[n].type = "invite" PROVE toWorld'[n].inst <= lastInstance'
    BY DEF Asking
  <2>1. CASE n \in 1..Len(toWorld) /\ toWorld'[n] = toWorld[n]
    <3>1. toWorld[n].inst <= lastInstance
      BY <2>1 DEF Agreed, Asking
    <3>2. toWorld[n] \in ToWorld
      BY <1>1, <2>1
    <3>3. toWorld[n].inst \in Nat
      BY <2>1, <3>2, WorldKinds, InstancesAre DEF Invites
    <3> QED
      BY <1>1, <1>3, <2>1, <3>1, <3>3
  <2> QED
    BY <1>5, <1>7, <2>1
<1> QED
  BY <1>1, <1>3, <1>8, <1>9 DEF Course, Batched

\* A player who waits is invited.
LEMMA CoreCalled ==
    ASSUME NEW n, NEW c, NEW said, NEW r, NEW news, NEW past, NEW there, Core(n, c, said, r, news, past, there),
           n # 0, c = 0, \A x \in news : x.type = "invite" => x.inst # 0, NEW c1, c1 # 0, NEW m, m.type = "invite", m.inst = c1,
           NEW news1, news1 = news \cup {m}
    PROVE  Core(n, c1, said, r, news1, past, there) /\ \A x \in news : x.type = "joined"
<1>1. CASE r.online
  <2>1. OnQueue(c, said, r, news, past) /\ "accept" \notin said
    BY <1>1 DEF Core
  <2>2. \A x \in news : x.type = "joined"
    BY <2>1 DEF OnQueue
  <2>3. OnQueue(c1, said, r, news1, past)
    BY <2>1, <2>2 DEF OnQueue
  <2> QED
    BY <1>1, <2>1, <2>2, <2>3 DEF Core
<1>2. CASE ~r.online
  BY <1>2 DEF Core
<1> QED
  BY <1>1, <1>2

NoInvites(out, p) == \A a \in 1..Len(out) : ~IsInvite(out[a], p)

\* One invitation for p, to i.
OneInvite(out, p, i) == \E j : \E m \in ToWorld : OnlyOne(out, j, m, p) /\ m.type = "invite" /\ m.inst = i

LEMMA TellingsAre ==
    ASSUME NEW out, NEW news, Updates(out, news)
    PROVE  /\ out \in Seq(ToWorld) /\ Calls(groups, groups', clock + 1, lastInstance')
           /\ Tellings(groups, groups', out) /\ ToldOnce(groups, out) /\ ToldAll(groups, groups', out)
           /\ Ends(out, news) /\ news \in Seq(ToWorld) /\ toWorld' = toWorld \o news
BY DEF Updates, Inviting, Ends

LEMMA UpdateUntold ==
    ASSUME Basis, NEW out, NEW news, Updates(out, news), NEW p, NoInvites(out, p)
    PROVE  SameNews(toWorld, toWorld', p)
<1>1. Ends(out, news) /\ Tellings(groups, groups', out) /\ news \in Seq(ToWorld) /\ toWorld' = toWorld \o news
  BY TellingsAre
<1>2. \A k \in 1..Len(news) : ~About(news[k], p)
  BY <1>1 DEF Ends, Tellings, About, NoInvites, IsInvite
<1>3. toWorld \in Seq(ToWorld)
  BY DEF Basis, Typed
<1> QED
  BY <1>1, <1>2, <1>3, NewsSilent

LEMMA NobodyCalled ==
    ASSUME Basis, NEW out, NEW news, Updates(out, news), NEW p, Own(p, groups, queued), queued[p] = 0
    PROVE  NoInvites(out, p)
<1> SUFFICES ASSUME NEW a \in 1..Len(out), IsInvite(out[a], p) PROVE FALSE
  BY DEF NoInvites
<1>1. Tellings(groups, groups', out)
  BY TellingsAre
<1>2. PICK t \in Teams : \E n \in 1..Len(groups[t]) : p \in groups[t][n].players
  BY <1>1 DEF Tellings, IsInvite
<1>3. PICK n \in 1..Len(groups[t]) : p \in groups[t][n].players
  BY <1>2
<1>4. groups[t] \in Seq(SideGroups(t))
  BY DEF Basis, Typed
<1>5. groups[t][n].id \in 1..Requests
  BY <1>4 DEF SideGroups, Groups
<1>6. groups[t][n].id = 0
  BY <1>3 DEF Own
<1> HIDE DEF Requests
<1> QED
  BY <1>5, <1>6, Numbers

LEMMA CalledOnce ==
    ASSUME Basis, NEW out, NEW news, Updates(out, news), NEW p, Single(p, groups),
           NEW t \in Teams, NEW n \in 1..Len(groups[t]), p \in groups[t][n].players
    PROVE  \/ groups'[t][n].inst = groups[t][n].inst /\ NoInvites(out, p)
           \/ /\ groups[t][n].inst = 0 /\ groups'[t][n].inst # 0
              /\ OneInvite(news, p, groups'[t][n].inst)
<1>1. /\ out \in Seq(ToWorld) /\ Calls(groups, groups', clock + 1, lastInstance')
      /\ Tellings(groups, groups', out) /\ ToldOnce(groups, out) /\ ToldAll(groups, groups', out) /\ Ends(out, news)
  BY TellingsAre
<1>2. ASSUME NEW a \in 1..Len(out), IsInvite(out[a], p)
      PROVE  groups[t][n].inst = 0 /\ groups'[t][n].inst = out[a].inst /\ groups'[t][n].inst # 0
  <2>1. PICK s \in Teams : \E k \in 1..Len(groups[s]) :
             p \in groups[s][k].players /\ groups[s][k].inst = 0 /\ groups'[s][k].inst = out[a].inst /\ groups'[s][k].inst # 0
    BY <1>1, <1>2 DEF Tellings, IsInvite
  <2>2. PICK k \in 1..Len(groups[s]) :
             p \in groups[s][k].players /\ groups[s][k].inst = 0 /\ groups'[s][k].inst = out[a].inst /\ groups'[s][k].inst # 0
    BY <2>1
  <2>3. s = t /\ k = n
    BY <2>2 DEF Single
  <2> QED
    BY <2>2, <2>3
<1>3. CASE groups'[t][n] = groups[t][n]
  BY <1>2, <1>3 DEF NoInvites
<1>4. CASE CalledAs(groups'[t][n], groups[t][n], clock + 1, lastInstance')
  <2>1. groups[t][n].inst = 0 /\ groups'[t][n].inst # 0
    BY <1>4 DEF CalledAs
  <2>2. PICK j \in 1..Len(out) : IsInvite(out[j], p)
    BY <1>1, <2>1 DEF ToldAll
  <2>3. out[j] \in ToWorld /\ out[j].type = "invite" /\ out[j].inst = groups'[t][n].inst /\ About(out[j], p)
    BY <1>1, <1>2, <2>2 DEF IsInvite, About
  <2>4. j \in 1..Len(news) /\ news[j] = out[j]
    BY <1>1, <2>2 DEF Ends
  <2>5. ASSUME NEW k \in 1..Len(news), About(news[k], p) PROVE k = j
    <3>1. k \in 1..Len(out) /\ news[k] = out[k]
      BY <1>1, <2>5 DEF Ends, About
    <3>2. out[k].type \in {"invite", "invited"}
      BY <1>1, <3>1 DEF Tellings
    <3>3. IsInvite(out[k], p)
      BY <2>5, <3>1, <3>2 DEF About, IsInvite
    <3> QED
      BY <1>1, <2>2, <3>1, <3>3 DEF ToldOnce
  <2> DEFINE m == out[j]
  <2>6. m \in ToWorld /\ m.type = "invite" /\ m.inst = groups'[t][n].inst /\ OnlyOne(news, j, m, p)
    BY <2>3, <2>4, <2>5 DEF OnlyOne
  <2> HIDE DEF m
  <2>7. OneInvite(news, p, groups'[t][n].inst)
    BY <2>6 DEF OneInvite
  <2> QED
    BY <2>1, <2>7
<1> QED
  BY <1>1, <1>3, <1>4 DEF Calls

\* The player's group after the update.
LEMMA InstCalled ==
    ASSUME Basis, Basis', NEW out, NEW news, Updates(out, news), queued' = queued, NEW p \in Players, queued[p] # 0
    PROVE  \E n \in 1..Len(groups[TeamOf[p]]) :
               /\ p \in groups[TeamOf[p]][n].players
               /\ InstIn(p, queued, groups) = groups[TeamOf[p]][n].inst
               /\ InstIn(p, queued', groups') = groups'[TeamOf[p]][n].inst
<1> DEFINE t == TeamOf[p]
<1>1. t \in Teams
  BY QueueAssumption
<1>2. Sides(groups) /\ Distinct(toQueue, groups) /\ Enlisted(queued, groups)
  BY DEF Basis, Typed, Crowd, Numbered, Sides
<1>3. Sides(groups') /\ Distinct(toQueue', groups')
  BY DEF Basis, Typed, Crowd, Numbered, Sides
<1>4. PICK n \in 1..Len(groups[t]) : groups[t][n].id = queued[p] /\ p \in groups[t][n].players
  BY <1>2 DEF Enlisted
<1>5. Calls(groups, groups', clock + 1, lastInstance')
  BY TellingsAre
<1>6. n \in 1..Len(groups'[t]) /\ groups'[t][n].id = groups[t][n].id
  BY <1>1, <1>5, CallsKeep
<1>7. GroupAt(p, queued, groups, n) /\ GroupAt(p, queued', groups', n)
  BY <1>4, <1>6 DEF GroupAt
<1>8. InstIn(p, queued, groups) = groups[t][n].inst
  BY <1>2, <1>7, InstIs
<1>9. InstIn(p, queued', groups') = groups'[t][n].inst
  BY <1>3, <1>7, InstIs
<1> QED
  BY <1>4, <1>8, <1>9

LEMMA UpdateStill ==
    ASSUME Basis, Course, NEW p \in Players, Accord(p), UNCHANGED <<toQueue, queued, player, bgs>>,
           InstIn(p, queued', groups') = InstIn(p, queued, groups), SameNews(toWorld, toWorld', p)
    PROVE  Accord(p)'
<1>1. Quieter(toQueue, toQueue', p)
  BY QuieterSelf
<1>2. Still(p)
  BY <1>1 DEF Still, SameRecord
<1> QED
  BY <1>2, Bystander

LEMMA UpdateActor ==
    ASSUME Basis, Course, NEW p \in Players, Accord(p), UNCHANGED <<toQueue, queued, player, bgs>>, queued[p] # 0,
           NEW out, NEW news, Updates(out, news), InstIn(p, queued, groups) = 0, NEW i, i # 0,
           InstIn(p, queued', groups') = i, OneInvite(news, p, i)
    PROVE  Accord(p)'
<1>1. PICK j : \E m \in ToWorld : OnlyOne(news, j, m, p) /\ m.type = "invite" /\ m.inst = i
  BY DEF OneInvite
<1>2. PICK m \in ToWorld : OnlyOne(news, j, m, p) /\ m.type = "invite" /\ m.inst = i
  BY <1>1
<1>3. toWorld \in Seq(ToWorld) /\ news \in Seq(ToWorld) /\ toWorld' = toWorld \o news
  BY TellingsAre DEF Basis, Typed
<1>4. /\ InTurn(toWorld, p) /\ Earlier(toQueue, p) /\ CoreOf(p)
      /\ \A k \in Instances : p \in bgs[k].players => player[p].at = k
      /\ player[p].invited <= lastInstance
      /\ Sent(player[p], tick, Past(toWorld, lastInstance))
  BY DEF Accord
<1> DEFINE n == queued[p]
           c == InstIn(p, queued, groups)
           said == Said(toQueue, p)
           r == player[p]
           told == News(toWorld, p)
           past == Past(toWorld, lastInstance)
           there == There(bgs)
           told1 == told \cup {m}
<1>5. Core(n, c, said, r, told, past, there)
  BY <1>4 DEF CoreOf
<1>6. \A x \in told : x.type = "invite" => x.inst # 0
  BY NewsAre, InstancesAre DEF Invites
<1>7. n # 0 /\ c = 0 /\ i # 0 /\ m.type = "invite" /\ m.inst = i /\ told1 = told \cup {m}
  BY <1>2
<1>8. /\ queued'[p] = n /\ InstIn(p, queued', groups') = i /\ SaysLess(said, Said(toQueue', p)) /\ SameRecord(r, player'[p])
      /\ past \subseteq Past(toWorld', lastInstance') /\ past \cap There(bgs') \subseteq there
  BY DEF SaysLess, SameRecord, Course
<1> HIDE DEF n, c, said, r, told, past, there, told1
<1>9. Core(n, i, said, r, told1, past, there) /\ \A x \in told : x.type = "joined"
  BY ONLY <1>5, <1>6, <1>7, CoreCalled
<1>10. Hears(toWorld, toWorld', m, p)
  <2>1. Outranks(m, toWorld, p)
    BY <1>7, <1>9 DEF Outranks, Rank, told
  <2> QED
    BY <1>2, <1>3, <1>4, <2>1, NewsTold
<1>11. News(toWorld', p) = told1 /\ InTurn(toWorld', p)
  BY <1>10 DEF Hears, told, told1
<1>12. CoreOf(p)'
  BY <1>8, <1>9, <1>11, CoreNext
<1>13. player[p].invited \in Instances \cup {0}
  BY PlayersAre, RecordIs
<1>14. Sent(player[p], tick', Past(toWorld', lastInstance')) /\ player[p].invited <= lastInstance'
  BY <1>4, <1>13, SentOn
<1> QED
  BY <1>4, <1>11, <1>12, <1>14 DEF Accord

LEMMA UpdateAgreed ==
    ASSUME Basis, Orderly, Agreed, Basis', Update
    PROVE  Agreed'
<1>1. UNCHANGED <<toQueue, queued, player, bgs, astray>>
  BY DEF Update, worldVars, history
<1>2. Course /\ Batched' /\ Asking'
  BY UpdateCourse
<1>3. PICK out, news : Updates(out, news)
  BY UpdateDoes
<1>4. ASSUME NEW p \in Players \ astray PROVE Accord(p)'
  <2>1. Accord(p) /\ Own(p, groups, queued)
    BY DEF Agreed, Orderly, Alone
  <2>2. Single(p, groups)
    BY <2>1, SingleIs DEF Basis, Crowd, Numbered
  <2>3. CASE queued[p] = 0
    <3>1. SameNews(toWorld, toWorld', p)
      BY <1>3, <2>1, <2>3, NobodyCalled, UpdateUntold
    <3>2. InstIn(p, queued', groups') = InstIn(p, queued, groups)
      BY <1>1, <2>3 DEF InstIn
    <3> QED
      BY <1>1, <1>2, <2>1, <3>1, <3>2, UpdateStill
  <2>4. CASE queued[p] # 0
    <3> DEFINE t == TeamOf[p]
    <3>1. PICK n \in 1..Len(groups[t]) :
              /\ p \in groups[t][n].players
              /\ InstIn(p, queued, groups) = groups[t][n].inst
              /\ InstIn(p, queued', groups') = groups'[t][n].inst
      BY <1>1, <1>3, <2>4, InstCalled
    <3>2. t \in Teams
      BY QueueAssumption
    <3>3. \/ groups'[t][n].inst = groups[t][n].inst /\ NoInvites(out, p)
          \/ /\ groups[t][n].inst = 0 /\ groups'[t][n].inst # 0
             /\ OneInvite(news, p, groups'[t][n].inst)
      BY <1>3, <2>2, <3>1, <3>2, CalledOnce
    <3>4. CASE groups'[t][n].inst = groups[t][n].inst /\ NoInvites(out, p)
      <4>1. SameNews(toWorld, toWorld', p)
        BY <1>3, <3>4, UpdateUntold
      <4> QED
        BY <1>1, <1>2, <2>1, <3>1, <3>4, <4>1, UpdateStill
    <3>5. CASE groups[t][n].inst = 0 /\ groups'[t][n].inst # 0 /\ OneInvite(news, p, groups'[t][n].inst)
      BY <1>1, <1>2, <1>3, <2>1, <2>4, <3>1, <3>5, UpdateActor
    <3> QED
      BY <3>3, <3>4, <3>5
  <2> QED
    BY <2>3, <2>4
<1> QED
  BY <1>1, <1>2, <1>4 DEF Agreed

-----------------------------------------------------------------------------
\* The world thread: what a step makes of the player whom it concerns.

\* The queue's answer to a request.
LEMMA CoreRegistered ==
    ASSUME NEW n, NEW c, NEW said, NEW r, NEW news, NEW past, NEW there, Core(n, c, said, r, news, past, there),
           "accept" \in said => "answer" \in said,
           NEW h \in news, h.type = "joined", NEW news1, news1 = news \ {h}, \A m \in news1 : Rank(h.type) < Rank(m.type),
           NEW r1, r1.online = r.online, r1.at = r.at, r1.going = r.going, r1.reg, r1.invited = 0
    PROVE  Core(n, c, said, r1, news1, past, there)
<1>1. r.online
  BY DEF Core
<1>2. n # 0
  BY <1>1 DEF Core, OffQueue
<1>3. OnQueue(c, said, r, news, past)
  BY <1>1, <1>2 DEF Core
<1>4. ~r.reg
  BY <1>3 DEF OnQueue
<1>5. "answer" \notin said /\ "accept" \notin said
  BY <1>1, <1>2, <1>4 DEF Core
<1>6. \A m \in news1 : m.type # "joined"
  BY DEF Rank
<1>7. OnQueue(c, said, r1, news1, past)
  BY <1>3, <1>4, <1>6 DEF OnQueue
<1> QED
  BY <1>1, <1>2, <1>5, <1>7 DEF Core

\* The invitation: it is of use to a player who is registered.
LEMMA CoreInvited ==
    ASSUME NEW n, NEW c, NEW said, NEW r, NEW news, NEW past, NEW there, Core(n, c, said, r, news, past, there),
           NEW h \in news, h.type = "invite", NEW news1, news1 = news \ {h}, \A m \in news1 : Rank(h.type) < Rank(m.type),
           NEW r1, r1.online = r.online, r1.at = r.at, r1.going = r.going, r1.reg = r.reg,
           r1.invited = IF r.online /\ r.reg THEN h.inst ELSE r.invited
    PROVE  Core(n, c, said, r1, news1, past, there)
<1>1. \A m \in news1 : m.type \notin {"joined", "invite"}
  BY DEF Rank
<1>2. CASE ~r.online
  BY <1>1, <1>2 DEF Core
<1>3. CASE r.online /\ n # 0
  <2>1. OnQueue(c, said, r, news, past)
    BY <1>3 DEF Core
  <2>2. news1 = {} /\ r.reg /\ c = h.inst /\ r.invited = 0
    <3>1. \A m \in news1 : m.type \in {"joined", "invite"}
      BY <2>1 DEF OnQueue
    <3>2. news1 = {}
      BY <1>1, <3>1
    <3> QED
      BY <2>1, <3>2 DEF OnQueue
  <2>3. OnQueue(c, said, r1, news1, past)
    BY <1>3, <2>1, <2>2 DEF OnQueue
  <2> QED
    BY <1>3, <2>2, <2>3 DEF Core
<1>4. CASE r.online /\ n = 0
  <2>1. OffQueue(said, r, news, past, there)
    BY <1>4 DEF Core
  <2>2. r.reg /\ r.at = 0 /\ \A m \in news : m.type # "port"
    <3>1. r.reg /\ r.at = 0
      BY <2>1 DEF OffQueue
    <3>2. \A m \in news : m.type = "port" => h = m
      BY <2>1 DEF OffQueue
    <3> QED
      BY <3>1, <3>2
  <2>3. \E m \in news : m.type = "left"
    BY <2>1, <2>2 DEF OffQueue
  <2>4. \E m \in news1 : m.type = "left"
    BY <2>3
  <2>5. OffQueue(said, r1, news1, past, there)
    BY <2>1, <2>2, <2>4 DEF OffQueue
  <2> QED
    BY <1>4, <2>2, <2>5 DEF Core
<1> QED
  BY <1>2, <1>3, <1>4

\* He is sent to his battleground.
LEMMA CoreSent ==
    ASSUME NEW n, NEW c, NEW said, NEW r, NEW news, NEW past, NEW there, Core(n, c, said, r, news, past, there),
           NEW h \in news, h.type = "port", h.inst # 0, NEW news1, news1 = news \ {h}, \A m \in news1 : Rank(h.type) < Rank(m.type),
           \A m \in news : m.type \in {"joined", "invite", "port", "left"},
           NEW r1, r1.online = r.online, r1.reg = r.reg, r1.invited = r.invited,
           IF r.online THEN r1.at = h.inst ELSE r1.at = r.at /\ r1.going = r.going
    PROVE  Core(n, c, said, r1, news1, past, there) /\ (r.online => r.at = 0)
<1>1. news1 = {}
  BY DEF Rank
<1>2. CASE ~r.online
  BY <1>1, <1>2 DEF Core
<1>3. CASE r.online
  <2>1. n = 0
    BY <1>3 DEF Core, OnQueue
  <2>2. OffQueue(said, r, news, past, there)
    BY <1>3, <2>1 DEF Core
  <2>3. r.reg /\ r.at = 0 /\ r.invited = h.inst /\ h.inst \in past
    BY <2>2 DEF OffQueue
  <2>4. OffQueue(said, r1, news1, past, there)
    BY <1>1, <1>3, <2>2, <2>3 DEF OffQueue
  <2>5. "quit" \notin said
    BY <1>3 DEF Core
  <2> QED
    BY <1>3, <2>1, <2>3, <2>4, <2>5 DEF Core
<1> QED
  BY <1>2, <1>3

\* He is told that he is out of the queue.
LEMMA CoreOut ==
    ASSUME NEW n, NEW c, NEW said, NEW r, NEW news, NEW past, NEW there, Core(n, c, said, r, news, past, there),
           NEW h \in news, h.type = "left", NEW news1, news1 = news \ {h}, \A m \in news1 : Rank(h.type) < Rank(m.type),
           \A m \in news : m.type \in {"joined", "invite", "port", "left"},
           NEW r1, r1.online = r.online, r1.at = r.at, r1.going = r.going,
           IF r.online THEN ~r1.reg /\ r1.invited = 0 ELSE r1.reg = r.reg /\ r1.invited = r.invited
    PROVE  Core(n, c, said, r1, news1, past, there)
<1>1. news1 = {}
  BY DEF Rank
<1>2. CASE ~r.online
  BY <1>1, <1>2 DEF Core
<1>3. CASE r.online
  <2>1. n = 0
    BY <1>3 DEF Core, OnQueue
  <2>2. OffQueue(said, r, news, past, there)
    BY <1>3, <2>1 DEF Core
  <2>3. r.at = 0
    BY <2>2 DEF OffQueue
  <2>4. OffQueue(said, r1, news1, past, there)
    BY <1>1, <1>3, <2>2, <2>3 DEF OffQueue
  <2> QED
    BY <1>3, <2>1, <2>3, <2>4 DEF Core
<1> QED
  BY <1>2, <1>3

\* He asks for the queue.
LEMMA CoreAsks ==
    ASSUME NEW n, NEW c, NEW said, NEW r, NEW news, NEW past, NEW there, Core(n, c, said, r, news, past, there),
           n = 0, r.online, ~r.reg, NEW said1, said1 \subseteq said \cup {"asked"}
    PROVE  Core(n, c, said1, r, news, past, there)
<1>1. OffQueue(said, r, news, past, there) /\ "quit" \notin said
  BY DEF Core
<1>2. OffQueue(said1, r, news, past, there)
  BY <1>1 DEF OffQueue
<1> QED
  BY <1>1, <1>2 DEF Core

\* He answers an invitation, or leaves the queue.
LEMMA CoreAnswers ==
    ASSUME NEW n, NEW c, NEW said, NEW r, NEW news, NEW past, NEW there, Core(n, c, said, r, news, past, there),
           r.online, r.reg, NEW said1, said1 \subseteq said \cup {"answer", "accept"},
           "accept" \in said1 => "accept" \in said \/ (r.invited # 0 /\ r.invited \in past)
    PROVE  Core(n, c, said1, r, news, past, there) /\ "asked" \notin said
<1>1. CASE n # 0
  <2>1. OnQueue(c, said, r, news, past) /\ "quit" \notin said
    BY <1>1 DEF Core
  <2>2. "asked" \notin said1 /\ "asked" \notin said
    BY <2>1 DEF OnQueue
  <2>3. OnQueue(c, said1, r, news, past)
    BY <2>1, <2>2 DEF OnQueue
  <2>4. r.invited # 0 => r.invited = c
    BY <2>1 DEF OnQueue
  <2>5. "accept" \in said1 => c # 0 /\ r.invited = c /\ c \in past
    BY <1>1, <2>4 DEF Core
  <2> QED
    BY <1>1, <2>1, <2>2, <2>3, <2>5 DEF Core
<1>2. CASE n = 0
  <2>1. OffQueue(said, r, news, past, there) /\ "quit" \notin said
    BY <1>2 DEF Core
  <2>2. "asked" \notin said
    BY <2>1 DEF OffQueue
  <2>3. OffQueue(said1, r, news, past, there)
    BY <2>1, <2>2 DEF OffQueue
  <2> QED
    BY <1>2, <2>1, <2>2, <2>3 DEF Core
<1> QED
  BY <1>1, <1>2

\* He arrives, or finds that his battleground has been deleted.
LEMMA CoreArrives ==
    ASSUME NEW n, NEW c, NEW said, NEW r, NEW news, NEW past, NEW there, Core(n, c, said, r, news, past, there),
           r.going, NEW r1, r1.online = r.online, r1.reg = r.reg, r1.invited = r.invited, ~r1.going,
           r1.at = IF r.at \in there THEN r.at ELSE 0
    PROVE  Core(n, c, said, r1, news, past, there)
<1>1. r.online /\ r.at # 0
  BY DEF Core
<1>2. n = 0 /\ "quit" \notin said
  BY <1>1 DEF Core, OnQueue
<1>3. OffQueue(said, r, news, past, there)
  BY <1>1, <1>2 DEF Core
<1>4. r.reg /\ r.invited = r.at /\ r.at \in past /\ news = {}
  BY <1>1, <1>3 DEF OffQueue
<1>5. OffQueue(said, r1, news, past, there)
  BY <1>1, <1>3, <1>4 DEF OffQueue
<1> QED
  BY <1>1, <1>2, <1>5 DEF Core

\* He leaves the battleground he is in.
LEMMA CoreVacates ==
    ASSUME NEW n, NEW c, NEW said, NEW r, NEW news, NEW past, NEW there, Core(n, c, said, r, news, past, there),
           r.online, r.at # 0, ~r.going, NEW r1, r1.online, ~r1.reg, r1.invited = 0, r1.at = 0, ~r1.going
    PROVE  Core(n, c, said, r1, news, past, there)
<1>1. n = 0 /\ "quit" \notin said
  BY DEF Core, OnQueue
<1>2. OffQueue(said, r, news, past, there)
  BY <1>1 DEF Core
<1>3. OffQueue(said, r1, news, past, there)
  BY <1>2 DEF OffQueue
<1> QED
  BY <1>1, <1>3 DEF Core

\* He logs out, and no request of his is under way.
LEMMA CoreQuits ==
    ASSUME NEW n, NEW c, NEW said, NEW r, NEW news, NEW past, NEW there, Core(n, c, said, r, news, past, there),
           r.online, "asked" \notin said, \A m \in news : m.type # "joined",
           NEW r1, ~r1.online, ~r1.going, NEW said1, said1 \subseteq said \cup {"quit"}, r.reg => "quit" \in said1
    PROVE  Core(n, c, said1, r1, news, past, there)
<1>1. "asked" \notin said1
  OBVIOUS
<1>2. CASE n # 0
  <2>1. OnQueue(c, said, r, news, past)
    BY <1>2 DEF Core
  <2>2. r.reg /\ \A m \in news : m.type = "invite" /\ m.inst = c
    BY <2>1 DEF OnQueue
  <2> QED
    BY <1>1, <1>2, <2>2 DEF Core
<1>3. CASE n = 0
  BY <1>1, <1>3 DEF Core
<1> QED
  BY <1>2, <1>3

\* He comes back, to the battleground he was in or elsewhere.
LEMMA CoreBack ==
    ASSUME NEW n, NEW c, NEW said, NEW r, NEW past, NEW there, Core(n, c, said, r, {}, past, there),
           ~r.online, said = {},
           NEW r1, r1.online, ~r1.going,
           (r1.reg /\ r1.at # 0 /\ r1.invited = r1.at /\ r1.at \in past) \/ (~r1.reg /\ r1.at = 0 /\ r1.invited = 0)
    PROVE  Core(n, c, said, r1, {}, past, there)
<1>1. n = 0
  BY DEF Core
<1>2. OffQueue(said, r1, {}, past, there)
  BY DEF OffQueue
<1> QED
  BY <1>1, <1>2 DEF Core

-----------------------------------------------------------------------------
\* The world thread: what a step leaves as it is.

Standing == \A i \in Instances : bgs'[i].status # "none" => bgs[i].status # "none"

LEMMA MessageCourse ==
    ASSUME Basis, Agreed, NEW type, Deliver(type), UNCHANGED lastInstance,
           \A i \in Instances : bgs'[i].status # "none" => bgs[i].status # "none" \/ (type = "create" /\ i = Head(toWorld).inst)
    PROVE  Course /\ Batched' /\ Asking' /\ (tick' = 0 => toWorld' = <<>>)
<1>1. /\ toWorld # <<>> /\ toWorld' = Tail(toWorld) /\ Head(toWorld).type = type /\ toWorld \in Seq(ToWorld)
      /\ tick \in 0..Len(toWorld) /\ lastInstance \in Nat
  BY Delivered DEF Basis, Typed
<1>2. tick' = IF tick > 0 THEN tick - 1 ELSE Len(toWorld) - 1
  BY DEF Deliver
<1>3. /\ Len(toWorld) \in Nat /\ 1 \in 1..Len(toWorld) /\ toWorld[1] = Head(toWorld)
      /\ Len(toWorld') = Len(toWorld) - 1 /\ toWorld' \in Seq(ToWorld)
      /\ \A k \in 1..Len(toWorld') : k + 1 \in 1..Len(toWorld) /\ toWorld'[k] = toWorld[k + 1]
  BY <1>1, TailIs
<1>11. tick = 0 \/ tick = Len(toWorld)
  BY DEF Agreed, Batched
<1>4. tick' = Len(toWorld')
  BY <1>2, <1>3, <1>11
<1>5. tick' = 0 => toWorld' = <<>>
  BY <1>3, <1>4
<1>6. Asking'
  BY <1>3 DEF Agreed, Asking
<1>7. Past(toWorld, lastInstance) \subseteq Past(toWorld', lastInstance)
  BY <1>3 DEF Past
<1>8. type = "create" => Head(toWorld).inst \notin Past(toWorld, lastInstance)
  BY <1>1, <1>3 DEF Past
<1>9. Past(toWorld, lastInstance) \cap There(bgs') \subseteq There(bgs)
  BY <1>8 DEF There
<1>10. Course
  BY <1>1, <1>5, <1>7, <1>9 DEF Course
<1> QED
  BY <1>4, <1>5, <1>6, <1>10 DEF Batched

LEMMA LocalCourse ==
    ASSUME Basis, Agreed, InTick, UNCHANGED <<toWorld, lastInstance>>, Standing
    PROVE  Course /\ Batched' /\ Asking'
<1>1. tick = 0 /\ tick' = 0 /\ lastInstance \in Nat
  BY DEF InTick, Basis, Typed
<1>2. Course
  BY <1>1 DEF Course, There, Standing
<1> QED
  BY <1>1, <1>2 DEF Batched, Agreed, Asking

\* The players whom the step does not concern, and the one it does.
LEMMA OthersStill ==
    ASSUME Basis, Agreed, Course, Batched', Asking', astray \subseteq astray', NEW p,
           \A s \in Players \ astray' : s # p => Still(s),
           p \in Players \ astray' => Accord(p)'
    PROVE  Agreed'
<1>1. \A s \in Players \ astray' : Accord(s)'
  <2> SUFFICES ASSUME NEW s \in Players \ astray' PROVE Accord(s)'
    OBVIOUS
  <2>1. CASE s = p
    BY <2>1
  <2>2. CASE s # p
    BY <2>2, Bystander DEF Agreed
  <2> QED
    BY <2>1, <2>2
<1>2. Batched' /\ Asking' /\ \A s \in Players \ astray' : Accord(s)'
  BY <1>1
<1> QED
  BY <1>2 DEF Agreed

LEMMA NobodyMoved ==
    ASSUME Basis, Agreed, Course, Batched', Asking', UNCHANGED astray, \A s \in Players \ astray : Still(s)
    PROVE  Agreed'
<1>1. \A s \in Players \ astray' : Accord(s)'
  <2> SUFFICES ASSUME NEW s \in Players \ astray' PROVE Accord(s)'
    OBVIOUS
  <2> QED
    BY Bystander DEF Agreed
<1>2. Batched' /\ Asking' /\ \A s \in Players \ astray' : Accord(s)'
  BY <1>1
<1> QED
  BY <1>2 DEF Agreed

LEMMA WorldActor ==
    ASSUME Basis, Course, UNCHANGED <<queued, groups>>, NEW p \in Players,
           NEW n, n = queued[p], NEW c, c = InstIn(p, queued, groups), NEW said, said = Said(toQueue', p),
           NEW r, r = player'[p], NEW news, news = News(toWorld', p),
           NEW past, past = Past(toWorld, lastInstance), NEW there, there = There(bgs),
           Core(n, c, said, r, news, past, there),
           InTurn(toWorld', p), Earlier(toQueue', p), \A i \in Instances : p \in bgs'[i].players => r.at = i,
           Sent(r, tick', Past(toWorld', lastInstance')), r.invited <= lastInstance'
    PROVE  Accord(p)'
<1>1. queued'[p] = n /\ InstIn(p, queued', groups') = c
  BY DEF InstIn
<1>2. SaysLess(said, Said(toQueue', p)) /\ SameRecord(r, player'[p])
  BY DEF SaysLess, SameRecord
<1>3. past \subseteq Past(toWorld', lastInstance') /\ past \cap There(bgs') \subseteq there
  BY DEF Course
<1>4. CoreOf(p)'
  BY <1>1, <1>2, <1>3, CoreNext
<1> QED
  BY <1>4 DEF Accord

\* The record of one player changes.
LEMMA OneRecord ==
    ASSUME Basis, NEW p \in Players, NEW r, player' = player \/ player' = [player EXCEPT ![p] = r]
    PROVE  \A s \in Players : s # p => SameRecord(player[s], player'[s])
<1>1. player \in [Players -> Records]
  BY PlayersAre
<1>2. \A s \in Players : s # p => player'[s] = player[s]
  BY <1>1
<1> QED
  BY <1>2 DEF SameRecord

LEMMA StillIs ==
    ASSUME NEW s, SameNews(toWorld, toWorld', s), Quieter(toQueue, toQueue', s), UNCHANGED <<queued, groups>>,
           SameRecord(player[s], player'[s]), \A i \in Instances : s \in bgs'[i].players => s \in bgs[i].players
    PROVE  Still(s)
BY DEF Still, InstIn

-----------------------------------------------------------------------------
\* The world thread: the messages of the queue.

LEMMA MessageHeard ==
    ASSUME Basis, NEW type, Deliver(type), NEW p, Accord(p), About(Head(toWorld), p),
           NEW h, h = Head(toWorld), NEW news, news = News(toWorld, p), NEW news1, news1 = News(toWorld', p)
    PROVE  /\ h \in news /\ news1 = news \ {h} /\ \A m \in news1 : Rank(h.type) < Rank(m.type)
           /\ \A m \in news : m.type \in {"joined", "invite", "port", "left"}
           /\ InTurn(toWorld', p)
<1>1. toWorld # <<>> /\ toWorld' = Tail(toWorld) /\ toWorld \in Seq(ToWorld)
  BY Delivered DEF Basis, Typed
<1>2. InTurn(toWorld, p)
  BY DEF Accord
<1>3. /\ InTurn(Tail(toWorld), p) /\ Head(toWorld) \in News(toWorld, p)
      /\ News(Tail(toWorld), p) = News(toWorld, p) \ {Head(toWorld)}
      /\ \A m \in News(toWorld, p) \ {Head(toWorld)} : Rank(Head(toWorld).type) < Rank(m.type)
  BY <1>1, <1>2, NewsHeard
<1>4. \A m \in news : m.type \in {"joined", "invite", "port", "left"}
  BY NewsAre
<1> QED
  BY <1>1, <1>3, <1>4

LEMMA MessageOther ==
    ASSUME Basis, NEW type, Deliver(type), UNCHANGED bgs, UNCHANGED queueVars, NEW s, Accord(s), ~About(Head(toWorld), s),
           Quieter(toQueue, toQueue', s), SameRecord(player[s], player'[s])
    PROVE  Still(s)
<1>1. toWorld # <<>> /\ toWorld' = Tail(toWorld) /\ toWorld \in Seq(ToWorld) /\ InTurn(toWorld, s)
  BY Delivered DEF Basis, Typed, Accord
<1>2. SameNews(toWorld, toWorld', s)
  BY <1>1, NewsHeard
<1>3. UNCHANGED <<queued, groups>>
  BY DEF queueVars
<1> QED
  BY <1>2, <1>3, StillIs

LEMMA SaidAccepts ==
    ASSUME NEW q, NEW p, NEW said, said = Said(q, p)
    PROVE  "accept" \in said => "answer" \in said
BY DEF Said, Accepting, Answering

LEMMA RegisteredAgreed ==
    ASSUME Basis, Agreed, PlayersRegistered
    PROVE  Agreed'
<1> DEFINE h == Head(toWorld)
<1>1. /\ Deliver("joined") /\ UNCHANGED <<toQueue, bgs, astray, lastInstance, queued, groups>> /\ UNCHANGED queueVars
      /\ player' = [p \in Players |-> IF p \in h.party /\ player[p].online
                                     THEN [player[p] EXCEPT !.reg = TRUE, !.invited = 0] ELSE player[p]]
  BY DEF PlayersRegistered, history, queueVars
<1>2. Course /\ Batched' /\ Asking' /\ (tick' = 0 => toWorld' = <<>>)
  BY <1>1, MessageCourse
<1>3. h.type = "joined" /\ player \in [Players -> Records]
  BY <1>1, Delivered, PlayersAre
<1>4. ASSUME NEW p \in Players \ astray PROVE Accord(p)'
  <2>1. Accord(p)
    BY <1>4 DEF Agreed
  <2>2. Quieter(toQueue, toQueue', p)
    BY <1>1, QuieterSelf
  <2>3. CASE p \notin h.party
    <3>1. ~About(Head(toWorld), p)
      BY <1>3, <2>3 DEF About
    <3>2. SameRecord(player[p], player'[p])
      BY <1>1, <2>3 DEF SameRecord
    <3>3. Still(p)
      BY <1>1, <2>1, <2>2, <3>1, <3>2, MessageOther
    <3> QED
      BY <1>2, <2>1, <3>3, Bystander
  <2>4. CASE p \in h.party
    <3> DEFINE n == queued[p]
               c == InstIn(p, queued, groups)
               said == Said(toQueue, p)
               r == player[p]
               news == News(toWorld, p)
               past == Past(toWorld, lastInstance)
               there == There(bgs)
               r1 == player'[p]
               news1 == News(toWorld', p)
    <3>1. About(h, p)
      BY <1>3, <2>4 DEF About
    <3>2. /\ h \in news /\ news1 = news \ {h} /\ \A m \in news1 : Rank(h.type) < Rank(m.type)
          /\ \A m \in news : m.type \in {"joined", "invite", "port", "left"}
          /\ InTurn(toWorld', p)
      BY <1>1, <2>1, <3>1, MessageHeard
    <3>3. Core(n, c, said, r, news, past, there) /\ Earlier(toQueue, p) /\ \A i \in Instances : p \in bgs[i].players => r.at = i
      BY <2>1 DEF Accord, CoreOf
    <3>4. "accept" \in said => "answer" \in said
      BY SaidAccepts
    <3>5. r.online
      <4> HIDE DEF n, c, said, r, news, past, there, h
      <4> QED
        BY ONLY <1>3, <3>2, <3>3 DEF Core
    <3>6. r1.online = r.online /\ r1.at = r.at /\ r1.going = r.going /\ r1.reg /\ r1.invited = 0
      <4>1. r1 = [r EXCEPT !.reg = TRUE, !.invited = 0] /\ r \in Records
        BY <1>1, <1>3, <2>4, <3>5
      <4> HIDE DEF r, r1
      <4> QED
        BY <4>1 DEF Records
    <3> HIDE DEF n, c, said, r, news, past, there, h, r1, news1
    <3>7. Core(n, c, said, r1, news1, past, there)
      BY ONLY <1>3, <3>2, <3>3, <3>4, <3>6, CoreRegistered
    <3>8. said = Said(toQueue', p) /\ Earlier(toQueue', p) /\ \A i \in Instances : p \in bgs'[i].players => r1.at = i
      BY <1>1, <3>3, <3>6 DEF said
    <3>9. Sent(r1, tick', Past(toWorld', lastInstance')) /\ r1.invited <= lastInstance'
      <4>1. lastInstance' \in Nat
        BY <1>2 DEF Course
      <4> QED
        BY <3>6, <4>1 DEF Sent
    <3>10. n = queued[p] /\ c = InstIn(p, queued, groups) /\ r1 = player'[p] /\ news1 = News(toWorld', p)
           /\ past = Past(toWorld, lastInstance) /\ there = There(bgs)
      BY DEF n, c, r1, news1, past, there
    <3> QED
      BY <1>1, <1>2, <3>2, <3>7, <3>8, <3>9, <3>10, WorldActor
  <2> QED
    BY <2>3, <2>4
<1>5. \A p \in Players \ astray' : Accord(p)'
  BY <1>1, <1>4
<1>6. Batched' /\ Asking' /\ \A p \in Players \ astray' : Accord(p)'
  BY <1>2, <1>5
<1> QED
  BY <1>6 DEF Agreed

-----------------------------------------------------------------------------
\* The world thread: the messages for one player.

LEMMA InvitedAgreed ==
    ASSUME Basis, Agreed, PlayerInvited
    PROVE  Agreed'
<1> DEFINE h == Head(toWorld)
<1>17. Deliver("invite")
  BY DEF PlayerInvited
<1>2. Head(toWorld) \in ToWorld /\ Head(toWorld).type = "invite" /\ toWorld[1] = h /\ 1 \in 1..Len(toWorld)
  BY <1>17, Delivered
<1>18. h.player \in Players /\ h.inst \in Instances
  BY <1>2, WorldKinds DEF Invites
<1>3. PICK p \in Players : p = h.player /\ h.inst \in Instances
  BY <1>18
<1> DEFINE old == player[p]
           inst == IF old.reg THEN h.inst ELSE old.invited
           timers == Append(old.timers, [inst |-> h.inst, due |-> h.due])
           r2 == [old EXCEPT !.invited = inst, !.timers = timers]
<1>1. /\ Deliver("invite") /\ UNCHANGED <<toQueue, bgs, astray, lastInstance, queued, groups>> /\ UNCHANGED queueVars
      /\ player' = IF ~player[p].online THEN player
                   ELSE [player EXCEPT ![p].invited = IF player[p].reg THEN h.inst ELSE @,
                                       ![p].timers = Append(@, [inst |-> h.inst, due |-> h.due])]
  BY <1>3 DEF PlayerInvited, history, queueVars
<1>4. player \in [Players -> Records] /\ old \in Records
  BY <1>3, PlayersAre
<1>5. Course /\ Batched' /\ Asking' /\ (tick' = 0 => toWorld' = <<>>)
  BY <1>1, MessageCourse
<1>6. [player EXCEPT ![p].invited = IF player[p].reg THEN h.inst ELSE @,
                     ![p].timers = Append(@, [inst |-> h.inst, due |-> h.due])] = [player EXCEPT ![p] = r2]
  BY <1>3, <1>4
<1>14. old.timers = player[p].timers /\ r2.online = old.online /\ r2.reg = old.reg /\ r2.at = old.at /\ r2.going = old.going
       /\ r2.invited = inst
  <2> HIDE DEF inst, timers, old
  <2>1. r2.online = old.online /\ r2.reg = old.reg /\ r2.at = old.at /\ r2.going = old.going /\ r2.invited = inst
    BY <1>4 DEF Records
  <2> QED
    BY <2>1 DEF old
<1>13. inst = IF player[p].reg THEN h.inst ELSE player[p].invited
  OBVIOUS
<1>15. r2.online = player[p].online /\ r2.reg = player[p].reg /\ r2.at = player[p].at /\ r2.going = player[p].going
       /\ r2.invited = IF player[p].reg THEN h.inst ELSE player[p].invited
  BY <1>14, <1>13
<1>16. h.type = "invite" /\ h.inst <= lastInstance
  BY <1>2 DEF Agreed, Asking
<1> HIDE DEF r2, old, inst, timers, h
<1>7. player' = player \/ player' = [player EXCEPT ![p] = r2]
  BY <1>1, <1>6
<1>8. player'[p] = IF player[p].online THEN r2 ELSE player[p]
  BY <1>1, <1>3, <1>4, <1>6
<1>9. ASSUME NEW s \in Players \ astray, s # p PROVE Still(s)
  <2>1. ~About(Head(toWorld), s)
    BY <1>2, <1>3, <1>9 DEF About, h
  <2>2. Quieter(toQueue, toQueue', s)
    BY <1>1, QuieterSelf
  <2>3. Accord(s)
    BY <1>9 DEF Agreed
  <2>4. SameRecord(player[s], player'[s])
    BY <1>3, <1>7, <1>9, OneRecord
  <2> QED
    BY <1>1, <2>1, <2>2, <2>3, <2>4, MessageOther
<1>10. ASSUME p \in Players \ astray PROVE Accord(p)'
  <2> DEFINE n == queued[p]
             c == InstIn(p, queued, groups)
             said == Said(toQueue, p)
             r == player[p]
             news == News(toWorld, p)
             past == Past(toWorld, lastInstance)
             there == There(bgs)
             r1 == player'[p]
             news1 == News(toWorld', p)
  <2>1. Accord(p)
    BY <1>10 DEF Agreed
  <2>2. About(h, p)
    BY <1>2, <1>3 DEF About, h
  <2>3. /\ h \in news /\ news1 = news \ {h} /\ \A m \in news1 : Rank(h.type) < Rank(m.type)
        /\ \A m \in news : m.type \in {"joined", "invite", "port", "left"}
        /\ InTurn(toWorld', p)
    BY <1>1, <2>1, <2>2, MessageHeard DEF h
  <2>4. /\ Core(n, c, said, r, news, past, there) /\ Earlier(toQueue, p) /\ \A i \in Instances : p \in bgs[i].players => r.at = i
        /\ r.invited <= lastInstance /\ Sent(r, tick, past)
    BY <2>1 DEF Accord, CoreOf
  <2>5. r \in Records /\ (r1 = IF r.online THEN r2 ELSE r)
    BY <1>3, <1>4, <1>8, PlayersAre
  <2>6. r1.online = r.online /\ r1.at = r.at /\ r1.going = r.going /\ r1.reg = r.reg
        /\ r1.invited = IF r.online /\ r.reg THEN h.inst ELSE r.invited
    BY <1>15, <2>5
  <2> HIDE DEF n, c, said, r, news, past, there, h, r1, news1, r2
  <2>7. Core(n, c, said, r1, news1, past, there)
    BY ONLY <1>16, <2>3, <2>4, <2>6, CoreInvited
  <2>8. said = Said(toQueue', p) /\ Earlier(toQueue', p) /\ \A i \in Instances : p \in bgs'[i].players => r1.at = i
    BY <1>1, <2>4, <2>6 DEF said
  <2>9. Sent(r1, tick', Past(toWorld', lastInstance')) /\ r1.invited <= lastInstance'
    <3>1. CASE r.online /\ r.reg
      <4>1. r1.invited = h.inst /\ h.inst <= lastInstance'
        BY <1>1, <1>16, <2>6, <3>1
      <4>2. toWorld' = <<>> => Past(toWorld', lastInstance') = {i \in Instances : i <= lastInstance'}
        BY DEF Past
      <4> QED
        BY <1>3, <1>5, <4>1, <4>2 DEF Sent
    <3>2. CASE ~(r.online /\ r.reg)
      <4>1. r.invited \in Instances \cup {0}
        BY <2>5, RecordIs
      <4>2. r1.invited = r.invited /\ ~(r1.online /\ r1.reg)
        BY <2>6, <3>2
      <4> QED
        BY <1>5, <2>4, <4>1, <4>2, SentOn DEF past
    <3> QED
      BY <3>1, <3>2
  <2>10. n = queued[p] /\ c = InstIn(p, queued, groups) /\ r1 = player'[p] /\ news1 = News(toWorld', p)
         /\ past = Past(toWorld, lastInstance) /\ there = There(bgs)
    BY DEF n, c, r1, news1, past, there
  <2>11. Basis /\ Course /\ UNCHANGED <<queued, groups>> /\ p \in Players /\ InTurn(toWorld', p)
    BY <1>1, <1>3, <1>5, <2>3
  <2> QED
    BY ONLY <2>7, <2>8, <2>9, <2>10, <2>11, WorldActor
<1>11. \A s \in Players \ astray' : s # p => Still(s)
  BY <1>1, <1>9
<1>12. p \in Players \ astray' => Accord(p)'
  BY <1>1, <1>10
<1> QED
  BY <1>1, <1>5, <1>11, <1>12, OthersStill

LEMMA SendAgreed ==
    ASSUME Basis, Agreed, SendToBattleGround
    PROVE  Agreed'
<1> DEFINE h == Head(toWorld)
<1>17. Deliver("port")
  BY DEF SendToBattleGround
<1>2. Head(toWorld) \in ToWorld /\ Head(toWorld).type = "port"
  BY <1>17, Delivered
<1>18. h.player \in Players /\ h.inst \in Instances
  BY <1>2, WorldKinds DEF Ports
<1>3. PICK p \in Players : p = h.player /\ h.inst \in Instances
  BY <1>18
<1> DEFINE at == h.inst
           going == Exists(h.inst)
           old == player[p]
           r2 == [old EXCEPT !.at = at, !.going = going]
<1>1. /\ Deliver("port") /\ UNCHANGED <<toQueue, bgs, astray, lastInstance, queued, groups>> /\ UNCHANGED queueVars
      /\ player' = IF ~player[p].online THEN player ELSE [player EXCEPT ![p].at = at, ![p].going = going]
  BY <1>3 DEF SendToBattleGround, history, queueVars
<1>4. player \in [Players -> Records] /\ old \in Records
  BY <1>3, PlayersAre
<1>5. Course /\ Batched' /\ Asking' /\ (tick' = 0 => toWorld' = <<>>)
  BY <1>1, MessageCourse
<1> HIDE DEF going
<1>6. [player EXCEPT ![p].at = at, ![p].going = going] = [player EXCEPT ![p] = r2]
  BY <1>3, <1>4
<1>14. r2.online = old.online /\ r2.reg = old.reg /\ r2.invited = old.invited /\ r2.at = h.inst
  <2> HIDE DEF old
  <2> QED
    BY <1>4 DEF Records
<1>15. r2.online = player[p].online /\ r2.reg = player[p].reg /\ r2.invited = player[p].invited /\ r2.at = h.inst
  BY <1>14
<1>16. h.type = "port" /\ h.inst # 0 /\ 0 \notin Instances
  BY <1>2, <1>3, InstancesAre
<1> HIDE DEF r2, old, at, h
<1>7. player' = player \/ player' = [player EXCEPT ![p] = r2]
  BY <1>1, <1>6
<1>8. player'[p] = IF player[p].online THEN r2 ELSE player[p]
  BY <1>1, <1>3, <1>4, <1>6
<1>9. ASSUME NEW s \in Players \ astray, s # p PROVE Still(s)
  <2>1. ~About(Head(toWorld), s)
    BY <1>2, <1>3, <1>9 DEF About, h
  <2>2. Quieter(toQueue, toQueue', s)
    BY <1>1, QuieterSelf
  <2>3. Accord(s)
    BY <1>9 DEF Agreed
  <2>4. SameRecord(player[s], player'[s])
    BY <1>3, <1>7, <1>9, OneRecord
  <2> QED
    BY <1>1, <2>1, <2>2, <2>3, <2>4, MessageOther
<1>10. ASSUME p \in Players \ astray PROVE Accord(p)'
  <2> DEFINE n == queued[p]
             c == InstIn(p, queued, groups)
             said == Said(toQueue, p)
             r == player[p]
             news == News(toWorld, p)
             past == Past(toWorld, lastInstance)
             there == There(bgs)
             r1 == player'[p]
             news1 == News(toWorld', p)
  <2>1. Accord(p)
    BY <1>10 DEF Agreed
  <2>2. About(h, p)
    BY <1>2, <1>3 DEF About, h
  <2>3. /\ h \in news /\ news1 = news \ {h} /\ \A m \in news1 : Rank(h.type) < Rank(m.type)
        /\ \A m \in news : m.type \in {"joined", "invite", "port", "left"}
        /\ InTurn(toWorld', p)
    BY <1>1, <2>1, <2>2, MessageHeard DEF h
  <2>4. /\ Core(n, c, said, r, news, past, there) /\ Earlier(toQueue, p) /\ \A i \in Instances : p \in bgs[i].players => r.at = i
        /\ r.invited <= lastInstance /\ Sent(r, tick, past)
    BY <2>1 DEF Accord, CoreOf
  <2>5. r \in Records /\ (r1 = IF r.online THEN r2 ELSE r)
    BY <1>3, <1>4, <1>8, PlayersAre
  <2>6. r1.online = r.online /\ r1.reg = r.reg /\ r1.invited = r.invited
        /\ IF r.online THEN r1.at = h.inst ELSE r1.at = r.at /\ r1.going = r.going
    BY <1>15, <2>5
  <2> HIDE DEF n, c, said, r, news, past, there, h, r1, news1, r2
  <2>7. Core(n, c, said, r1, news1, past, there) /\ (r.online => r.at = 0)
    BY ONLY <1>16, <2>3, <2>4, <2>6, CoreSent
  <2>8. said = Said(toQueue', p) /\ Earlier(toQueue', p) /\ \A i \in Instances : p \in bgs'[i].players => r1.at = i
    <3>1. \A i \in Instances : p \in bgs[i].players => r1.at = i
      BY <1>16, <2>4, <2>6, <2>7
    <3> QED
      BY <1>1, <2>4, <3>1 DEF said
  <2>9. Sent(r1, tick', Past(toWorld', lastInstance')) /\ r1.invited <= lastInstance'
    <3>1. r.invited \in Instances \cup {0}
      BY <2>5, RecordIs
    <3>2. r1.invited = r.invited \/ r1.invited = 0
      BY <2>6
    <3>3. r1.online /\ r1.reg /\ r1.invited # 0 => r.online /\ r.reg
      BY <2>6
    <3> QED
      BY <1>5, <2>4, <3>1, <3>2, <3>3, SentOn DEF past
  <2>10. n = queued[p] /\ c = InstIn(p, queued, groups) /\ r1 = player'[p] /\ news1 = News(toWorld', p)
         /\ past = Past(toWorld, lastInstance) /\ there = There(bgs)
    BY DEF n, c, r1, news1, past, there
  <2>11. Basis /\ Course /\ UNCHANGED <<queued, groups>> /\ p \in Players /\ InTurn(toWorld', p)
    BY <1>1, <1>3, <1>5, <2>3
  <2> QED
    BY ONLY <2>7, <2>8, <2>9, <2>10, <2>11, WorldActor
<1>11. \A s \in Players \ astray' : s # p => Still(s)
  BY <1>1, <1>9
<1>12. p \in Players \ astray' => Accord(p)'
  BY <1>1, <1>10
<1> QED
  BY <1>1, <1>5, <1>11, <1>12, OthersStill

LEMMA LeftQueueAgreed ==
    ASSUME Basis, Agreed, PlayerLeftQueue
    PROVE  Agreed'
<1> DEFINE h == Head(toWorld)
<1>17. Deliver("left")
  BY DEF PlayerLeftQueue
<1>2. Head(toWorld) \in ToWorld /\ Head(toWorld).type = "left"
  BY <1>17, Delivered
<1>18. h.player \in Players
  BY <1>2, WorldKinds DEF Lefts
<1>3. PICK p \in Players : p = h.player
  BY <1>18
<1> DEFINE old == player[p]
           r2 == [old EXCEPT !.reg = FALSE, !.invited = 0]
<1>1. /\ Deliver("left") /\ UNCHANGED <<toQueue, bgs, astray, lastInstance, queued, groups>> /\ UNCHANGED queueVars
      /\ player' = IF ~player[p].online THEN player ELSE [player EXCEPT ![p].reg = FALSE, ![p].invited = 0]
  BY <1>3 DEF PlayerLeftQueue, history, queueVars
<1>4. player \in [Players -> Records] /\ old \in Records
  BY <1>3, PlayersAre
<1>5. Course /\ Batched' /\ Asking' /\ (tick' = 0 => toWorld' = <<>>)
  BY <1>1, MessageCourse
<1>6. [player EXCEPT ![p].reg = FALSE, ![p].invited = 0] = [player EXCEPT ![p] = r2]
  BY <1>3, <1>4
<1>14. r2.online = old.online /\ r2.at = old.at /\ r2.going = old.going /\ ~r2.reg /\ r2.invited = 0
  <2> HIDE DEF old
  <2> QED
    BY <1>4 DEF Records
<1>15. r2.online = player[p].online /\ r2.at = player[p].at /\ r2.going = player[p].going /\ ~r2.reg /\ r2.invited = 0
  BY <1>14
<1>16. h.type = "left"
  BY <1>2
<1> HIDE DEF r2, old, h
<1>7. player' = player \/ player' = [player EXCEPT ![p] = r2]
  BY <1>1, <1>6
<1>8. player'[p] = IF player[p].online THEN r2 ELSE player[p]
  BY <1>1, <1>3, <1>4, <1>6
<1>9. ASSUME NEW s \in Players \ astray, s # p PROVE Still(s)
  <2>1. ~About(Head(toWorld), s)
    BY <1>2, <1>3, <1>9 DEF About, h
  <2>2. Quieter(toQueue, toQueue', s)
    BY <1>1, QuieterSelf
  <2>3. Accord(s)
    BY <1>9 DEF Agreed
  <2>4. SameRecord(player[s], player'[s])
    BY <1>3, <1>7, <1>9, OneRecord
  <2> QED
    BY <1>1, <2>1, <2>2, <2>3, <2>4, MessageOther
<1>10. ASSUME p \in Players \ astray PROVE Accord(p)'
  <2> DEFINE n == queued[p]
             c == InstIn(p, queued, groups)
             said == Said(toQueue, p)
             r == player[p]
             news == News(toWorld, p)
             past == Past(toWorld, lastInstance)
             there == There(bgs)
             r1 == player'[p]
             news1 == News(toWorld', p)
  <2>1. Accord(p)
    BY <1>10 DEF Agreed
  <2>2. About(h, p)
    BY <1>2, <1>3 DEF About, h
  <2>3. /\ h \in news /\ news1 = news \ {h} /\ \A m \in news1 : Rank(h.type) < Rank(m.type)
        /\ \A m \in news : m.type \in {"joined", "invite", "port", "left"}
        /\ InTurn(toWorld', p)
    BY <1>1, <2>1, <2>2, MessageHeard DEF h
  <2>4. /\ Core(n, c, said, r, news, past, there) /\ Earlier(toQueue, p) /\ \A i \in Instances : p \in bgs[i].players => r.at = i
        /\ r.invited <= lastInstance /\ Sent(r, tick, past)
    BY <2>1 DEF Accord, CoreOf
  <2>5. r \in Records /\ (r1 = IF r.online THEN r2 ELSE r)
    BY <1>3, <1>4, <1>8, PlayersAre
  <2>6. r1.online = r.online /\ r1.at = r.at /\ r1.going = r.going
        /\ IF r.online THEN ~r1.reg /\ r1.invited = 0 ELSE r1.reg = r.reg /\ r1.invited = r.invited
    BY <1>15, <2>5
  <2> HIDE DEF n, c, said, r, news, past, there, h, r1, news1, r2
  <2>7. Core(n, c, said, r1, news1, past, there)
    BY ONLY <1>16, <2>3, <2>4, <2>6, CoreOut
  <2>8. said = Said(toQueue', p) /\ Earlier(toQueue', p) /\ \A i \in Instances : p \in bgs'[i].players => r1.at = i
    BY <1>1, <2>4, <2>6 DEF said
  <2>9. Sent(r1, tick', Past(toWorld', lastInstance')) /\ r1.invited <= lastInstance'
    <3>1. r.invited \in Instances \cup {0}
      BY <2>5, RecordIs
    <3>2. r1.invited = r.invited \/ r1.invited = 0
      BY <2>6
    <3>3. r1.online /\ r1.reg /\ r1.invited # 0 => r.online /\ r.reg
      BY <2>6
    <3> QED
      BY <1>5, <2>4, <3>1, <3>2, <3>3, SentOn DEF past
  <2>10. n = queued[p] /\ c = InstIn(p, queued, groups) /\ r1 = player'[p] /\ news1 = News(toWorld', p)
         /\ past = Past(toWorld, lastInstance) /\ there = There(bgs)
    BY DEF n, c, r1, news1, past, there
  <2>11. Basis /\ Course /\ UNCHANGED <<queued, groups>> /\ p \in Players /\ InTurn(toWorld', p)
    BY <1>1, <1>3, <1>5, <2>3
  <2> QED
    BY ONLY <2>7, <2>8, <2>9, <2>10, <2>11, WorldActor
<1>11. \A s \in Players \ astray' : s # p => Still(s)
  BY <1>1, <1>9
<1>12. p \in Players \ astray' => Accord(p)'
  BY <1>1, <1>10
<1> QED
  BY <1>1, <1>5, <1>11, <1>12, OthersStill

-----------------------------------------------------------------------------
\* The world thread: the messages for no player, and the battlegrounds.

Emptier == \A i \in Instances : bgs'[i].players \subseteq bgs[i].players

LEMMA OneGround ==
    ASSUME Basis, NEW i \in Instances, NEW b, bgs' = [bgs EXCEPT ![i] = b]
    PROVE  /\ b.players \subseteq bgs[i].players => Emptier
           /\ (b.status # "none" => bgs[i].status # "none") => Standing
           /\ bgs'[i] = b /\ \A j \in Instances : j # i => bgs'[j] = bgs[j]
<1>1. bgs \in [Instances -> Grounds]
  BY GroundsAre
<1>2. \A j \in Instances : bgs'[j] = IF j = i THEN b ELSE bgs[j]
  BY <1>1
<1> QED
  BY <1>2 DEF Emptier, Standing

LEMMA SameGrounds ==
    ASSUME UNCHANGED bgs
    PROVE  Emptier /\ Standing
BY DEF Emptier, Standing

\* The step concerns nobody's record.
LEMMA NobodyConcerned ==
    ASSUME Basis, Agreed, Course, Batched', Asking', UNCHANGED <<player, queued, groups, astray>>, Emptier,
           \A s \in Players \ astray : SameNews(toWorld, toWorld', s) /\ Quieter(toQueue, toQueue', s)
    PROVE  Agreed'
<1>1. ASSUME NEW s \in Players \ astray PROVE Still(s)
  <2>1. SameRecord(player[s], player'[s]) /\ \A i \in Instances : s \in bgs'[i].players => s \in bgs[i].players
    BY DEF SameRecord, Emptier
  <2> QED
    BY <2>1, StillIs
<1> QED
  BY <1>1, NobodyMoved

LEMMA MessageForNobody ==
    ASSUME Basis, Agreed, NEW type \in {"invited", "create", "expired"}, Deliver(type), NEW s \in Players \ astray
    PROVE  SameNews(toWorld, toWorld', s)
<1>1. toWorld # <<>> /\ toWorld' = Tail(toWorld) /\ toWorld \in Seq(ToWorld) /\ InTurn(toWorld, s)
  BY Delivered DEF Basis, Typed, Agreed, Accord
<1>2. ~About(Head(toWorld), s)
  BY DEF About, Deliver
<1> QED
  BY <1>1, <1>2, NewsHeard

LEMMA CountAgreed ==
    ASSUME Basis, Agreed, SetInvitedCount
    PROVE  Agreed'
<1> DEFINE m == Head(toWorld)
           i == m.inst
           old == bgs[i]
           b == [old EXCEPT !.invited[m.team] = m.count]
<1>1. /\ Deliver("invited") /\ UNCHANGED <<toQueue, player, queued, groups, lastInstance, astray>>
      /\ bgs' = IF Exists(i) THEN [bgs EXCEPT ![i].invited[m.team] = m.count] ELSE bgs
  BY DEF SetInvitedCount, history, queueVars
<1>2. Head(toWorld) \in ToWorld /\ Head(toWorld).type = "invited"
  BY <1>1, Delivered
<1>3. i \in Instances
  BY <1>2, WorldKinds DEF NewCounts
<1>4. bgs \in [Instances -> Grounds] /\ old \in Grounds
  BY <1>3, GroundsAre
<1>5. [bgs EXCEPT ![i].invited[m.team] = m.count] = [bgs EXCEPT ![i] = b]
  BY <1>3, <1>4
<1>6. b.players = bgs[i].players /\ b.status = bgs[i].status
  <2> HIDE DEF m, i, old
  <2>1. b.players = old.players /\ b.status = old.status
    BY <1>4 DEF Grounds
  <2> QED
    BY <2>1 DEF old
<1> HIDE DEF b, i, old, m
<1>7. Emptier /\ Standing
  <2>1. CASE bgs' = bgs
    BY <2>1, SameGrounds
  <2>2. CASE bgs' = [bgs EXCEPT ![i] = b]
    <3>1. b.players \subseteq bgs[i].players /\ (b.status # "none" => bgs[i].status # "none")
      BY <1>6
    <3> QED
      BY <1>3, <2>2, <3>1, OneGround
  <2> QED
    BY <1>1, <1>5, <2>1, <2>2
<1>8. Course /\ Batched' /\ Asking'
  <2>1. \A j \in Instances : bgs'[j].status # "none" => bgs[j].status # "none" \/ ("invited" = "create" /\ j = Head(toWorld).inst)
    BY <1>7 DEF Standing
  <2> QED
    BY <1>1, <2>1, MessageCourse
<1>9. \A s \in Players \ astray : SameNews(toWorld, toWorld', s) /\ Quieter(toQueue, toQueue', s)
  BY <1>1, MessageForNobody, QuieterSelf
<1> QED
  BY <1>1, <1>7, <1>8, <1>9, NobodyConcerned

LEMMA CreateAgreed ==
    ASSUME Basis, Agreed, CreateNewBattleGround
    PROVE  Agreed'
<1> DEFINE m == Head(toWorld)
           i == m.inst
           b == [NoBg EXCEPT !.status = "join", !.invited = m.invited]
           told == StatusMessage(i, "join")
<1>1. /\ Deliver("create") /\ UNCHANGED <<player, queued, groups, lastInstance, astray>>
      /\ bgs' = [bgs EXCEPT ![i] = b] /\ toQueue' = Append(toQueue, told)
  BY DEF CreateNewBattleGround, history, queueVars
<1>2. Head(toWorld) \in ToWorld /\ Head(toWorld).type = "create"
  BY <1>1, Delivered
<1>3. i \in Instances
  BY <1>2, WorldKinds DEF Creations
<1>4. b.players = {}
  BY DEF NoBg
<1>5. told \in ToQueue /\ Quiet(told)
  BY <1>3 DEF StatusMessage, ToQueue, NewStatuses, Statuses, Quiet
<1>6. i = Head(toWorld).inst
  OBVIOUS
<1> HIDE DEF b, told, i
<1>7. Emptier /\ \A j \in Instances : j # i => bgs'[j] = bgs[j]
  BY <1>1, <1>3, <1>4, OneGround
<1>8. Course /\ Batched' /\ Asking'
  <2>1. \A j \in Instances : bgs'[j].status # "none" => bgs[j].status # "none" \/ ("create" = "create" /\ j = Head(toWorld).inst)
    BY <1>6, <1>7
  <2> QED
    BY <1>1, <2>1, MessageCourse
<1>9. Plain(toQueue, toQueue')
  BY <1>1, <1>5, SilentOne
<1>10. \A s \in Players \ astray : SameNews(toWorld, toWorld', s) /\ Quieter(toQueue, toQueue', s)
  BY <1>1, <1>9, MessageForNobody, QuieterPlain
<1> QED
  BY <1>1, <1>7, <1>8, <1>10, NobodyConcerned

\* A message to the queue in which the player says nothing.
LEMMA QuieterOne ==
    ASSUME NEW p, NEW q \in Seq(ToQueue), NEW m \in ToQueue, ~Asks(m, p), ~IsGone(m, p), ~IsAnswer(m, p)
    PROVE  Quieter(q, Append(q, m), p)
<1> DEFINE q1 == Append(q, m)
<1>2. /\ Asked(q1, p) <=> Asked(q, p) \/ Asks(m, p)
      /\ Quit(q1, p) <=> Quit(q, p) \/ IsGone(m, p)
      /\ Answering(q1, p) <=> Answering(q, p) \/ IsAnswer(m, p)
      /\ Accepting(q1, p) <=> Accepting(q, p) \/ (IsAnswer(m, p) /\ m.enter)
      /\ Earlier(q, p) /\ (IsAnswer(m, p) => ~Asked(q, p)) => Earlier(q1, p)
  BY OneTold
<1> HIDE DEF q1
<1>3. Quieter(q, q1, p)
  BY <1>2 DEF Quieter
<1> QED
  BY <1>3 DEF q1

LEMMA ExpiredAgreed ==
    ASSUME Basis, Agreed, RemoveEventExecute
    PROVE  Agreed'
<1> DEFINE m == Head(toWorld)
           running == Exists(m.inst) /\ ~Ended(m.inst)
           e == [type |-> "expire", player |-> m.player, inst |-> m.inst, due |-> m.due, running |-> running]
<1>1. /\ Deliver("expired") /\ UNCHANGED <<player, bgs, queued, groups, lastInstance, astray>>
      /\ toQueue' = IF ~player[m.player].online \/ ~player[m.player].reg THEN toQueue ELSE Append(toQueue, e)
  BY DEF RemoveEventExecute, history, queueVars
<1>2. Head(toWorld) \in ToWorld /\ Head(toWorld).type = "expired"
  BY <1>1, Delivered
<1>3. m.player \in Players /\ m.inst \in Instances /\ m.due \in 1..Requests
  BY <1>2, WorldKinds DEF Expired
<1>4. running \in BOOLEAN
  BY DEF Exists, Ended
<1> HIDE DEF running
<1>5. e \in ToQueue /\ e.type = "expire"
  BY <1>3, <1>4 DEF ToQueue, Expiries
<1> HIDE DEF e
<1>6. toQueue' = toQueue \/ toQueue' = Append(toQueue, e)
  BY <1>1
<1>7. Course /\ Batched' /\ Asking'
  <2>1. \A j \in Instances : bgs'[j].status # "none" => bgs[j].status # "none" \/ ("expired" = "create" /\ j = Head(toWorld).inst)
    BY <1>1
  <2> QED
    BY <1>1, <2>1, MessageCourse
<1>8. ASSUME NEW s \in Players \ astray PROVE SameNews(toWorld, toWorld', s) /\ Quieter(toQueue, toQueue', s)
  <2>1. SameNews(toWorld, toWorld', s)
    BY <1>1, MessageForNobody
  <2>2. toQueue \in Seq(ToQueue)
    BY DEF Basis, Typed
  <2>3. Quieter(toQueue, toQueue, s)
    BY QuieterSelf
  <2>4. Quieter(toQueue, Append(toQueue, e), s)
    <3>1. ~Asks(e, s) /\ ~IsGone(e, s) /\ ~IsAnswer(e, s)
      BY <1>5 DEF Asks, IsJoin, IsGone, IsAnswer
    <3> QED
      BY <1>5, <2>2, <3>1, QuieterOne
  <2> QED
    BY <1>6, <2>1, <2>3, <2>4
<1>9. Emptier
  BY <1>1, SameGrounds
<1> QED
  BY <1>1, <1>7, <1>8, <1>9, NobodyConcerned

-----------------------------------------------------------------------------
\* The world thread, between the messages: players ask and answer, and battlegrounds begin and end.

LEMMA GroundAgreed ==
    ASSUME Basis, Agreed, NEW i \in Instances, StartMatch(i) \/ EndBattleGround(i) \/ RemoveBattleGround(i)
    PROVE  Agreed'
<1> DEFINE progress == StatusMessage(i, "progress")
           leave == StatusMessage(i, "leave")
           old == bgs[i]
           b1 == [old EXCEPT !.status = "progress"]
           b2 == [old EXCEPT !.listed = FALSE, !.status = "leave"]
<1>1. /\ InTick /\ UNCHANGED <<toWorld, player, astray, queued, groups, lastInstance>>
      /\ \/ toQueue' = Append(toQueue, progress)
         \/ toQueue' = Append(toQueue \o Unlist(i), leave)
         \/ toQueue' = toQueue \o Unlist(i)
  BY DEF StartMatch, EndBattleGround, RemoveBattleGround, history, queueVars
<1>2. progress \in ToQueue /\ Quiet(progress) /\ leave \in ToQueue /\ Quiet(leave)
  BY DEF StatusMessage, ToQueue, NewStatuses, Statuses, Quiet
<1> HIDE DEF progress, leave
<1>3. Plain(toQueue, toQueue')
  BY <1>1, <1>2, SilentOne, SilentEnd, SilentUnlist
<1>4. bgs \in [Instances -> Grounds] /\ old \in Grounds
  BY GroundsAre
<1>5. PICK b : /\ bgs' = [bgs EXCEPT ![i] = b] /\ b.players \subseteq bgs[i].players
               /\ b.status # "none" => bgs[i].status # "none"
  <2>1. CASE StartMatch(i)
    <3>1. bgs' = [bgs EXCEPT ![i].status = "progress"] /\ bgs[i].status = "join"
      BY <2>1 DEF StartMatch
    <3>2. bgs' = [bgs EXCEPT ![i] = b1]
      BY <1>4, <3>1
    <3>3. b1.players = old.players
      <4> HIDE DEF old
      <4> QED
        BY <1>4 DEF Grounds
    <3> HIDE DEF b1
    <3> QED
      BY <3>1, <3>2, <3>3
  <2>2. CASE EndBattleGround(i)
    <3>1. bgs' = [bgs EXCEPT ![i].listed = FALSE, ![i].status = "leave"] /\ bgs[i].status = "progress"
      BY <2>2 DEF EndBattleGround
    <3>2. bgs' = [bgs EXCEPT ![i] = b2]
      BY <1>4, <3>1
    <3>3. b2.players = old.players
      <4> HIDE DEF old
      <4> QED
        BY <1>4 DEF Grounds
    <3> HIDE DEF b2
    <3> QED
      BY <3>1, <3>2, <3>3
  <2>3. CASE RemoveBattleGround(i)
    <3>1. bgs' = [bgs EXCEPT ![i] = NoBg]
      BY <2>3 DEF RemoveBattleGround
    <3>2. NoBg.players \subseteq bgs[i].players /\ NoBg.status = "none"
      BY DEF NoBg
    <3> QED
      BY <3>1, <3>2
  <2> QED
    BY <2>1, <2>2, <2>3
<1>6. Emptier /\ Standing
  BY <1>5, OneGround
<1>7. Course /\ Batched' /\ Asking'
  BY <1>1, <1>6, LocalCourse
<1>8. \A s \in Players \ astray : SameNews(toWorld, toWorld', s) /\ Quieter(toQueue, toQueue', s)
  BY <1>1, <1>3, QuieterPlain, SelfNews
<1> QED
  BY <1>1, <1>6, <1>7, <1>8, NobodyConcerned

LEMMA JoinAgreed ==
    ASSUME Basis, Agreed, Basis', NEW party \in Parties, HandleBattlemasterJoinOpcode(party)
    PROVE  Agreed'
<1> DEFINE t == TeamOf[CHOOSE p \in party : TRUE]
           k == used'.alliance + used'.horde
           m == [type |-> "join", id |-> k, party |-> party, team |-> t]
<1>1. /\ InTick /\ toQueue' = Append(toQueue, m) /\ UNCHANGED <<toWorld, player, bgs, queued, groups, lastInstance>>
      /\ \A p \in party : player[p].online /\ ~player[p].going /\ ~player[p].reg
      /\ astray' = astray \cup {p \in party : queued[p] # 0 \/ Under(p, {"join"})}
  BY DEF HandleBattlemasterJoinOpcode, worldVars, queueVars
<1>2. toQueue \in Seq(ToQueue) /\ toQueue' \in Seq(ToQueue)
  BY DEF Basis, Typed
<1>3. m.type = "join" /\ m.party = party
  OBVIOUS
<1> HIDE DEF m
<1>4. m \in ToQueue
  <2>1. Len(toQueue) \in Nat /\ Len(toQueue') = Len(toQueue) + 1 /\ toQueue'[Len(toQueue) + 1] = m
    BY <1>1, <1>2
  <2> QED
    BY <1>2, <2>1
<1>5. Emptier /\ Standing
  BY <1>1, SameGrounds
<1>6. Course /\ Batched' /\ Asking'
  BY <1>1, <1>5, LocalCourse
<1>7. ASSUME NEW p \in Players \ astray' PROVE Accord(p)'
  <2>1. Accord(p)
    BY <1>1, <1>7 DEF Agreed
  <2>2. CASE p \notin party
    <3>1. ~Asks(m, p) /\ ~IsGone(m, p) /\ ~IsAnswer(m, p)
      BY <1>3, <2>2 DEF Asks, IsGone, IsAnswer
    <3>2. Quieter(toQueue, toQueue', p)
      BY <1>1, <1>2, <1>4, <3>1, QuieterOne
    <3>3. SameNews(toWorld, toWorld', p) /\ SameRecord(player[p], player'[p])
      BY <1>1, SelfNews DEF SameRecord
    <3>4. Still(p)
      BY <1>1, <3>2, <3>3, StillIs
    <3> QED
      BY <1>6, <2>1, <3>4, Bystander
  <2>3. CASE p \in party
    <3> DEFINE n == queued[p]
               c == InstIn(p, queued, groups)
               said == Said(toQueue, p)
               r == player[p]
               news == News(toWorld, p)
               past == Past(toWorld, lastInstance)
               there == There(bgs)
               said1 == Said(toQueue', p)
    <3>1. n = 0 /\ r.online /\ ~r.reg
      BY <1>1, <1>7, <2>3
    <3>2. /\ Core(n, c, said, r, news, past, there) /\ Earlier(toQueue, p) /\ \A i \in Instances : p \in bgs[i].players => r.at = i
          /\ r.invited <= lastInstance /\ InTurn(toWorld, p)
      BY <2>1 DEF Accord, CoreOf
    <3>3. said1 \subseteq said \cup {"asked"} /\ Earlier(toQueue', p)
      <4>1. ~IsGone(m, p) /\ ~IsAnswer(m, p)
        BY <1>3 DEF IsGone, IsAnswer
      <4> DEFINE q == toQueue
                 q1 == Append(q, m)
      <4>2. /\ Quit(q1, p) <=> Quit(q, p) \/ IsGone(m, p)
            /\ Answering(q1, p) <=> Answering(q, p) \/ IsAnswer(m, p)
            /\ Accepting(q1, p) <=> Accepting(q, p) \/ (IsAnswer(m, p) /\ m.enter)
            /\ Earlier(q, p) /\ (IsAnswer(m, p) => ~Asked(q, p)) => Earlier(q1, p)
        BY <1>2, <1>4, OneTold
      <4>3. q1 = toQueue'
        BY <1>1
      <4> HIDE DEF q1
      <4>4. Said(q1, p) \subseteq Said(toQueue, p) \cup {"asked"} /\ Earlier(q1, p)
        BY <3>2, <4>1, <4>2 DEF Said
      <4> QED
        BY <4>3, <4>4
    <3>4. Sent(r, tick', Past(toWorld', lastInstance')) /\ r.invited <= lastInstance'
      BY <1>1, <3>1, <3>2 DEF Sent
    <3>5. InTurn(toWorld', p) /\ news = News(toWorld', p) /\ r = player'[p] /\ \A i \in Instances : p \in bgs'[i].players => r.at = i
      BY <1>1, <3>2
    <3>6. Basis /\ Course /\ UNCHANGED <<queued, groups>> /\ p \in Players
      BY <1>1, <1>6, <1>7
    <3>7. n = queued[p] /\ c = InstIn(p, queued, groups) /\ said1 = Said(toQueue', p) /\ past = Past(toWorld, lastInstance) /\ there = There(bgs)
      OBVIOUS
    <3> HIDE DEF n, c, said, r, news, past, there, said1
    <3>8. Core(n, c, said1, r, news, past, there)
      BY ONLY <3>1, <3>2, <3>3, CoreAsks
    <3> QED
      BY ONLY <3>3, <3>4, <3>5, <3>6, <3>7, <3>8, WorldActor
  <2> QED
    BY <2>2, <2>3
<1>8. \A s \in Players \ astray' : Accord(s)'
  BY <1>7
<1>9. Batched' /\ Asking' /\ \A s \in Players \ astray' : Accord(s)'
  BY <1>6, <1>8
<1> QED
  BY <1>9 DEF Agreed

LEMMA HandlePortAgreed ==
    ASSUME Basis, Agreed, NEW p \in Players, NEW enter \in BOOLEAN, HandleBattlefieldPortOpcode(p, enter)
    PROVE  Agreed'
<1> DEFINE m == [type |-> "answer", player |-> p, enter |-> enter]
<1>1. /\ InTick /\ toQueue' = Append(toQueue, m)
      /\ UNCHANGED <<toWorld, player, bgs, queued, groups, lastInstance, astray>>
      /\ player[p].online /\ player[p].reg /\ (enter => player[p].invited # 0)
  BY DEF HandleBattlefieldPortOpcode, worldVars, queueVars, history
<1>2. toQueue \in Seq(ToQueue)
  BY DEF Basis, Typed
<1>3. m.type = "answer" /\ m.player = p /\ m.enter = enter
  OBVIOUS
<1>4. m \in ToQueue
  BY DEF ToQueue, Answers
<1> HIDE DEF m
<1>5. Emptier /\ Standing
  BY <1>1, SameGrounds
<1>6. Course /\ Batched' /\ Asking'
  BY <1>1, <1>5, LocalCourse
<1>7. ASSUME NEW s \in Players \ astray', s # p PROVE Still(s)
  <2>1. ~Asks(m, s) /\ ~IsGone(m, s) /\ ~IsAnswer(m, s)
    BY <1>3, <1>7 DEF Asks, IsJoin, IsGone, IsAnswer
  <2>2. Quieter(toQueue, toQueue', s)
    BY <1>1, <1>2, <1>4, <2>1, QuieterOne
  <2>3. SameNews(toWorld, toWorld', s) /\ SameRecord(player[s], player'[s])
    BY <1>1, SelfNews DEF SameRecord
  <2> QED
    BY <1>1, <2>2, <2>3, StillIs
<1>8. ASSUME p \in Players \ astray' PROVE Accord(p)'
  <2>1. Accord(p)
    BY <1>1, <1>8 DEF Agreed
  <2> DEFINE n == queued[p]
             c == InstIn(p, queued, groups)
             said == Said(toQueue, p)
             r == player[p]
             news == News(toWorld, p)
             past == Past(toWorld, lastInstance)
             there == There(bgs)
             said1 == Said(toQueue', p)
  <2>2. /\ Core(n, c, said, r, news, past, there) /\ Earlier(toQueue, p) /\ \A i \in Instances : p \in bgs[i].players => r.at = i
        /\ r.invited <= lastInstance /\ InTurn(toWorld, p) /\ Sent(r, tick, past)
    BY <2>1 DEF Accord, CoreOf
  <2>3. said1 \subseteq said \cup {"answer", "accept"} /\ ("accept" \in said1 => "accept" \in said \/ enter)
        /\ ("asked" \notin said => Earlier(toQueue', p))
    <3>1. ~IsGone(m, p) /\ ~Asks(m, p)
      BY <1>3 DEF IsGone, Asks, IsJoin
    <3> DEFINE q == toQueue
               q1 == Append(q, m)
    <3>2. /\ Asked(q1, p) <=> Asked(q, p) \/ Asks(m, p)
          /\ Quit(q1, p) <=> Quit(q, p) \/ IsGone(m, p)
          /\ Answering(q1, p) <=> Answering(q, p) \/ IsAnswer(m, p)
          /\ Accepting(q1, p) <=> Accepting(q, p) \/ (IsAnswer(m, p) /\ m.enter)
          /\ Earlier(q, p) /\ (IsAnswer(m, p) => ~Asked(q, p)) => Earlier(q1, p)
      BY <1>2, <1>4, OneTold
    <3>3. q1 = toQueue'
      BY <1>1
    <3> HIDE DEF q1
    <3>4. Said(q1, p) \subseteq Said(q, p) \cup {"answer", "accept"} /\ ("accept" \in Said(q1, p) => "accept" \in Said(q, p) \/ enter)
      BY <1>3, <3>1, <3>2 DEF Said
    <3>5. "asked" \notin Said(q, p) => Earlier(q1, p)
      BY <2>2, <3>2 DEF Said
    <3> QED
      BY <3>3, <3>4, <3>5
  <2>4. r.online /\ r.reg /\ (enter => r.invited # 0 /\ r.invited \in past)
    <3>1. tick = 0
      BY <1>1 DEF InTick
    <3> QED
      BY <1>1, <2>2, <3>1 DEF Sent
  <2>5. Sent(r, tick', Past(toWorld', lastInstance')) /\ r.invited <= lastInstance'
    BY <1>1, <2>2 DEF Sent, InTick
  <2>6. InTurn(toWorld', p) /\ news = News(toWorld', p) /\ r = player'[p] /\ \A i \in Instances : p \in bgs'[i].players => r.at = i
    BY <1>1, <2>2
  <2>7. Basis /\ Course /\ UNCHANGED <<queued, groups>> /\ p \in Players
    BY <1>1, <1>6
  <2>8. n = queued[p] /\ c = InstIn(p, queued, groups) /\ said1 = Said(toQueue', p) /\ past = Past(toWorld, lastInstance) /\ there = There(bgs)
    OBVIOUS
  <2> HIDE DEF n, c, said, r, news, past, there, said1
  <2>9. "accept" \in said1 => "accept" \in said \/ (r.invited # 0 /\ r.invited \in past)
    BY <2>3, <2>4
  <2>10. Core(n, c, said1, r, news, past, there) /\ "asked" \notin said
    BY ONLY <2>2, <2>3, <2>4, <2>9, CoreAnswers
  <2>11. Earlier(toQueue', p)
    BY <2>3, <2>10
  <2> QED
    BY ONLY <2>5, <2>6, <2>7, <2>8, <2>10, <2>11, WorldActor
<1>9. astray \subseteq astray' /\ \A s \in Players \ astray' : s # p => Still(s)
  BY <1>1, <1>7
<1> QED
  BY <1>6, <1>8, <1>9, OthersStill

LEMMA RemoveEventAgreed ==
    ASSUME Basis, Agreed, Basis', NEW p \in Players, RemoveEvent(p)
    PROVE  Agreed'
<1> DEFINE old == player[p]
           e == Head(old.timers)
           m == [type |-> "expired", player |-> p, inst |-> e.inst, due |-> e.due]
           rest == Tail(old.timers)
           r == [old EXCEPT !.timers = rest]
<1>1. /\ toWorld' = Append(toWorld, m) /\ player' = [player EXCEPT ![p].timers = Tail(@)]
      /\ UNCHANGED <<toQueue, bgs, queued, groups, lastInstance, astray>> /\ tick = 0 /\ tick' = 0
  BY DEF RemoveEvent, history, queueVars, InTick
<1>2. player \in [Players -> Records] /\ old \in Records /\ toWorld \in Seq(ToWorld) /\ toWorld' \in Seq(ToWorld) /\ lastInstance \in Nat
  BY PlayersAre DEF Basis, Typed
<1>3. player' = [player EXCEPT ![p] = r]
  BY <1>1, <1>2
<1>4. m.type = "expired"
  OBVIOUS
<1> HIDE DEF rest, old, m
<1>5. SameRecord(old, r)
  BY <1>2 DEF Records, SameRecord
<1> HIDE DEF r
<1>6. ASSUME NEW s \in Players PROVE SameRecord(player[s], player'[s])
  <2>1. player'[s] = IF s = p THEN r ELSE player[s]
    BY <1>2, <1>3
  <2> QED
    BY <1>5, <2>1 DEF SameRecord, old
<1>7. /\ Len(toWorld) \in Nat /\ Len(toWorld') = Len(toWorld) + 1 /\ toWorld'[Len(toWorld) + 1] = m
      /\ \A n \in 1..Len(toWorld) : n \in 1..Len(toWorld') /\ toWorld'[n] = toWorld[n]
  BY <1>1, <1>2
<1>8. \A n \in 1..Len(toWorld') : (n \in 1..Len(toWorld) /\ toWorld'[n] = toWorld[n]) \/ toWorld'[n] = m
  BY <1>7
<1>9. m \in ToWorld
  BY <1>2, <1>7
<1>10. Course /\ Batched' /\ Asking'
  <2>1. Past(toWorld', lastInstance') = Past(toWorld, lastInstance)
    BY <1>1, <1>4, <1>7, <1>8 DEF Past
  <2>2. Asking'
    BY <1>1, <1>4, <1>8 DEF Agreed, Asking
  <2> QED
    BY <1>1, <1>2, <2>1, <2>2 DEF Course, Batched
<1>11. ASSUME NEW s \in Players \ astray PROVE Still(s)
  <2> DEFINE out == <<m>>
  <2>1. out \in Seq(ToWorld) /\ toWorld' = toWorld \o out
    BY <1>1, <1>2, <1>9
  <2>2. \A k \in 1..Len(out) : ~About(out[k], s)
    BY <1>4 DEF About
  <2> HIDE DEF out
  <2>3. SameNews(toWorld, toWorld', s)
    BY <1>2, <2>1, <2>2, NewsSilent
  <2>4. Quieter(toQueue, toQueue', s)
    BY <1>1, QuieterSelf
  <2> QED
    BY <1>1, <1>6, <2>3, <2>4, StillIs
<1> QED
  BY <1>1, <1>10, <1>11, NobodyMoved

-----------------------------------------------------------------------------
\* The world thread, between the messages: players arrive, leave, log out and come back.

LEMMA ArriveAgreed ==
    ASSUME Basis, Agreed, NEW p \in Players, Arrive(p)
    PROVE  Agreed'
<1> DEFINE i == player[p].at
           old == player[p]
           at == IF Exists(i) THEN i ELSE 0
           r2 == [old EXCEPT !.going = FALSE, !.at = at]
           ground == bgs[i]
           b == [ground EXCEPT !.players = @ \cup {p}]
<1>1. /\ InTick /\ player' = [player EXCEPT ![p].going = FALSE, ![p].at = IF Exists(@) THEN @ ELSE 0]
      /\ bgs' = IF Exists(i) /\ player[p].invited = i THEN [bgs EXCEPT ![i].players = @ \cup {p}] ELSE bgs
      /\ UNCHANGED <<toQueue, toWorld, queued, groups, lastInstance, astray>> /\ player[p].going
  BY DEF Arrive, history, queueVars
<1>2. player \in [Players -> Records] /\ old \in Records /\ bgs \in [Instances -> Grounds]
  BY PlayersAre DEF Basis, Typed
<1>3. player' = [player EXCEPT ![p] = r2]
  BY <1>1, <1>2
<1>4. Exists(i) => i \in Instances
  BY DEF Exists
<1>5. Exists(i) <=> i \in There(bgs)
  BY DEF Exists, There
<1>6. /\ Standing
      /\ \A s \in Players, j \in Instances : s \in bgs'[j].players => s \in bgs[j].players \/ (s = p /\ j = i /\ Exists(i))
  <2>1. CASE bgs' = bgs
    BY <2>1, SameGrounds
  <2>2. CASE Exists(i) /\ bgs' = [bgs EXCEPT ![i].players = @ \cup {p}]
    <3>1. bgs' = [bgs EXCEPT ![i] = b] /\ ground \in Grounds
      BY <1>2, <1>4, <2>2
    <3>2. b.players = ground.players \cup {p} /\ b.status = ground.status
      <4> HIDE DEF ground
      <4> QED
        BY <3>1 DEF Grounds
    <3> HIDE DEF b, i
    <3>4. i \in Instances /\ bgs' = [bgs EXCEPT ![i] = b] /\ (b.status # "none" => bgs[i].status # "none")
      BY <1>4, <2>2, <3>1, <3>2 DEF ground
    <3>3. Standing /\ bgs'[i] = b /\ \A j \in Instances : j # i => bgs'[j] = bgs[j]
      BY <3>4, OneGround
    <3> QED
      BY <2>2, <3>2, <3>3 DEF ground
  <2> QED
    BY <1>1, <2>1, <2>2
<1>7. Course /\ Batched' /\ Asking'
  BY <1>1, <1>6, LocalCourse
<1>8. r2.online = old.online /\ r2.reg = old.reg /\ r2.invited = old.invited /\ ~r2.going /\ r2.at = at
  <2> HIDE DEF old, at
  <2> QED
    BY <1>2 DEF Records
<1>9. player'[p] = r2
  BY <1>2, <1>3
<1>10. ASSUME NEW s \in Players \ astray', s # p PROVE Still(s)
  <2>1. SameRecord(player[s], player'[s])
    BY <1>2, <1>3, <1>10 DEF SameRecord
  <2>2. SameNews(toWorld, toWorld', s) /\ Quieter(toQueue, toQueue', s)
    BY <1>1, SelfNews, QuieterSelf
  <2> QED
    BY <1>1, <1>6, <1>10, <2>1, <2>2, StillIs
<1>11. ASSUME p \in Players \ astray' PROVE Accord(p)'
  <2>1. Accord(p)
    BY <1>1, <1>11 DEF Agreed
  <2> DEFINE n == queued[p]
             c == InstIn(p, queued, groups)
             said == Said(toQueue, p)
             r == player[p]
             news == News(toWorld, p)
             past == Past(toWorld, lastInstance)
             there == There(bgs)
             r1 == player'[p]
  <2>2. /\ Core(n, c, said, r, news, past, there) /\ Earlier(toQueue, p) /\ \A j \in Instances : p \in bgs[j].players => r.at = j
        /\ r.invited <= lastInstance /\ InTurn(toWorld, p) /\ Sent(r, tick, past)
    BY <2>1 DEF Accord, CoreOf
  <2>3. r.going /\ r1.online = r.online /\ r1.reg = r.reg /\ r1.invited = r.invited /\ ~r1.going
        /\ r1.at = IF r.at \in there THEN r.at ELSE 0
    BY <1>1, <1>5, <1>8, <1>9
  <2>4. \A j \in Instances : p \in bgs'[j].players => r1.at = j
    <3> SUFFICES ASSUME NEW j \in Instances, p \in bgs'[j].players PROVE r1.at = j
      OBVIOUS
    <3>1. CASE p \in bgs[j].players
      <4>1. j \in there
        BY <3>1, GroundsAre DEF There
      <4> QED
        BY <2>2, <2>3, <3>1, <4>1
    <3>2. CASE j = i /\ Exists(i)
      BY <1>5, <2>3, <3>2
    <3> QED
      BY <1>6, <3>1, <3>2
  <2>5. Sent(r1, tick', Past(toWorld', lastInstance')) /\ r1.invited <= lastInstance'
    BY <1>1, <2>2, <2>3 DEF Sent, InTick
  <2>6. Basis /\ Course /\ UNCHANGED <<queued, groups>> /\ p \in Players
    BY <1>1, <1>7
  <2>7. /\ n = queued[p] /\ c = InstIn(p, queued, groups) /\ said = Said(toQueue', p) /\ past = Past(toWorld, lastInstance)
        /\ there = There(bgs) /\ r1 = player'[p] /\ news = News(toWorld', p) /\ InTurn(toWorld', p) /\ Earlier(toQueue', p)
    BY <1>1, <2>2
  <2> HIDE DEF n, c, said, r, news, past, there, r1
  <2>8. Core(n, c, said, r1, news, past, there)
    BY ONLY <2>2, <2>3, CoreArrives
  <2> QED
    BY ONLY <2>4, <2>5, <2>6, <2>7, <2>8, WorldActor
<1>12. astray \subseteq astray' /\ \A s \in Players \ astray' : s # p => Still(s)
  BY <1>1, <1>10
<1> QED
  BY <1>7, <1>11, <1>12, OthersStill

LEMMA Vacated ==
    ASSUME Basis, NEW p \in Players, NEW i \in Instances, bgs[i].status # "none", Vacate(p, i)
    PROVE  Standing /\ Emptier /\ p \notin bgs'[i].players /\ \A j \in Instances : j # i => bgs'[j] = bgs[j]
<1> DEFINE t == TeamOf[p]
           old == bgs[i]
           bg == [old EXCEPT !.players = @ \ {p}, !.offline = @ \ {p}, !.invited[t] = Less(@)]
           b == [bg EXCEPT !.listed = @ \/ ~Ended(i)]
<1>1. bgs' = [bgs EXCEPT ![i] = b]
  BY DEF Vacate
<1>2. bgs \in [Instances -> Grounds] /\ old \in Grounds /\ t \in Teams
  BY GroundsAre, QueueAssumption
<1>3. bg.players = old.players \ {p} /\ bg.status = old.status /\ bg \in Grounds
  <2> DEFINE count == Less(old.invited[t])
             counts == [old.invited EXCEPT ![t] = count]
  <2>1. bg = [old EXCEPT !.players = @ \ {p}, !.offline = @ \ {p}, !.invited = counts]
    BY <1>2 DEF Grounds
  <2>2. bg \in Grounds
    <3> HIDE DEF old, t
    <3> QED
      BY <1>2, VacatedGround
  <2> HIDE DEF counts, old, bg
  <2> QED
    BY <1>2, <2>1, <2>2 DEF Grounds
<1> HIDE DEF bg
<1>4. b.players = old.players \ {p} /\ b.status = old.status
  BY <1>3 DEF Grounds
<1> HIDE DEF b
<1>5. /\ bgs' = [bgs EXCEPT ![i] = b] /\ b.players \subseteq bgs[i].players
      /\ b.status # "none" => bgs[i].status # "none"
  BY <1>1, <1>4
<1>6. Emptier /\ Standing /\ bgs'[i] = b /\ \A j \in Instances : j # i => bgs'[j] = bgs[j]
  BY <1>5, OneGround
<1> QED
  BY <1>4, <1>6

LEMMA LeaveAgreed ==
    ASSUME Basis, Agreed, NEW p \in Players, NEW i \in Instances, RemovePlayerAtLeave(p, i)
    PROVE  Agreed'
<1> DEFINE old == player[p]
           r2 == [old EXCEPT !.reg = FALSE, !.invited = 0, !.at = 0]
<1>1. /\ InTick /\ p \in bgs[i].players /\ ~player[p].going /\ Vacate(p, i)
      /\ UNCHANGED <<toWorld, queued, groups, lastInstance>>
      /\ player' = IF ~player[p].online THEN player
                   ELSE [player EXCEPT ![p].reg = FALSE, ![p].invited = 0, ![p].at = 0]
  BY DEF RemovePlayerAtLeave, queueVars
<1>2. bgs[i].status # "none" /\ i # 0
  BY <1>1, GroundsAre, InstancesAre
<1>3. Plain(toQueue, toQueue') /\ astray' = astray
  BY <1>1, <1>2, SilentVacate
<1>4. Standing /\ Emptier /\ p \notin bgs'[i].players /\ \A j \in Instances : j # i => bgs'[j] = bgs[j]
  BY <1>1, <1>2, Vacated
<1>5. player \in [Players -> Records] /\ old \in Records
  BY PlayersAre
<1>6. [player EXCEPT ![p].reg = FALSE, ![p].invited = 0, ![p].at = 0] = [player EXCEPT ![p] = r2]
  BY <1>5
<1>7. r2.online = old.online /\ ~r2.reg /\ r2.invited = 0 /\ r2.at = 0 /\ r2.going = old.going
  <2> HIDE DEF old
  <2> QED
    BY <1>5 DEF Records
<1> HIDE DEF r2
<1>8. player' = player \/ player' = [player EXCEPT ![p] = r2]
  BY <1>1, <1>6
<1>9. player'[p] = IF player[p].online THEN r2 ELSE player[p]
  BY <1>1, <1>5, <1>6
<1>10. Course /\ Batched' /\ Asking'
  BY <1>1, <1>4, LocalCourse
<1>11. ASSUME NEW s \in Players \ astray', s # p \/ ~player[p].online PROVE Still(s)
  <2>1. SameRecord(player[s], player'[s])
    <3>1. CASE s # p
      BY <1>8, <1>11, <3>1, OneRecord
    <3>2. CASE ~player[p].online
      BY <1>1, <3>2 DEF SameRecord
    <3> QED
      BY <1>11, <3>1, <3>2
  <2>2. SameNews(toWorld, toWorld', s) /\ Quieter(toQueue, toQueue', s)
    BY <1>1, <1>3, SelfNews, QuieterPlain
  <2>3. \A j \in Instances : s \in bgs'[j].players => s \in bgs[j].players
    BY <1>4 DEF Emptier
  <2> QED
    BY <1>1, <2>1, <2>2, <2>3, StillIs
<1>12. ASSUME p \in Players \ astray' PROVE Accord(p)'
  <2>1. Accord(p)
    BY <1>3, <1>12 DEF Agreed
  <2>10. CASE ~player[p].online
    BY <1>10, <1>11, <1>12, <2>1, <2>10, Bystander
  <2>11. CASE player[p].online
    <3> DEFINE n == queued[p]
               c == InstIn(p, queued, groups)
               said == Said(toQueue, p)
               said1 == Said(toQueue', p)
               r == player[p]
               news == News(toWorld, p)
               past == Past(toWorld, lastInstance)
               there == There(bgs)
               r1 == player'[p]
    <3>2. /\ Core(n, c, said, r, news, past, there) /\ Earlier(toQueue, p) /\ \A j \in Instances : p \in bgs[j].players => r.at = j
          /\ InTurn(toWorld, p)
      BY <2>1 DEF Accord, CoreOf
    <3>3. r.online /\ r.at # 0 /\ ~r.going /\ r1.online /\ ~r1.reg /\ r1.invited = 0 /\ r1.at = 0 /\ ~r1.going
      BY <1>1, <1>2, <1>7, <1>9, <2>11, <3>2
    <3>4. \A j \in Instances : p \in bgs'[j].players => r1.at = j
      <4> SUFFICES ASSUME NEW j \in Instances, p \in bgs'[j].players PROVE FALSE
        OBVIOUS
      <4>1. j # i /\ p \in bgs[j].players
        BY <1>4
      <4> QED
        BY <1>1, <3>2, <4>1
    <3>5. Quieter(toQueue, toQueue', p)
      BY <1>3, QuieterPlain
    <3>6. SaysLess(said, said1) /\ Earlier(toQueue', p)
      BY <3>2, <3>5, SaidLess DEF Quieter
    <3>7. Sent(r1, tick', Past(toWorld', lastInstance')) /\ r1.invited <= lastInstance'
      <4>1. lastInstance' \in Nat
        BY <1>10 DEF Course
      <4> QED
        BY <3>3, <4>1 DEF Sent
    <3>8. Basis /\ Course /\ UNCHANGED <<queued, groups>> /\ p \in Players
      BY <1>1, <1>10
    <3>9. /\ n = queued[p] /\ c = InstIn(p, queued, groups) /\ said1 = Said(toQueue', p) /\ past = Past(toWorld, lastInstance)
          /\ there = There(bgs) /\ r1 = player'[p] /\ news = News(toWorld', p) /\ InTurn(toWorld', p)
      BY <1>1, <3>2
    <3> HIDE DEF n, c, said, said1, r, news, past, there, r1
    <3>10. Core(n, c, said, r1, news, past, there)
      BY ONLY <3>2, <3>3, CoreVacates
    <3>11. SameRecord(r1, r1) /\ past \subseteq past /\ past \cap there \subseteq there
      BY DEF SameRecord
    <3>12. Core(n, c, said1, r1, news, past, there)
      BY ONLY <3>6, <3>10, <3>11, CoreStill
    <3> QED
      BY ONLY <3>4, <3>6, <3>7, <3>8, <3>9, <3>12, WorldActor
  <2> QED
    BY <2>10, <2>11
<1>13. astray \subseteq astray' /\ \A s \in Players \ astray' : s # p => Still(s)
  BY <1>3, <1>11
<1> QED
  BY <1>10, <1>12, <1>13, OthersStill

\* Nothing of the kind is under way for him.
LEMMA NotUnder ==
    ASSUME Basis, NEW p, NEW types, ~Under(p, types)
    PROVE  /\ "join" \in types => "asked" \notin Said(toQueue, p)
           /\ "gone" \in types => "quit" \notin Said(toQueue, p)
           /\ "answer" \in types => "answer" \notin Said(toQueue, p) /\ "accept" \notin Said(toQueue, p)
           /\ \A m \in News(toWorld, p) : m.type \notin types
<1>1. toQueue \in Seq(ToQueue) /\ toWorld \in Seq(ToWorld)
  BY DEF Basis, Typed
<1>2. \A n \in 1..Len(toQueue) : toQueue[n] \in ToSet(toQueue)
  BY <1>1 DEF ToSet
<1>3. \A n \in 1..Len(toWorld) : toWorld[n] \in ToSet(toWorld)
  BY <1>1 DEF ToSet
<1>4. \A m \in ToSet(toQueue) \cup ToSet(toWorld) :
        ~(m.type \in types /\ (IF m.type \in {"join", "joined"} THEN p \in m.party ELSE m.player = p))
  BY DEF Under
<1>5. "join" \in types => "asked" \notin Said(toQueue, p)
  BY <1>2, <1>4 DEF Said, Asked, Asks, IsJoin
<1>6. "gone" \in types => "quit" \notin Said(toQueue, p)
  BY <1>2, <1>4 DEF Said, Quit, IsGone
<1>7. "answer" \in types => "answer" \notin Said(toQueue, p) /\ "accept" \notin Said(toQueue, p)
  BY <1>2, <1>4 DEF Said, Answering, Accepting, IsAnswer
<1>8. ASSUME NEW m \in News(toWorld, p) PROVE m.type \notin types
  <2>1. m \in ToSet(toWorld) /\ About(m, p)
    BY <1>3 DEF News
  <2> QED
    BY <1>4, <2>1 DEF About
<1> QED
  BY <1>5, <1>6, <1>7, <1>8

LEMMA LogoutAgreed ==
    ASSUME Basis, Agreed, NEW p \in Players, LogoutPlayer(p)
    PROVE  Agreed'
<1> DEFINE i == player[p].at
           ground == bgs[i]
           b == [ground EXCEPT !.players = @ \cup {p}, !.offline = @ \cup {p}]
           r2 == [NoPlayer EXCEPT !.at = i]
           gone == [type |-> "gone", player |-> p]
<1>1. /\ InTick /\ player[p].online /\ UNCHANGED <<toWorld, queued, groups, lastInstance>>
      /\ bgs' = IF Exists(i) THEN [bgs EXCEPT ![i].players = @ \cup {p}, ![i].offline = @ \cup {p}] ELSE bgs
      /\ player' = [player EXCEPT ![p] = r2]
      /\ toQueue' = IF player[p].reg THEN Append(toQueue, gone) ELSE toQueue
      /\ astray' = IF Under(p, {"join", "joined"}) THEN astray \cup {p} ELSE astray
  BY DEF LogoutPlayer, queueVars
<1>2. player \in [Players -> Records] /\ bgs \in [Instances -> Grounds] /\ toQueue \in Seq(ToQueue)
  BY PlayersAre DEF Basis, Typed
<1>3. ~r2.online /\ ~r2.going /\ ~r2.reg /\ r2.invited = 0 /\ r2.at = player[p].at
  BY DEF NoPlayer
<1>4. Exists(i) => i \in Instances
  BY DEF Exists
<1>5. /\ Standing
      /\ \A s \in Players, j \in Instances : s \in bgs'[j].players => s \in bgs[j].players \/ (s = p /\ j = player[p].at)
  <2>1. CASE bgs' = bgs
    BY <2>1, SameGrounds
  <2>2. CASE Exists(i) /\ bgs' = [bgs EXCEPT ![i].players = @ \cup {p}, ![i].offline = @ \cup {p}]
    <3>1. bgs' = [bgs EXCEPT ![i] = b] /\ ground \in Grounds
      BY <1>2, <1>4, <2>2
    <3>2. b.players = ground.players \cup {p} /\ b.status = ground.status
      <4> HIDE DEF ground
      <4> QED
        BY <3>1 DEF Grounds
    <3>5. i = player[p].at
      OBVIOUS
    <3> HIDE DEF b, i
    <3>4. i \in Instances /\ bgs' = [bgs EXCEPT ![i] = b] /\ (b.status # "none" => bgs[i].status # "none")
      BY <1>4, <2>2, <3>1, <3>2 DEF ground
    <3>3. Standing /\ bgs'[i] = b /\ \A j \in Instances : j # i => bgs'[j] = bgs[j]
      BY <3>4, OneGround
    <3> QED
      BY <3>2, <3>3, <3>5 DEF ground
  <2> QED
    BY <1>1, <2>1, <2>2
<1>6. Course /\ Batched' /\ Asking'
  BY <1>1, <1>5, LocalCourse
<1>7. gone \in ToQueue /\ gone.type = "gone" /\ gone.player = p
  BY DEF ToQueue, Gone
<1> HIDE DEF gone, r2
<1>8. ASSUME NEW s \in Players \ astray', s # p PROVE Still(s)
  <2>1. SameRecord(player[s], player'[s])
    BY <1>2, <1>1, <1>8 DEF SameRecord
  <2>2. ~Asks(gone, s) /\ ~IsGone(gone, s) /\ ~IsAnswer(gone, s)
    BY <1>7, <1>8 DEF Asks, IsJoin, IsGone, IsAnswer
  <2>3. Quieter(toQueue, Append(toQueue, gone), s)
    BY <1>2, <1>7, <2>2, QuieterOne
  <2>4. SameNews(toWorld, toWorld', s) /\ Quieter(toQueue, toQueue', s)
    BY <1>1, <2>3, SelfNews, QuieterSelf
  <2>5. \A j \in Instances : s \in bgs'[j].players => s \in bgs[j].players
    BY <1>5, <1>8
  <2> QED
    BY <1>1, <2>1, <2>4, <2>5, StillIs
<1>9. ASSUME p \in Players \ astray' PROVE Accord(p)'
  <2> DEFINE types == {"join", "joined"}
  <2>10. p \notin astray /\ ~Under(p, types)
    BY <1>1, <1>9
  <2>1. Accord(p)
    BY <2>10 DEF Agreed
  <2> DEFINE n == queued[p]
             c == InstIn(p, queued, groups)
             said == Said(toQueue, p)
             said1 == Said(toQueue', p)
             r == player[p]
             news == News(toWorld, p)
             past == Past(toWorld, lastInstance)
             there == There(bgs)
             r1 == player'[p]
  <2>2. /\ Core(n, c, said, r, news, past, there) /\ Earlier(toQueue, p) /\ \A j \in Instances : p \in bgs[j].players => r.at = j
        /\ InTurn(toWorld, p)
    BY <2>1 DEF Accord, CoreOf
  <2>3. "asked" \notin said /\ \A m \in news : m.type # "joined"
    <3>1. "join" \in types => "asked" \notin Said(toQueue, p)
      BY <2>10, NotUnder
    <3>2. \A m \in News(toWorld, p) : m.type \notin types
      BY <2>10, NotUnder
    <3> QED
      BY <3>1, <3>2
  <2>4. said1 \subseteq said \cup {"quit"} /\ (r.reg => "quit" \in said1) /\ Earlier(toQueue', p)
    <3>1. ~IsAnswer(gone, p) /\ ~Asks(gone, p) /\ IsGone(gone, p)
      BY <1>7 DEF IsGone, IsAnswer, Asks, IsJoin
    <3> DEFINE q == toQueue
               q1 == Append(q, gone)
    <3>2. /\ Asked(q1, p) <=> Asked(q, p) \/ Asks(gone, p)
          /\ Quit(q1, p) <=> Quit(q, p) \/ IsGone(gone, p)
          /\ Answering(q1, p) <=> Answering(q, p) \/ IsAnswer(gone, p)
          /\ Accepting(q1, p) <=> Accepting(q, p) \/ (IsAnswer(gone, p) /\ gone.enter)
          /\ Earlier(q, p) /\ (IsAnswer(gone, p) => ~Asked(q, p)) => Earlier(q1, p)
      BY <1>2, <1>7, OneTold
    <3>3. toQueue' = IF r.reg THEN q1 ELSE q
      BY <1>1
    <3> HIDE DEF q1
    <3>4. Said(q1, p) \subseteq Said(q, p) \cup {"quit"} /\ "quit" \in Said(q1, p) /\ Earlier(q1, p)
      BY <2>2, <3>1, <3>2 DEF Said
    <3> QED
      BY <2>2, <3>3, <3>4
  <2>5. r.online /\ ~r1.online /\ ~r1.going /\ r1.invited = 0 /\ r1.at = r.at
    BY <1>1, <1>2, <1>3
  <2>6. \A j \in Instances : p \in bgs'[j].players => r1.at = j
    BY <1>5, <2>2, <2>5
  <2>7. Sent(r1, tick', Past(toWorld', lastInstance')) /\ r1.invited <= lastInstance'
    <3>1. lastInstance' \in Nat
      BY <1>6 DEF Course
    <3> QED
      BY <2>5, <3>1 DEF Sent
  <2>8. Basis /\ Course /\ UNCHANGED <<queued, groups>> /\ p \in Players
    BY <1>1, <1>6
  <2>9. /\ n = queued[p] /\ c = InstIn(p, queued, groups) /\ said1 = Said(toQueue', p) /\ past = Past(toWorld, lastInstance)
        /\ there = There(bgs) /\ r1 = player'[p] /\ news = News(toWorld', p) /\ InTurn(toWorld', p)
    BY <1>1, <2>2
  <2> HIDE DEF n, c, said, said1, r, news, past, there, r1
  <2>11. Core(n, c, said1, r1, news, past, there)
    BY ONLY <2>2, <2>3, <2>4, <2>5, CoreQuits
  <2> QED
    BY ONLY <2>4, <2>6, <2>7, <2>8, <2>9, <2>11, WorldActor
<1>10. astray \subseteq astray' /\ \A s \in Players \ astray' : s # p => Still(s)
  BY <1>1, <1>8
<1> QED
  BY <1>6, <1>9, <1>10, OthersStill

\* A player who comes back, when nothing is under way for him.
LEMMA BackActor ==
    ASSUME Basis, Agreed, Course, UNCHANGED <<toWorld, queued, groups>>, Plain(toQueue, toQueue'), NEW p \in Players \ astray,
           ~player[p].online, NEW types, {"join", "joined", "answer", "gone", "invite", "port", "left"} \subseteq types, ~Under(p, types),
           NEW r1, r1 = player'[p], r1.online, ~r1.going,
           (r1.reg /\ r1.at \in There(bgs) /\ r1.invited = r1.at) \/ (~r1.reg /\ r1.at = 0 /\ r1.invited = 0),
           \A j \in Instances : p \in bgs'[j].players => r1.at = j
    PROVE  Accord(p)'
<1> DEFINE n == queued[p]
           c == InstIn(p, queued, groups)
           said == Said(toQueue, p)
           said1 == Said(toQueue', p)
           r == player[p]
           news == News(toWorld, p)
           past == Past(toWorld, lastInstance)
           there == There(bgs)
<1>1. Accord(p)
  BY DEF Agreed
<1>2. Core(n, c, said, r, news, past, there) /\ Earlier(toQueue, p) /\ InTurn(toWorld, p)
  BY <1>1 DEF Accord, CoreOf
<1>3. said = {} /\ news = {}
  <2>1. /\ "join" \in types => "asked" \notin Said(toQueue, p)
        /\ "gone" \in types => "quit" \notin Said(toQueue, p)
        /\ "answer" \in types => "answer" \notin Said(toQueue, p) /\ "accept" \notin Said(toQueue, p)
        /\ \A m \in News(toWorld, p) : m.type \notin types
    BY NotUnder
  <2>2. said \subseteq {"asked", "quit", "answer", "accept"}
    BY DEF Said
  <2>3. \A m \in news : m.type \in {"joined", "invite", "port", "left"}
    BY NewsAre
  <2>4. said = {}
    BY <2>1, <2>2
  <2> QED
    BY <2>1, <2>3, <2>4
<1>4. r1.at \in there => r1.at \in past /\ r1.at # 0 /\ r1.at <= lastInstance
  <2> SUFFICES ASSUME r1.at \in there PROVE r1.at \in past /\ r1.at # 0 /\ r1.at <= lastInstance
    OBVIOUS
  <2>1. r1.at \in Instances /\ bgs[r1.at].status # "none"
    BY DEF There
  <2>2. r1.at <= lastInstance /\ r1.at # 0
    BY <2>1, GroundsAre, InstancesAre
  <2>3. \A k \in 1..Len(toWorld) : toWorld[k].type = "create" => toWorld[k].inst # r1.at
    BY <2>1 DEF Basis, Making
  <2> QED
    BY <2>1, <2>2, <2>3 DEF Past
<1>5. (r1.reg /\ r1.at # 0 /\ r1.invited = r1.at /\ r1.at \in past) \/ (~r1.reg /\ r1.at = 0 /\ r1.invited = 0)
  BY <1>4
<1>6. Sent(r1, tick', Past(toWorld', lastInstance')) /\ r1.invited <= lastInstance'
  <2>1. past \subseteq Past(toWorld', lastInstance') /\ lastInstance \in Nat /\ lastInstance' \in Nat /\ lastInstance <= lastInstance'
    BY DEF Course
  <2>2. r1.at \in there => r1.at \in Nat
    BY InstancesAre DEF There
  <2>3. r1.invited <= lastInstance'
    BY <1>4, <2>1, <2>2
  <2> QED
    BY <1>5, <2>1, <2>3 DEF Sent
<1>7. Quieter(toQueue, toQueue', p)
  BY QuieterPlain
<1>8. SaysLess(said, said1) /\ Earlier(toQueue', p)
  BY <1>2, <1>7, SaidLess DEF Quieter
<1>9. Basis /\ Course /\ UNCHANGED <<queued, groups>> /\ p \in Players /\ \A j \in Instances : p \in bgs'[j].players => r1.at = j
  OBVIOUS
<1>10. /\ n = queued[p] /\ c = InstIn(p, queued, groups) /\ said1 = Said(toQueue', p) /\ past = Past(toWorld, lastInstance)
       /\ there = There(bgs) /\ r1 = player'[p] /\ {} = News(toWorld', p) /\ InTurn(toWorld', p)
  BY <1>2, <1>3
<1>11. ~r.online /\ r1.online /\ ~r1.going
  OBVIOUS
<1> HIDE DEF n, c, said, said1, r, past, there, news
<1>12. Core(n, c, said, r, {}, past, there)
  BY <1>2, <1>3
<1>13. Core(n, c, said, r1, {}, past, there)
  BY ONLY <1>3, <1>5, <1>11, <1>12, CoreBack
<1>14. SameRecord(r1, r1) /\ past \subseteq past /\ past \cap there \subseteq there
  BY DEF SameRecord
<1>15. Core(n, c, said1, r1, {}, past, there)
  BY ONLY <1>8, <1>13, <1>14, CoreStill
<1> QED
  BY ONLY <1>6, <1>8, <1>9, <1>10, <1>15, WorldActor

LEMMA LoadAgreed ==
    ASSUME Basis, Agreed, NEW p \in Players, LoadFromDB(p)
    PROVE  Agreed'
<1> DEFINE i == player[p].at
           there == Exists(i) /\ p \in bgs[i].players
           old == player[p]
           back == [old EXCEPT !.online = TRUE, !.reg = TRUE, !.invited = i]
           fresh == [NoPlayer EXCEPT !.online = TRUE]
           ground == bgs[i]
           b == [ground EXCEPT !.offline = @ \ {p}]
           types == {"join", "joined", "answer", "gone", "expire", "invite", "port", "left", "expired"}
<1>1. /\ InTick /\ UNCHANGED <<toWorld, queued, groups, lastInstance>> /\ ~player[p].online /\ ~Under(p, types)
      /\ \/ /\ there /\ bgs' = [bgs EXCEPT ![i].offline = @ \ {p}]
            /\ player' = [player EXCEPT ![p] = back] /\ UNCHANGED <<toQueue, astray>>
         \/ there /\ Vacate(p, i) /\ player' = [player EXCEPT ![p] = fresh]
         \/ ~there /\ player' = [player EXCEPT ![p] = fresh] /\ UNCHANGED <<toQueue, bgs, astray>>
  BY DEF LoadFromDB, history, queueVars
<1>2. player \in [Players -> Records] /\ old \in Records /\ bgs \in [Instances -> Grounds]
  BY PlayersAre DEF Basis, Typed
<1>3. there => i \in Instances /\ bgs[i].status # "none"
  BY DEF Exists
<1>4. fresh.online /\ ~fresh.going /\ ~fresh.reg /\ fresh.at = 0 /\ fresh.invited = 0
  BY DEF NoPlayer
<1>5. back.online /\ back.reg /\ back.invited = player[p].at /\ back.at = player[p].at /\ back.going = player[p].going
  <2>0. i = player[p].at /\ old = player[p]
    OBVIOUS
  <2> HIDE DEF old, i
  <2>1. back.online /\ back.reg /\ back.invited = i /\ back.at = old.at /\ back.going = old.going
    BY <1>2 DEF Records
  <2> QED
    BY <2>0, <2>1
<1>6. p \in Players \ astray => /\ player[p].going => player[p].online
                               /\ \A j \in Instances : p \in bgs[j].players => player[p].at = j
  BY DEF Agreed, Accord, CoreOf, Core
<1>7. there => /\ player[p].at \in There(bgs)
  BY <1>3 DEF There
<1> HIDE DEF fresh, back
<1>8. /\ Standing /\ Emptier /\ Plain(toQueue, toQueue') /\ astray' = astray
      /\ \/ player' = [player EXCEPT ![p] = back] /\ there
         \/ player' = [player EXCEPT ![p] = fresh] /\ (p \in Players \ astray => \A j \in Instances : p \notin bgs'[j].players)
  <2>1. CASE there /\ bgs' = [bgs EXCEPT ![i].offline = @ \ {p}] /\ player' = [player EXCEPT ![p] = back] /\ UNCHANGED <<toQueue, astray>>
    <3>1. bgs' = [bgs EXCEPT ![i] = b] /\ ground \in Grounds
      BY <1>2, <1>3, <2>1
    <3>2. b.players = ground.players /\ b.status = ground.status
      <4> HIDE DEF ground
      <4> QED
        BY <3>1 DEF Grounds
    <3>3. Plain(toQueue, toQueue')
      BY <2>1, SilentSelf
    <3> HIDE DEF b, i
    <3>4. i \in Instances /\ bgs' = [bgs EXCEPT ![i] = b] /\ (b.status # "none" => bgs[i].status # "none") /\ b.players \subseteq bgs[i].players
      BY <1>3, <2>1, <3>1, <3>2 DEF ground
    <3>5. Standing /\ Emptier
      BY <3>4, OneGround
    <3> QED
      BY <2>1, <3>3, <3>5
  <2>2. CASE there /\ Vacate(p, i) /\ player' = [player EXCEPT ![p] = fresh]
    <3>1. i \in Instances /\ bgs[i].status # "none" /\ Vacate(p, i) /\ i = player[p].at
      BY <1>3, <2>2
    <3> HIDE DEF i
    <3>2. Standing /\ Emptier /\ p \notin bgs'[i].players /\ \A j \in Instances : j # i => bgs'[j] = bgs[j]
      BY <3>1, Vacated
    <3>3. Plain(toQueue, toQueue') /\ astray' = astray
      BY <3>1, SilentVacate
    <3>4. p \in Players \ astray => \A j \in Instances : p \notin bgs'[j].players
      BY <1>6, <3>1, <3>2
    <3> QED
      BY <2>2, <3>2, <3>3, <3>4
  <2>3. CASE ~there /\ player' = [player EXCEPT ![p] = fresh] /\ UNCHANGED <<toQueue, bgs, astray>>
    <3>1. Standing /\ Emptier /\ Plain(toQueue, toQueue')
      BY <2>3, SameGrounds, SilentSelf
    <3>2. ASSUME p \in Players \ astray, NEW j \in Instances, p \in bgs'[j].players PROVE FALSE
      <4>1. p \in bgs[j].players /\ player[p].at = j
        BY <1>6, <2>3, <3>2
      <4>2. Exists(j)
        BY <4>1, GroundsAre
      <4> QED
        BY <2>3, <4>1, <4>2
    <3> QED
      BY <2>3, <3>1, <3>2
  <2> QED
    BY <1>1, <2>1, <2>2, <2>3
<1>9. Course /\ Batched' /\ Asking'
  BY <1>1, <1>8, LocalCourse
<1>10. ASSUME NEW s \in Players \ astray', s # p PROVE Still(s)
  <2>1. SameRecord(player[s], player'[s])
    BY <1>8, <1>10, OneRecord
  <2>2. SameNews(toWorld, toWorld', s) /\ Quieter(toQueue, toQueue', s)
    BY <1>1, <1>8, SelfNews, QuieterPlain
  <2>3. \A j \in Instances : s \in bgs'[j].players => s \in bgs[j].players
    BY <1>8 DEF Emptier
  <2> QED
    BY <1>1, <2>1, <2>2, <2>3, StillIs
<1>11. ASSUME p \in Players \ astray' PROVE Accord(p)'
  <2> DEFINE r1 == player'[p]
  <2>1. p \in Players \ astray /\ ~player[p].going
    BY <1>1, <1>6, <1>8, <1>11
  <2>2. /\ r1.online /\ ~r1.going
        /\ (r1.reg /\ r1.at \in There(bgs) /\ r1.invited = r1.at) \/ (~r1.reg /\ r1.at = 0 /\ r1.invited = 0)
        /\ \A j \in Instances : p \in bgs'[j].players => r1.at = j
    <3>1. CASE player' = [player EXCEPT ![p] = back] /\ there
      <4>1. r1 = back
        BY <1>2, <3>1
      <4>2. \A j \in Instances : p \in bgs'[j].players => player[p].at = j
        BY <1>6, <1>8, <2>1 DEF Emptier
      <4> QED
        BY <1>5, <1>7, <2>1, <3>1, <4>1, <4>2
    <3>2. CASE player' = [player EXCEPT ![p] = fresh] /\ \A j \in Instances : p \notin bgs'[j].players
      <4>1. r1 = fresh
        BY <1>2, <3>2
      <4> QED
        BY <1>4, <3>2, <4>1
    <3> QED
      BY <1>8, <2>1, <3>1, <3>2
  <2>3. {"join", "joined", "answer", "gone", "invite", "port", "left"} \subseteq types
    OBVIOUS
  <2>4. /\ Basis /\ Agreed /\ Course /\ UNCHANGED <<toWorld, queued, groups>> /\ Plain(toQueue, toQueue') /\ p \in Players \ astray
        /\ ~player[p].online /\ ~Under(p, types) /\ r1 = player'[p]
    BY <1>1, <1>8, <1>9, <2>1
  <2> HIDE DEF r1, types
  <2> QED
    BY ONLY <2>2, <2>3, <2>4, BackActor
<1>12. astray \subseteq astray' /\ \A s \in Players \ astray' : s # p => Still(s)
  BY <1>8, <1>10
<1> QED
  BY <1>9, <1>11, <1>12, OthersStill

-----------------------------------------------------------------------------
\* The invariant, and what it says when nothing is under way.

LEMMA AgreedInit ==
    ASSUME Init
    PROVE  Agreed
<1>1. /\ Len(toQueue) = 0 /\ Len(toWorld) = 0 /\ tick = 0 /\ lastInstance = 0 /\ queued = [p \in Players |-> 0]
      /\ player = [p \in Players |-> [NoPlayer EXCEPT !.online = TRUE]] /\ bgs = [i \in Instances |-> NoBg]
  BY DEF Init
<1>2. 1..0 = {}
  OBVIOUS
<1>3. Batched /\ Asking
  BY <1>1, <1>2 DEF Batched, Asking
<1>4. ASSUME NEW p \in Players PROVE Accord(p)
  <2> DEFINE r == player[p]
  <2>1. r.online /\ ~r.reg /\ r.invited = 0 /\ r.at = 0 /\ ~r.going
    BY <1>1 DEF NoPlayer
  <2>2. News(toWorld, p) = {}
    BY <1>1, <1>2 DEF News
  <2>3. "asked" \notin Said(toQueue, p) /\ "quit" \notin Said(toQueue, p)
    BY <1>1, <1>2 DEF Said, Asked, Quit
  <2>4. \A i \in Instances : p \notin bgs[i].players
    BY <1>1 DEF NoBg
  <2>5. InTurn(toWorld, p) /\ Earlier(toQueue, p)
    BY <1>1, <1>2 DEF InTurn, Earlier
  <2>6. queued[p] = 0
    BY <1>1
  <2> DEFINE said == Said(toQueue, p)
             news == News(toWorld, p)
             past == Past(toWorld, lastInstance)
             there == There(bgs)
  <2> HIDE DEF r, said, news, past, there
  <2>7. Core(0, InstIn(p, queued, groups), said, r, news, past, there)
    BY <2>1, <2>2, <2>3 DEF Core, OffQueue, said, news
  <2>8. CoreOf(p)
    BY <2>6, <2>7 DEF CoreOf, r, said, news, past, there
  <2>9. Sent(player[p], tick, Past(toWorld, lastInstance)) /\ player[p].invited <= lastInstance
    BY <1>1, <2>1 DEF Sent, r
  <2> QED
    BY <2>4, <2>5, <2>8, <2>9 DEF Accord
<1> QED
  BY <1>3, <1>4 DEF Agreed

LEMMA AgreedStutter ==
    ASSUME Agreed, UNCHANGED vars
    PROVE  Agreed'
<1>1. UNCHANGED <<toQueue, toWorld, tick, lastInstance, queued, groups, player, bgs, astray>>
  BY DEF vars, queueVars, worldVars, history
<1> QED
  BY <1>1 DEF Agreed, Batched, Asking, Accord, CoreOf, InstIn

LEMMA AgreedNext ==
    ASSUME Basis, Orderly, Agreed, [Next]_vars
    PROVE  Agreed'
<1>0. Basis'
  BY BasisNext
<1>1. CASE QueueThread
  BY <1>0, <1>1, AddGroupAgreed, PortAgreed, LoggedOutAgreed, TimedOutAgreed, ListAgreed, UpdateAgreed DEF QueueThread
<1>2. CASE WorldMessages
  BY <1>2, RegisteredAgreed, InvitedAgreed, CountAgreed, CreateAgreed, SendAgreed, LeftQueueAgreed, ExpiredAgreed
     DEF WorldMessages
<1>3. CASE \E party \in Parties : HandleBattlemasterJoinOpcode(party)
  BY <1>0, <1>3, JoinAgreed
<1>4. ASSUME NEW p \in Players, \E enter \in BOOLEAN : HandleBattlefieldPortOpcode(p, enter) PROVE Agreed'
  BY <1>4, HandlePortAgreed
<1>5. ASSUME NEW p \in Players, RemoveEvent(p) \/ Arrive(p) \/ LogoutPlayer(p) \/ LoadFromDB(p) PROVE Agreed'
  BY <1>0, <1>5, RemoveEventAgreed, ArriveAgreed, LogoutAgreed, LoadAgreed
<1>6. ASSUME NEW p \in Players, NEW i \in Instances, RemovePlayerAtLeave(p, i) PROVE Agreed'
  BY <1>6, LeaveAgreed
<1>7. ASSUME NEW i \in Instances, StartMatch(i) \/ EndBattleGround(i) \/ RemoveBattleGround(i) PROVE Agreed'
  BY <1>7, GroundAgreed
<1>8. CASE UNCHANGED vars
  BY <1>8, AgreedStutter
<1> QED
  BY <1>1, <1>2, <1>3, <1>4, <1>5, <1>6, <1>7, <1>8 DEF Next

LEMMA AgreedAtRest ==
    ASSUME Basis, Agreed
    PROVE  PlayersAgree
<1> SUFFICES ASSUME Settled, NEW p \in Players \ astray
             PROVE  /\ queued[p] # 0 => /\ player[p].online /\ player[p].reg /\ player[p].at = 0
                                        /\ player[p].invited = CalledTo(p)
                    /\ player[p].online /\ player[p].reg =>
                          queued[p] # 0 \/ player[p].at # 0 \/ (player[p].invited # 0 /\ ~Exists(player[p].invited))
  BY DEF PlayersAgree
<1> DEFINE n == queued[p]
           c == InstIn(p, queued, groups)
           said == Said(toQueue, p)
           r == player[p]
           news == News(toWorld, p)
           past == Past(toWorld, lastInstance)
           there == There(bgs)
<1>1. Core(n, c, said, r, news, past, there)
  BY DEF Agreed, Accord, CoreOf
<1>2. Len(toQueue) = 0 /\ Len(toWorld) = 0 /\ 1..0 = {}
  BY DEF Settled
<1>3. news = {} /\ "quit" \notin said
  BY <1>2 DEF News, Said, Quit
<1>4. c = CalledTo(p)
  BY CalledToIs
<1>5. r.invited \in past => r.invited # 0 /\ (r.invited \notin there => ~Exists(r.invited))
  BY InstancesAre DEF Past, There, Exists
<1> HIDE DEF n, c, said, r, news, past, there
<1>6. n # 0 => r.online /\ OnQueue(c, said, r, news, past)
  BY <1>1, <1>3 DEF Core
<1>7. n # 0 => r.online /\ r.reg /\ r.at = 0 /\ r.invited = c
  BY <1>3, <1>6 DEF OnQueue
<1>8. r.online /\ n = 0 => OffQueue(said, r, news, past, there)
  BY <1>1 DEF Core
<1>9. r.online /\ r.reg /\ n = 0 => r.at # 0 \/ (r.invited \in past /\ r.invited \notin there)
  BY <1>3, <1>8 DEF OffQueue
<1> QED
  BY <1>4, <1>5, <1>7, <1>9 DEF n, r

LEMMA AgreedHolds == Spec => [](Basis /\ Orderly /\ Agreed)
<1>1. Init => Basis /\ Orderly /\ Agreed
  BY BasisInit, OrderlyInit, AgreedInit
<1>2. (Basis /\ Orderly /\ Agreed) /\ [Next]_vars => (Basis /\ Orderly /\ Agreed)'
  BY BasisNext, OrderlyNext, AgreedNext
<1> QED
  BY <1>1, <1>2, PTL DEF Spec

\* The world thread's index and the queue agree once every message has been handled: a player whom
\* BattleGroundQueueItem has in a group has a record that says so with the same invitation, and one with
\* such a record is in the queue, in a battleground, or was on his way to one that has been deleted; the
\* players of astray, who asked again or logged out before the answer to a request, are exempt.
THEOREM PlayersStayAgreed == Spec => []PlayersAgree
<1>1. Basis /\ Orderly /\ Agreed => PlayersAgree
  BY AgreedAtRest
<1> QED
  BY <1>1, AgreedHolds, PTL

=============================================================================
