----------------------- MODULE BattleGroundQueueProofs -----------------------
(***************************************************************************)
(* Theorems about BattleGroundQueue, for any players, parties, sides and   *)
(* bounds that QueueAssumption allows.                                     *)
(***************************************************************************)
EXTENDS BattleGroundQueue, FiniteSetTheorems, Recursion, TLAPS

-----------------------------------------------------------------------------
\* Lists.

LEMMA TailIs ==
    ASSUME NEW R, NEW q \in Seq(R), q # <<>>
    PROVE  /\ Tail(q) \in Seq(R) /\ Len(q) \in Nat /\ Len(q) > 0 /\ Len(Tail(q)) = Len(q) - 1
           /\ Head(q) = q[1] /\ Head(q) \in R
           /\ \A k \in 1..Len(Tail(q)) : k + 1 \in 1..Len(q) /\ Tail(q)[k] = q[k + 1]
OBVIOUS

Joined(w, u, v) ==
    /\ Len(u) \in Nat /\ Len(v) \in Nat /\ Len(w) = Len(u) + Len(v)
    /\ \A k \in 1..Len(u) : w[k] = u[k]
    /\ \A k \in 1..Len(v) : w[Len(u) + k] = v[k]
    /\ \A k \in 1..Len(w) : k \in 1..Len(u) \/ (k - Len(u) \in 1..Len(v) /\ w[k] = v[k - Len(u)])

LEMMA Joining ==
    ASSUME NEW R, NEW u \in Seq(R), NEW v \in Seq(R), NEW w, w = u \o v
    PROVE  w \in Seq(R) /\ Joined(w, u, v)
BY DEF Joined

LEMMA SameSeq ==
    ASSUME NEW R, NEW u \in Seq(R), NEW v \in Seq(R), Len(u) = Len(v),
           \A k \in 1..Len(u) : u[k] = v[k]
    PROVE  u = v
<1>1. u = [k \in 1..Len(u) |-> u[k]] /\ v = [k \in 1..Len(v) |-> v[k]]
  OBVIOUS
<1> QED
  BY <1>1

LEMMA JoinThree ==
    ASSUME NEW R, NEW a \in Seq(R), NEW b \in Seq(R), NEW c \in Seq(R)
    PROVE  (a \o b) \o c = a \o (b \o c)
<1> DEFINE u == (a \o b) \o c
           v == a \o (b \o c)
<1>1. u \in Seq(R) /\ v \in Seq(R) /\ Len(u) = Len(v) /\ \A i \in 1..Len(u) : u[i] = v[i]
  OBVIOUS
<1> HIDE DEF u, v
<1>2. u = v
  BY <1>1, SameSeq
<1> QED
  BY <1>2 DEF u, v

LEMMA AppendedOne ==
    ASSUME NEW R, NEW u \in Seq(R), NEW m \in R
    PROVE  Append(u, m) = u \o <<m>> /\ <<m>> \in Seq(R) /\ Len(<<m>>) = 1 /\ <<m>>[1] = m
<1> DEFINE a == Append(u, m)
           b == u \o <<m>>
<1>1. <<m>> \in Seq(R) /\ Len(<<m>>) = 1 /\ <<m>>[1] = m
  OBVIOUS
<1>2. a \in Seq(R) /\ Len(a) = Len(u) + 1 /\ Len(u) \in Nat /\ a[Len(u) + 1] = m
      /\ \A k \in 1..Len(u) : a[k] = u[k]
  OBVIOUS
<1>3. b \in Seq(R) /\ Len(b) = Len(u) + 1 /\ b[Len(u) + 1] = m /\ \A k \in 1..Len(u) : b[k] = u[k]
  BY <1>1
<1>4. \A k \in 1..Len(a) : k \in 1..Len(u) \/ k = Len(u) + 1
  BY <1>2
<1> HIDE DEF a, b
<1>5. a = b
  BY <1>2, <1>3, <1>4, SameSeq
<1> QED
  BY <1>1, <1>5 DEF a, b

LEMMA RemovedAt ==
    ASSUME NEW R, NEW s \in Seq(R), NEW k \in 1..Len(s)
    PROVE  /\ RemoveAt(s, k) \in Seq(R) /\ Len(RemoveAt(s, k)) = Len(s) - 1
           /\ \A n \in 1..(Len(s) - 1) : RemoveAt(s, k)[n] = s[IF n < k THEN n ELSE n + 1]
<1> DEFINE u == SubSeq(s, 1, k - 1)
           v == SubSeq(s, k + 1, Len(s))
           r == u \o v
<1>0. Len(s) \in Nat
  OBVIOUS
<1>1. u \in Seq(R) /\ Len(u) = k - 1 /\ \A n \in 1..(k - 1) : u[n] = s[n]
  OBVIOUS
<1>2. v \in Seq(R) /\ Len(v) = Len(s) - k /\ \A n \in 1..(Len(s) - k) : v[n] = s[n + k]
  OBVIOUS
<1> HIDE DEF u, v
<1>3. r \in Seq(R) /\ Len(r) = Len(s) - 1
  BY <1>1, <1>2
<1>4. ASSUME NEW n \in 1..(Len(s) - 1) PROVE r[n] = s[IF n < k THEN n ELSE n + 1]
  <2>1. CASE n < k
    BY <1>1, <1>2, <2>1
  <2>2. CASE n >= k
    <3>1. n - (k - 1) \in 1..(Len(s) - k) /\ (n - (k - 1)) + k = n + 1
      BY <2>2
    <3>2. r[n] = v[n - (k - 1)]
      BY <1>1, <1>2, <2>2
    <3> QED
      BY <1>2, <2>2, <3>1, <3>2
  <2>3. n < k \/ n >= k
    BY <1>0
  <2> HIDE DEF r
  <2> QED
    BY <2>1, <2>2, <2>3
<1> QED
  BY <1>3, <1>4 DEF u, v, RemoveAt

-----------------------------------------------------------------------------
\* The messages under way.

Joins == {m \in [type : {"join"}, id : 1..Requests, party : (SUBSET Players) \ {{}}, team : Teams] :
             \A p \in m.party : TeamOf[p] = m.team}
Answers == [type : {"answer"}, player : Players, enter : BOOLEAN]
Gone == [type : {"gone"}, player : Players]
Expiries == [type : {"expire"}, player : Players, inst : Instances, due : 1..Requests, running : BOOLEAN]
Adds == [type : {"add"}, entry : Entries]
Removes == [type : {"remove"}, inst : Instances]
NewStatuses == [type : {"status"}, inst : Instances, status : Statuses]
Decreases == [type : {"decrease"}, inst : Instances, team : Teams]
Schedules == [type : {"schedule"}]

ToQueue == Joins \cup Answers \cup Gone \cup Expiries \cup Adds \cup Removes \cup NewStatuses
               \cup Decreases \cup Schedules

Registered == [type : {"joined"}, party : SUBSET Players]
Invites == [type : {"invite"}, player : Players, inst : Instances, due : 1..Requests]
NewCounts == [type : {"invited"}, inst : Instances, team : Teams, count : 0..(CountMod - 1)]
Creations == [type : {"create"}, inst : Instances, invited : Counts]
Ports == [type : {"port"}, player : Players, inst : Instances]
Lefts == [type : {"left"}, player : Players]
Expired == [type : {"expired"}, player : Players, inst : Instances, due : 1..Requests]

ToWorld == Registered \cup Invites \cup NewCounts \cup Creations \cup Ports \cup Lefts \cup Expired

LEMMA QueueKinds ==
    ASSUME NEW m \in ToQueue
    PROVE  /\ m.type = "join" => m \in Joins
           /\ m.type = "answer" => m \in Answers
           /\ m.type = "gone" => m \in Gone
           /\ m.type = "expire" => m \in Expiries
           /\ m.type = "add" => m \in Adds
           /\ m.type = "remove" => m \in Removes
           /\ m.type = "status" => m \in NewStatuses
           /\ m.type = "decrease" => m \in Decreases
BY DEF ToQueue, Joins, Answers, Gone, Expiries, Adds, Removes, NewStatuses, Decreases, Schedules

LEMMA WorldKinds ==
    ASSUME NEW m \in ToWorld
    PROVE  /\ m.type = "joined" => m \in Registered
           /\ m.type = "invite" => m \in Invites
           /\ m.type = "invited" => m \in NewCounts
           /\ m.type = "create" => m \in Creations
           /\ m.type = "port" => m \in Ports
           /\ m.type = "left" => m \in Lefts
           /\ m.type = "expired" => m \in Expired
BY DEF ToWorld, Registered, Invites, NewCounts, Creations, Ports, Lefts, Expired

-----------------------------------------------------------------------------
\* The invariant, first part: types.

SideGroups(t) == {g \in Groups : g.team = t /\ \A p \in g.players : TeamOf[p] = t}

Records == [online : BOOLEAN, reg : BOOLEAN, invited : Instances \cup {0}, at : Instances \cup {0},
            going : BOOLEAN, timers : Seq(Events)]
Grounds == [status : Statuses, invited : Counts, listed : BOOLEAN, players : SUBSET Players, offline : SUBSET Players]

Uses == [alliance : Nat, horde : Nat, logouts : Nat]

Typed ==
    /\ toQueue \in Seq(ToQueue) /\ batch \in 0..Len(toQueue)
    /\ toWorld \in Seq(ToWorld) /\ tick \in 0..Len(toWorld)
    /\ scheduled \in BOOLEAN
    /\ queued \in [Players -> Nat]
    /\ groups \in [Teams -> Seq(Groups)] /\ \A t \in Teams : groups[t] \in Seq(SideGroups(t))
    /\ free \in Seq(Entries)
    /\ clock \in Nat /\ lastInstance \in Nat
    /\ player \in [Players -> Records]
    /\ bgs \in [Instances -> Grounds]
    /\ used \in Uses

\* Second part: whom the queue has.  The player is in the group he is told to be in; a group has its
\* number for itself; what the bounds allow is not used up while a group waits.

Enlisted(qd, gs) == \A p \in Players : qd[p] # 0 =>
    \E n \in 1..Len(gs[TeamOf[p]]) : gs[TeamOf[p]][n].id = qd[p] /\ p \in gs[TeamOf[p]][n].players

IsJoin(m) == m.type = "join"

Distinct(q, gs) ==
    /\ \A a, b \in 1..Len(q) : IsJoin(q[a]) /\ IsJoin(q[b]) /\ q[a].id = q[b].id => a = b
    /\ \A s, t \in Teams : \A a \in 1..Len(gs[s]), b \in 1..Len(gs[t]) :
          gs[s][a].id = gs[t][b].id => s = t /\ a = b
    /\ \A a \in 1..Len(q) : \A t \in Teams : \A b \in 1..Len(gs[t]) : IsJoin(q[a]) => q[a].id # gs[t][b].id

\* The numbers of the groups of a side that have not been invited.
Waiting(q, gs, t) ==
    {q[n].id : n \in {a \in 1..Len(q) : IsJoin(q[a]) /\ q[a].team = t}}
    \cup {gs[t][n].id : n \in {a \in 1..Len(gs[t]) : gs[t][a].inst = 0}}

\* clk: the clock; last: the last battleground; n: the groups so far.
Bounded(q, gs, clk, last, n) ==
    /\ \A a \in 1..Len(q) : IsJoin(q[a]) => q[a].id <= n
    /\ \A t \in Teams : \A a \in 1..Len(gs[t]) :
          gs[t][a].id <= n /\ gs[t][a].inst <= last /\ gs[t][a].due <= clk

Room(q, gs, clk, last, u) ==
    /\ \A t \in Teams : u[t] <= MaxJoins[t]
    /\ \A t \in Teams : last + Cardinality(Waiting(q, gs, t)) <= u[t]
    /\ clk + Cardinality(Waiting(q, gs, "alliance")) + Cardinality(Waiting(q, gs, "horde")) <= u.alliance + u.horde

Numbered(q, gs, clk, last, u) ==
    /\ Distinct(q, gs)
    /\ Bounded(q, gs, clk, last, u.alliance + u.horde)
    /\ Room(q, gs, clk, last, u)

Crowd == Enlisted(queued, groups) /\ Numbered(toQueue, groups, clock, lastInstance, used)

\* No invitation is later than now.
PastQueue(q, clk) == \A n \in 1..Len(q) : q[n].type = "expire" => q[n].due <= clk
PastWorld(w, clk) == \A n \in 1..Len(w) : w[n].type \in {"expired", "invite"} => w[n].due <= clk
PastTimers(pl, clk) == \A p \in Players : \A n \in 1..Len(pl[p].timers) : pl[p].timers[n].due <= clk

\* Third part: a battleground that was made is in the list once, and twice while it is listed again.
\* c says, after each message under way, whether it is.

Once(fr, i) == \E a \in 1..Len(fr) : fr[a].inst = i
Twice(fr, i) == \E a, b \in 1..Len(fr) : a # b /\ fr[a].inst = i /\ fr[b].inst = i

Adding(m, i) == m.type = "add" /\ m.entry.inst = i
Removing(m, i) == m.type = "remove" /\ m.inst = i

Switches(before, after, m, i) ==
    /\ Adding(m, i) => ~before /\ after
    /\ Removing(m, i) => before /\ ~after
    /\ ~Adding(m, i) /\ ~Removing(m, i) => after = before

Listing(c, q, i, listed) ==
    /\ c \in [0..Len(q) -> BOOLEAN]
    /\ \A k \in 1..Len(q) : Switches(c[k - 1], c[k], q[k], i)
    /\ c[Len(q)] = listed

Places(fr, i, twice) == IF twice THEN Twice(fr, i) ELSE Once(fr, i)

IsListed(q, fr, i, listed, last) == \E c :
    /\ Listing(c, q, i, listed)
    /\ i <= last => Places(fr, i, c[0])
    /\ i > last => \A k \in 0..Len(q) : ~c[k]

Lists(q, fr, l, last) == \A i \in Instances : IsListed(q, fr, i, l[i], last)

Listed == [i \in Instances |-> bgs[i].listed]

\* Nothing is listed that has not been made.
UpTo(fr, last) == \A a \in 1..Len(fr) : fr[a].inst <= last
Announced(q, last) == \A n \in 1..Len(q) : q[n].type = "add" => q[n].entry.inst <= last

\* A battleground is made once, and has nothing before that or after its end.
Born(bs, last) == \A i \in Instances :
    /\ bs[i].status = "none" => bs[i].players = {} /\ ~bs[i].listed
    /\ i > last => bs[i].status = "none"

Making(w, bs, last) == \A n \in 1..Len(w) : w[n].type = "create" =>
    /\ w[n].inst <= last /\ bs[w[n].inst].status = "none"
    /\ \A a \in 1..Len(w) : w[a].type = "create" /\ w[a].inst = w[n].inst => a = n

Basis ==
    /\ Typed /\ Crowd
    /\ PastQueue(toQueue, clock) /\ PastWorld(toWorld, clock) /\ PastTimers(player, clock)
    /\ UpTo(free, lastInstance) /\ Announced(toQueue, lastInstance)
    /\ Lists(toQueue, free, Listed, lastInstance)
    /\ Born(bgs, lastInstance) /\ Making(toWorld, bgs, lastInstance)

-----------------------------------------------------------------------------
\* Constants.

LEMMA Numbers ==
    /\ MaxJoins["alliance"] \in Nat /\ MaxJoins["horde"] \in Nat /\ \A t \in Teams : MaxJoins[t] \in Nat
    /\ Requests \in Nat /\ Requests = MaxJoins["alliance"] + MaxJoins["horde"]
    /\ CountMod \in Nat /\ CountMod > 1 /\ MaxPerTeam \in Nat /\ MinPerTeam \in Nat /\ MinPerTeam >= 1
    /\ "alliance" \in Teams /\ "horde" \in Teams
BY QueueAssumption DEF Teams, Requests

LEMMA InstancesAre ==
    /\ Instances \subseteq Nat \ {0}
    /\ \A i \in Nat \ {0} : (\A t \in Teams : i <= MaxJoins[t]) => i \in Instances
<1> DEFINE S == {MaxJoins[t] : t \in Teams}
           a == MaxJoins["alliance"]
           h == MaxJoins["horde"]
<1>1. S = {a, h} /\ a \in Nat /\ h \in Nat
  BY Numbers DEF Teams
<1>2. \E x \in S : \A y \in S : x <= y
  <2>1. CASE a <= h
    BY <1>1, <2>1
  <2>2. CASE h <= a
    BY <1>1, <2>2
  <2> QED
    BY <1>1, <2>1, <2>2
<1> HIDE DEF S
<1>3. Min(S) \in S
  BY <1>2 DEF Min
<1>4. Instances = 1..Min(S)
  BY DEF Instances, S
<1>5. Min(S) = a \/ Min(S) = h
  BY <1>1, <1>3
<1>6. Min(S) \in Nat
  BY <1>1, <1>5
<1>7. Instances \subseteq Nat \ {0}
  BY <1>4, <1>6
<1>8. ASSUME NEW i \in Nat \ {0}, \A t \in Teams : i <= MaxJoins[t] PROVE i \in Instances
  <2>1. i <= a /\ i <= h
    BY <1>8, Numbers
  <2>2. i <= Min(S)
    BY <1>5, <2>1
  <2> QED
    BY <1>4, <1>6, <2>2
<1> QED
  BY <1>7, <1>8

-----------------------------------------------------------------------------
\* The list of battlegrounds at a message.

LEMMA ListedPop ==
    ASSUME NEW q \in Seq(ToQueue), q # <<>>, NEW fr, NEW fr1, NEW i, NEW l, NEW last \in Nat, i \in Nat,
           IsListed(q, fr, i, l, last),
           Adding(Head(q), i) /\ Once(fr, i) => Twice(fr1, i),
           Removing(Head(q), i) /\ Twice(fr, i) => Once(fr1, i),
           ~Adding(Head(q), i) /\ ~Removing(Head(q), i) /\ Once(fr, i) => Once(fr1, i),
           ~Adding(Head(q), i) /\ ~Removing(Head(q), i) /\ Twice(fr, i) => Twice(fr1, i)
    PROVE  IsListed(Tail(q), fr1, i, l, last)
<1> DEFINE q1 == Tail(q)
           N == Len(q1)
<1>1. /\ q1 \in Seq(ToQueue) /\ Len(q) = N + 1 /\ N \in Nat
      /\ Head(q) = q[1]
      /\ \A k \in 1..N : k + 1 \in 1..Len(q) /\ q1[k] = q[k + 1]
  BY TailIs
<1>2. PICK c : /\ Listing(c, q, i, l)
               /\ i <= last => Places(fr, i, c[0])
               /\ i > last => \A k \in 0..Len(q) : ~c[k]
  BY DEF IsListed
<1>3. /\ c \in [0..(N + 1) -> BOOLEAN]
      /\ \A k \in 1..(N + 1) : Switches(c[k - 1], c[k], q[k], i)
      /\ c[N + 1] = l
  BY <1>1, <1>2 DEF Listing
<1> HIDE DEF q1, N
<1> DEFINE c1 == [k \in 0..N |-> c[k + 1]]
<1>4. c1 \in [0..N -> BOOLEAN] /\ \A k \in 0..N : k + 1 \in 0..(N + 1) /\ c1[k] = c[k + 1]
  BY <1>1, <1>3
<1> HIDE DEF c1
<1>5. ASSUME NEW k \in 1..N PROVE Switches(c1[k - 1], c1[k], q1[k], i)
  <2>1. k + 1 \in 1..(N + 1) /\ (k + 1) - 1 = k /\ k \in 0..N /\ k - 1 \in 0..N /\ (k - 1) + 1 = k
    BY <1>1
  <2>2. Switches(c[k], c[k + 1], q[k + 1], i)
    BY <1>3, <2>1
  <2>3. c1[k - 1] = c[k] /\ c1[k] = c[k + 1]
    BY <1>4, <2>1
  <2> QED
    BY <1>1, <2>2, <2>3
<1>6. Listing(c1, q1, i, l)
  BY <1>1, <1>3, <1>4, <1>5 DEF Listing, N
<1>7. Switches(c[0], c[1], Head(q), i) /\ c1[0] = c[1] /\ c[0] \in BOOLEAN /\ c[1] \in BOOLEAN
  BY <1>1, <1>3, <1>4
<1>8. i <= last => Places(fr1, i, c1[0])
  BY <1>2, <1>7 DEF Places, Switches
<1>9. i > last => \A k \in 0..N : ~c1[k]
  BY <1>1, <1>2, <1>4
<1> QED
  BY <1>6, <1>8, <1>9 DEF IsListed, q1, N

LEMMA ListedPush ==
    ASSUME NEW q \in Seq(ToQueue), NEW m \in ToQueue, NEW fr, NEW i \in Nat, NEW l, NEW l1 \in BOOLEAN, NEW last \in Nat,
           IsListed(q, fr, i, l, last), Switches(l, l1, m, i), l1 => i <= last
    PROVE  IsListed(Append(q, m), fr, i, l1, last)
<1> DEFINE q1 == Append(q, m)
           N == Len(q)
<1>1. /\ q1 \in Seq(ToQueue) /\ Len(q1) = N + 1 /\ N \in Nat
      /\ \A k \in 1..N : q1[k] = q[k]
      /\ q1[N + 1] = m
  OBVIOUS
<1>2. PICK c : /\ Listing(c, q, i, l)
               /\ i <= last => Places(fr, i, c[0])
               /\ i > last => \A k \in 0..N : ~c[k]
  BY DEF IsListed
<1>3. /\ c \in [0..N -> BOOLEAN]
      /\ \A k \in 1..N : Switches(c[k - 1], c[k], q[k], i)
      /\ c[N] = l
  BY <1>2 DEF Listing
<1> HIDE DEF q1, N
<1> DEFINE c1 == [k \in 0..(N + 1) |-> IF k = N + 1 THEN l1 ELSE c[k]]
<1>4. c1 \in [0..(N + 1) -> BOOLEAN] /\ c1[N + 1] = l1 /\ \A k \in 0..N : c1[k] = c[k]
  BY <1>1, <1>3
<1> HIDE DEF c1
<1>5. ASSUME NEW k \in 1..(N + 1) PROVE Switches(c1[k - 1], c1[k], q1[k], i)
  <2>1. CASE k = N + 1
    <3>1. k - 1 = N /\ N \in 0..N
      BY <1>1, <2>1
    <3>2. c1[k - 1] = l /\ c1[k] = l1 /\ q1[k] = m
      BY <1>1, <1>3, <1>4, <2>1, <3>1
    <3> QED
      BY <3>2
  <2>2. CASE k \in 1..N
    <3>1. k - 1 \in 0..N /\ k \in 0..N
      BY <1>1, <2>2
    <3>2. c1[k - 1] = c[k - 1] /\ c1[k] = c[k] /\ q1[k] = q[k]
      BY <1>1, <1>4, <2>2, <3>1
    <3> QED
      BY <1>3, <2>2, <3>2
  <2> QED
    BY <1>1, <2>1, <2>2
<1>6. Listing(c1, q1, i, l1)
  BY <1>1, <1>4, <1>5 DEF Listing
<1>7. i <= last => Places(fr, i, c1[0])
  BY <1>1, <1>2, <1>4
<1>8. i > last => \A k \in 0..(N + 1) : ~c1[k]
  <2>1. \A k \in 0..(N + 1) : k = N + 1 \/ k \in 0..N
    BY <1>1
  <2> QED
    BY <1>2, <1>4, <2>1
<1> QED
  BY <1>1, <1>6, <1>7, <1>8 DEF IsListed, q1

LEMMA ListedMore ==
    ASSUME NEW q, Len(q) \in Nat, NEW fr, NEW fr1, NEW i \in Nat, NEW l, NEW last \in Nat, NEW last1 \in Nat,
           IsListed(q, fr, i, l, last), last <= last1,
           Once(fr, i) => Once(fr1, i), Twice(fr, i) => Twice(fr1, i),
           i > last /\ i <= last1 => Once(fr1, i)
    PROVE  IsListed(q, fr1, i, l, last1)
<1>1. PICK c : /\ Listing(c, q, i, l)
               /\ i <= last => Places(fr, i, c[0])
               /\ i > last => \A k \in 0..Len(q) : ~c[k]
  BY DEF IsListed
<1>2. i <= last1 => Places(fr1, i, c[0])
  BY <1>1 DEF Places
<1> QED
  BY <1>1, <1>2 DEF IsListed

-----------------------------------------------------------------------------
\* Looking up.

LEMMA MinIs ==
    ASSUME NEW S, S \subseteq Nat, S # {}
    PROVE  Min(S) \in S /\ \A y \in S : Min(S) <= y
<1>1. PICK x \in S : \A y \in S : <<y, x>> \notin Below
  BY BelowIsWellFounded, WFMin
<1>2. ASSUME NEW y \in S PROVE x <= y
  <2>1. x \in Nat /\ y \in Nat /\ <<y, x>> \in Nat \X Nat /\ <<y, x>>[1] = y /\ <<y, x>>[2] = x
    OBVIOUS
  <2>2. ~(y < x)
    BY <1>1, <2>1 DEF Below
  <2> QED
    BY <2>1, <2>2
<1> QED
  BY <1>2 DEF Min

LEMMA SlotIs ==
    ASSUME NEW i, free \in Seq(Entries)
    PROVE  /\ GetFreeSlotInstance(i) # 0 => /\ GetFreeSlotInstance(i) \in 1..Len(free)
                                            /\ free[GetFreeSlotInstance(i)].inst = i
           /\ Once(free, i) => GetFreeSlotInstance(i) # 0
<1> DEFINE I == {a \in 1..Len(free) : free[a].inst = i}
<1>1. GetFreeSlotInstance(i) = IF I # {} THEN Min(I) ELSE 0
  BY DEF GetFreeSlotInstance, SelectInSeq
<1>2. I \subseteq Nat /\ 0 \notin I
  OBVIOUS
<1>3. Once(free, i) => I # {}
  BY DEF Once
<1>4. ASSUME I # {} PROVE GetFreeSlotInstance(i) \in I
  <2> HIDE DEF I
  <2>1. Min(I) \in I
    BY <1>2, <1>4, MinIs
  <2> QED
    BY <1>1, <1>4, <2>1
<1>5. I = {} => GetFreeSlotInstance(i) = 0
  BY <1>1
<1> QED
  BY <1>2, <1>3, <1>4, <1>5

\* The list has the same battlegrounds at the same places.
SameInstances(fr, fr1) == Len(fr1) = Len(fr) /\ \A a \in 1..Len(fr) : fr1[a].inst = fr[a].inst

LEMMA SameInstancesList ==
    ASSUME NEW fr, NEW fr1, SameInstances(fr, fr1), NEW i
    PROVE  (Once(fr, i) => Once(fr1, i)) /\ (Twice(fr, i) => Twice(fr1, i))
BY DEF SameInstances, Once, Twice

LEMMA GroupFound ==
    ASSUME Typed, Crowd, NEW p \in Players, queued[p] # 0
    PROVE  /\ TeamOf[p] \in Teams
           /\ PlaceOf(GroupOf(p)) \in 1..Len(groups[TeamOf[p]])
           /\ groups[TeamOf[p]][PlaceOf(GroupOf(p))] = GroupOf(p)
           /\ GroupOf(p) \in SideGroups(TeamOf[p]) /\ GroupOf(p).team = TeamOf[p]
           /\ GroupOf(p).id = queued[p] /\ p \in GroupOf(p).players
<1> DEFINE t == TeamOf[p]
           gs == groups[t]
<1>1. t \in Teams
  BY QueueAssumption
<1>2. gs \in Seq(SideGroups(t)) /\ DOMAIN gs = 1..Len(gs)
  BY <1>1 DEF Typed
<1>3. PICK n \in 1..Len(gs) : gs[n].id = queued[p] /\ p \in gs[n].players
  BY DEF Crowd, Enlisted
<1>4. \A a, b \in 1..Len(gs) : gs[a].id = gs[b].id => a = b
  BY <1>1 DEF Crowd, Numbered, Distinct
<1> HIDE DEF gs
<1>5. ToSet(gs) = {gs[a] : a \in 1..Len(gs)}
  BY <1>2 DEF ToSet
<1>6. GroupOf(p) = CHOOSE g \in ToSet(gs) : g.id = queued[p]
  BY DEF GroupOf, gs, t
<1>7. gs[n] \in ToSet(gs)
  BY <1>3, <1>5
<1>8. GroupOf(p) \in ToSet(gs) /\ GroupOf(p).id = queued[p]
  BY <1>3, <1>6, <1>7
<1>9. GroupOf(p) = gs[n]
  BY <1>3, <1>4, <1>5, <1>8
<1>10. gs[n] \in SideGroups(t) /\ gs[n].team = t
  BY <1>2 DEF SideGroups
<1>11. PlaceOf(GroupOf(p)) = CHOOSE a \in DOMAIN gs : gs[a] = GroupOf(p)
  BY <1>9, <1>10 DEF PlaceOf, gs
<1>12. PlaceOf(GroupOf(p)) \in 1..Len(gs) /\ gs[PlaceOf(GroupOf(p))] = GroupOf(p)
  BY <1>2, <1>9, <1>11
<1> QED
  BY <1>1, <1>3, <1>9, <1>10, <1>12 DEF gs

-----------------------------------------------------------------------------
\* Groups that become fewer or smaller.

Part(h, g) == h.id = g.id /\ h.inst = g.inst /\ h.due = g.due /\ h.players \subseteq g.players

Fewer(gs, hs) == \A t \in Teams : \E f \in [1..Len(hs[t]) -> 1..Len(gs[t])] :
    /\ \A a, b \in 1..Len(hs[t]) : f[a] = f[b] => a = b
    /\ \A n \in 1..Len(hs[t]) : Part(hs[t][n], gs[t][f[n]])

LEMMA FewerDistinct ==
    ASSUME NEW q, NEW gs, NEW hs, Fewer(gs, hs), Distinct(q, gs)
    PROVE  Distinct(q, hs)
<1>1. ASSUME NEW s \in Teams, NEW t \in Teams, NEW a \in 1..Len(hs[s]), NEW b \in 1..Len(hs[t]),
             hs[s][a].id = hs[t][b].id
      PROVE  s = t /\ a = b
  <2>1. PICK f \in [1..Len(hs[s]) -> 1..Len(gs[s])] :
             /\ \A x, y \in 1..Len(hs[s]) : f[x] = f[y] => x = y
             /\ \A n \in 1..Len(hs[s]) : Part(hs[s][n], gs[s][f[n]])
    BY DEF Fewer
  <2>2. PICK k \in [1..Len(hs[t]) -> 1..Len(gs[t])] :
             /\ \A x, y \in 1..Len(hs[t]) : k[x] = k[y] => x = y
             /\ \A n \in 1..Len(hs[t]) : Part(hs[t][n], gs[t][k[n]])
    BY DEF Fewer
  <2>3. /\ f[a] \in 1..Len(gs[s]) /\ gs[s][f[a]].id = hs[s][a].id
        /\ k[b] \in 1..Len(gs[t]) /\ gs[t][k[b]].id = hs[t][b].id
    BY <2>1, <2>2 DEF Part
  <2>6. s = t
    BY <1>1, <2>3 DEF Distinct
  <2>4. f[b] \in 1..Len(gs[s]) /\ gs[s][f[a]].id = hs[s][a].id /\ gs[s][f[b]].id = hs[s][b].id
    BY <2>1, <2>6 DEF Part
  <2>5. f[a] = f[b]
    BY <1>1, <2>3, <2>4, <2>6 DEF Distinct
  <2> QED
    BY <2>1, <2>5, <2>6
<1>2. ASSUME NEW a \in 1..Len(q), NEW t \in Teams, NEW b \in 1..Len(hs[t]), IsJoin(q[a])
      PROVE  q[a].id # hs[t][b].id
  <2>1. PICK f \in [1..Len(hs[t]) -> 1..Len(gs[t])] : \A n \in 1..Len(hs[t]) : Part(hs[t][n], gs[t][f[n]])
    BY DEF Fewer
  <2> QED
    BY <1>2, <2>1 DEF Part, Distinct
<1> QED
  BY <1>1, <1>2 DEF Distinct

LEMMA FewerWaiting ==
    ASSUME NEW q, NEW gs, NEW hs, Fewer(gs, hs), NEW t \in Teams
    PROVE  Waiting(q, hs, t) \subseteq Waiting(q, gs, t)
<1>1. PICK f \in [1..Len(hs[t]) -> 1..Len(gs[t])] : \A n \in 1..Len(hs[t]) : Part(hs[t][n], gs[t][f[n]])
  BY DEF Fewer
<1> QED
  BY <1>1 DEF Waiting, Part

LEMMA FewerBounded ==
    ASSUME NEW q, NEW gs, NEW hs, Fewer(gs, hs), NEW clk, NEW last, NEW n, Bounded(q, gs, clk, last, n)
    PROVE  Bounded(q, hs, clk, last, n)
<1>1. ASSUME NEW t \in Teams, NEW a \in 1..Len(hs[t])
      PROVE  hs[t][a].id <= n /\ hs[t][a].inst <= last /\ hs[t][a].due <= clk
  <2>1. PICK f \in [1..Len(hs[t]) -> 1..Len(gs[t])] : \A k \in 1..Len(hs[t]) : Part(hs[t][k], gs[t][f[k]])
    BY DEF Fewer
  <2> QED
    BY <2>1 DEF Part, Bounded
<1> QED
  BY <1>1 DEF Bounded

\* The group at place k of gs loses p.
Lose(gs, k, p) == IF gs[k].players \ {p} = {} THEN RemoveAt(gs, k)
                  ELSE ReplaceAt(gs, k, [gs[k] EXCEPT !.players = gs[k].players \ {p}])

Loses(gs, hs, k, p) == \E f \in [1..Len(hs) -> 1..Len(gs)] :
    /\ \A a, b \in 1..Len(hs) : f[a] = f[b] => a = b
    /\ \A n \in 1..Len(hs) : Part(hs[n], gs[f[n]]) /\ (f[n] = k => p \notin hs[n].players)
    /\ \A a \in 1..Len(gs) : \A q \in gs[a].players : (a = k => q # p) =>
          \E n \in 1..Len(hs) : f[n] = a /\ q \in hs[n].players

LEMMA LoseIs ==
    ASSUME NEW t \in Teams, NEW gs \in Seq(SideGroups(t)), NEW k \in 1..Len(gs), NEW p, p \in gs[k].players,
           NEW hs, hs = Lose(gs, k, p)
    PROVE  hs \in Seq(SideGroups(t)) /\ Loses(gs, hs, k, p)
<1>0. Len(gs) \in Nat /\ k \in Nat /\ gs[k] \in SideGroups(t) /\ \A a \in 1..Len(gs) : gs[a] \in SideGroups(t)
  OBVIOUS
<1>1. CASE gs[k].players \ {p} = {}
  <2>1. /\ hs \in Seq(SideGroups(t)) /\ Len(hs) = Len(gs) - 1
        /\ \A n \in 1..(Len(gs) - 1) : hs[n] = gs[IF n < k THEN n ELSE n + 1]
    BY <1>1, RemovedAt DEF Lose
  <2> DEFINE f == [n \in 1..Len(hs) |-> IF n < k THEN n ELSE n + 1]
  <2>2. f \in [1..Len(hs) -> 1..Len(gs)]
    BY <1>0, <2>1
  <2>3. \A a, b \in 1..Len(hs) : f[a] = f[b] => a = b
    BY <1>0, <2>1
  <2>4. \A n \in 1..Len(hs) : hs[n] = gs[f[n]] /\ f[n] # k
    BY <1>0, <2>1
  <2>5. ASSUME NEW a \in 1..Len(gs), a # k PROVE \E n \in 1..Len(hs) : f[n] = a
    <3>1. CASE a < k
      BY <1>0, <2>1, <3>1
    <3>2. CASE a > k
      <4>1. a - 1 \in 1..Len(hs) /\ f[a - 1] = a
        BY <1>0, <2>1, <3>2
      <4> QED
        BY <4>1
    <3> QED
      BY <1>0, <2>5, <3>1, <3>2
  <2> HIDE DEF f
  <2>6. \A a \in 1..Len(gs) : \A q \in gs[a].players : (a = k => q # p) =>
            \E n \in 1..Len(hs) : f[n] = a /\ q \in hs[n].players
    BY <1>1, <2>4, <2>5
  <2>7. \A n \in 1..Len(hs) : Part(hs[n], gs[f[n]]) /\ (f[n] = k => p \notin hs[n].players)
    BY <2>4 DEF Part
  <2> QED
    BY <2>1, <2>2, <2>3, <2>6, <2>7 DEF Loses
<1>2. CASE gs[k].players \ {p} # {}
  <2> DEFINE g == [gs[k] EXCEPT !.players = gs[k].players \ {p}]
  <2>1. hs = [gs EXCEPT ![k] = g]
    BY <1>2 DEF Lose, ReplaceAt
  <2>2. g \in SideGroups(t)
    <3>1. gs[k] \in Groups /\ gs[k].team = t /\ \A q \in gs[k].players : TeamOf[q] = t
      BY <1>0 DEF SideGroups
    <3>2. gs[k].players \ {p} \in (SUBSET Players) \ {{}}
      BY <1>2, <3>1 DEF Groups
    <3>3. g \in Groups /\ g.team = t /\ g.players = gs[k].players \ {p}
      BY <3>1, <3>2 DEF Groups
    <3> QED
      BY <3>1, <3>3 DEF SideGroups
  <2>3. g.id = gs[k].id /\ g.inst = gs[k].inst /\ g.due = gs[k].due /\ g.players = gs[k].players \ {p}
    BY <1>0 DEF SideGroups, Groups
  <2> HIDE DEF g
  <2>4. hs \in Seq(SideGroups(t)) /\ Len(hs) = Len(gs) /\ \A n \in 1..Len(gs) : hs[n] = IF n = k THEN g ELSE gs[n]
    BY <2>1, <2>2
  <2> DEFINE f == [n \in 1..Len(hs) |-> n]
  <2>5. f \in [1..Len(hs) -> 1..Len(gs)] /\ \A a, b \in 1..Len(hs) : f[a] = f[b] => a = b
    BY <2>4
  <2>6. \A n \in 1..Len(hs) : f[n] = n
    OBVIOUS
  <2> HIDE DEF f
  <2>7. \A n \in 1..Len(hs) : Part(hs[n], gs[f[n]]) /\ (f[n] = k => p \notin hs[n].players)
    BY <2>3, <2>4, <2>6 DEF Part
  <2>8. \A a \in 1..Len(gs) : \A q \in gs[a].players : (a = k => q # p) =>
            \E n \in 1..Len(hs) : f[n] = a /\ q \in hs[n].players
    BY <2>3, <2>4, <2>6
  <2> QED
    BY <2>4, <2>5, <2>7, <2>8 DEF Loses
<1> QED
  BY <1>1, <1>2

\* Every group p is in is his; p is in no group.
Own(p, gs, qd) == \A t \in Teams : \A n \in 1..Len(gs[t]) : p \in gs[t][n].players => gs[t][n].id = qd[p]
Nowhere(p, gs) == \A t \in Teams : \A n \in 1..Len(gs[t]) : p \notin gs[t][n].players

\* What the queue knows after p has left it: p is nowhere, or in groups he did not know of.
LEMMA LeaveQueue ==
    ASSUME Typed, Crowd, NEW p \in Players, queued[p] # 0, NEW gs, NEW qd,
           gs = [groups EXCEPT ![TeamOf[p]] = Lose(@, PlaceOf(GroupOf(p)), p)],
           qd = [queued EXCEPT ![p] = 0]
    PROVE  /\ gs \in [Teams -> Seq(Groups)] /\ \A t \in Teams : gs[t] \in Seq(SideGroups(t))
           /\ qd \in [Players -> Nat]
           /\ Fewer(groups, gs)
           /\ Enlisted(qd, gs)
           /\ Own(p, groups, queued) => Nowhere(p, gs)
<1> DEFINE t == TeamOf[p]
           k == PlaceOf(GroupOf(p))
           old == groups[t]
           new == Lose(old, k, p)
<1>1. t \in Teams /\ k \in 1..Len(old) /\ p \in old[k].players /\ old[k].id = queued[p]
  BY GroupFound
<1>2. groups \in [Teams -> Seq(Groups)] /\ \A u \in Teams : groups[u] \in Seq(SideGroups(u))
  BY DEF Typed
<1>3. gs = [groups EXCEPT ![t] = new]
  OBVIOUS
<1>4. gs[t] = new /\ \A u \in Teams : u # t => gs[u] = groups[u]
  BY <1>1, <1>2, <1>3
<1>5. old \in Seq(SideGroups(t))
  BY <1>1, <1>2
<1>6. new = Lose(old, k, p)
  OBVIOUS
<1> HIDE DEF t, k, old, new
<1>7. new \in Seq(SideGroups(t)) /\ Loses(old, new, k, p)
  BY <1>1, <1>5, <1>6, LoseIs
<1>12. PICK f \in [1..Len(new) -> 1..Len(old)] :
                 /\ \A a, b \in 1..Len(new) : f[a] = f[b] => a = b
                 /\ \A n \in 1..Len(new) : Part(new[n], old[f[n]]) /\ (f[n] = k => p \notin new[n].players)
                 /\ \A a \in 1..Len(old) : \A q \in old[a].players : (a = k => q # p) =>
                       \E n \in 1..Len(new) : f[n] = a /\ q \in new[n].players
  BY <1>7 DEF Loses
<1>8. gs \in [Teams -> Seq(Groups)] /\ \A u \in Teams : gs[u] \in Seq(SideGroups(u))
  <2>1. SideGroups(t) \subseteq Groups
    BY DEF SideGroups
  <2>2. new \in Seq(Groups)
    BY <1>7, <2>1
  <2> QED
    BY <1>1, <1>2, <1>3, <1>4, <1>7, <2>2
<1>9. qd \in [Players -> Nat]
  BY DEF Typed
<1>10. Fewer(groups, gs)
  <2> SUFFICES ASSUME NEW u \in Teams
               PROVE  \E h \in [1..Len(gs[u]) -> 1..Len(groups[u])] :
                         /\ \A a, b \in 1..Len(gs[u]) : h[a] = h[b] => a = b
                         /\ \A n \in 1..Len(gs[u]) : Part(gs[u][n], groups[u][h[n]])
    BY DEF Fewer
  <2>1. CASE u = t
    BY <1>4, <1>12, <2>1 DEF old
  <2>2. CASE u # t
    <3> DEFINE h == [n \in 1..Len(gs[u]) |-> n]
    <3>1. gs[u] = groups[u]
      BY <1>4, <2>2
    <3>2. h \in [1..Len(gs[u]) -> 1..Len(groups[u])] /\ \A a, b \in 1..Len(gs[u]) : h[a] = h[b] => a = b
      BY <3>1
    <3>3. \A n \in 1..Len(gs[u]) : Part(gs[u][n], groups[u][h[n]])
      BY <3>1 DEF Part
    <3> QED
      BY <3>2, <3>3
  <2> QED
    BY <2>1, <2>2
<1>11. ASSUME NEW q \in Players, qd[q] # 0
       PROVE  \E n \in 1..Len(gs[TeamOf[q]]) : gs[TeamOf[q]][n].id = qd[q] /\ q \in gs[TeamOf[q]][n].players
  <2>1. q # p /\ qd[q] = queued[q] /\ TeamOf[q] \in Teams
    BY <1>11, QueueAssumption DEF Typed
  <2>2. PICK a \in 1..Len(groups[TeamOf[q]]) : groups[TeamOf[q]][a].id = queued[q] /\ q \in groups[TeamOf[q]][a].players
    BY <1>11, <2>1 DEF Crowd, Enlisted
  <2>3. CASE TeamOf[q] = t
    <3>1. a \in 1..Len(old) /\ q \in old[a].players /\ old[a].id = queued[q]
      BY <2>2, <2>3 DEF old
    <3>2. PICK n \in 1..Len(new) : f[n] = a /\ q \in new[n].players
      BY <1>12, <2>1, <3>1
    <3>3. new[n].id = queued[q]
      BY <1>12, <3>1, <3>2 DEF Part
    <3> QED
      BY <1>4, <2>1, <2>3, <3>2, <3>3
  <2>4. CASE TeamOf[q] # t
    BY <1>4, <2>1, <2>2, <2>4
  <2> QED
    BY <2>3, <2>4
<1>13. ASSUME Own(p, groups, queued), NEW u \in Teams, NEW n \in 1..Len(gs[u]), p \in gs[u][n].players PROVE FALSE
  <2>1. CASE u = t
    <3>1. n \in 1..Len(new) /\ p \in new[n].players
      BY <1>4, <1>13, <2>1
    <3>2. f[n] \in 1..Len(old) /\ f[n] # k /\ p \in old[f[n]].players
      BY <1>12, <3>1 DEF Part
    <3>3. old[f[n]].id = queued[p]
      BY <1>1, <1>13, <3>2 DEF Own, old
    <3> QED
      BY <1>1, <3>2, <3>3 DEF old, Crowd, Numbered, Distinct
  <2>2. CASE u # t
    <3>1. n \in 1..Len(groups[u]) /\ p \in groups[u][n].players
      BY <1>4, <1>13, <2>2
    <3>2. groups[u][n].id = queued[p] /\ groups[t][k].id = queued[p]
      BY <1>1, <1>13, <3>1 DEF Own, old
    <3> QED
      BY <1>1, <2>2, <3>1, <3>2 DEF old, Crowd, Numbered, Distinct
  <2> QED
    BY <2>1, <2>2
<1>14. Own(p, groups, queued) => Nowhere(p, gs)
  BY <1>13 DEF Nowhere
<1> QED
  BY <1>8, <1>9, <1>10, <1>11, <1>14 DEF Enlisted

Harmless(m) == m.type \notin {"create", "expired", "invite"}

\* The world hears of harmless messages only.
Tells(w, w1) == \E news \in Seq(ToWorld) : w1 = w \o news /\ \A k \in 1..Len(news) : Harmless(news[k])

CountIn(fr, k, t, count) == [fr EXCEPT ![k].invited[t] = count]

LEMMA CountChanged ==
    ASSUME free \in Seq(Entries), NEW k \in 1..Len(free), NEW t \in Teams
    PROVE  /\ Less(free[k].invited[t]) \in 0..(CountMod - 1)
           /\ CountIn(free, k, t, Less(free[k].invited[t])) \in Seq(Entries)
           /\ SameInstances(free, CountIn(free, k, t, Less(free[k].invited[t])))
<1> DEFINE e == free[k]
           c == Less(e.invited[t])
           e1 == [e EXCEPT !.invited[t] = c]
<1>1. e \in Entries
  OBVIOUS
<1>2. e.invited \in Counts /\ e.invited[t] \in 0..(CountMod - 1)
  BY <1>1 DEF Entries, Counts
<1>3. c \in 0..(CountMod - 1)
  BY <1>2, Numbers DEF Less
<1>4. [e.invited EXCEPT ![t] = c] \in Counts
  BY <1>2, <1>3 DEF Counts
<1>5. e1 \in Entries /\ e1.inst = e.inst
  BY <1>1, <1>4 DEF Entries
<1>6. CountIn(free, k, t, c) = [free EXCEPT ![k] = e1]
  BY DEF CountIn
<1> HIDE DEF e1, c
<1>7. [free EXCEPT ![k] = e1] \in Seq(Entries) /\ SameInstances(free, [free EXCEPT ![k] = e1])
  BY <1>5 DEF SameInstances
<1> QED
  BY <1>3, <1>6, <1>7 DEF c

\* The world is told the new count, perhaps, and then the answer.
Reports(w, w1, answer) == \E news \in Seq(ToWorld) :
    w1 = w \o (news \o answer) /\ \A k \in 1..Len(news) : news[k].type = "invited"

LEMMA RemovedPlayer ==
    ASSUME Typed, Crowd, NEW p \in Players, queued[p] # 0, NEW dec \in BOOLEAN,
           NEW answer \in Seq(ToWorld), \A k \in 1..Len(answer) : Harmless(answer[k]),
           RemovePlayer(p, dec, answer)
    PROVE  /\ groups' \in [Teams -> Seq(Groups)] /\ \A t \in Teams : groups'[t] \in Seq(SideGroups(t))
           /\ queued' \in [Players -> Nat]
           /\ Fewer(groups, groups')
           /\ Enlisted(queued', groups')
           /\ Own(p, groups, queued) => Nowhere(p, groups')
           /\ queued' = [queued EXCEPT ![p] = 0]
           /\ free' \in Seq(Entries) /\ SameInstances(free, free')
           /\ Tells(toWorld, toWorld') /\ Reports(toWorld, toWorld', answer)
<1> DEFINE g == GroupOf(p)
           n == PlaceOf(g)
           t == TeamOf[p]
           rest == [g EXCEPT !.players = g.players \ {p}]
           k == IF dec /\ g.inst # 0 THEN GetFreeSlotInstance(g.inst) ELSE 0
           count == Less(free[k].invited[g.team])
           news == IF k = 0 THEN <<>> ELSE <<Invited(g.inst, g.team, count)>>
<1>1. /\ t \in Teams /\ n \in 1..Len(groups[t]) /\ groups[t][n] = g
      /\ g \in SideGroups(t) /\ g.team = t
  BY GroupFound
<1>2. /\ groups' = [groups EXCEPT ![g.team] = IF rest.players = {} THEN RemoveAt(@, n) ELSE ReplaceAt(@, n, rest)]
      /\ queued' = [queued EXCEPT ![p] = 0]
      /\ free' = IF k = 0 THEN free ELSE CountIn(free, k, g.team, count)
      /\ toWorld' = toWorld \o news \o answer
  BY DEF RemovePlayer, CountIn
<1>3. g.inst \in Instances \cup {0} /\ free \in Seq(Entries) /\ toWorld \in Seq(ToWorld)
  BY <1>1 DEF SideGroups, Groups, Typed
<1>4. groups' = [groups EXCEPT ![t] = Lose(@, n, p)]
  <2>1. rest.players = g.players \ {p}
    BY <1>1 DEF SideGroups, Groups
  <2>2. Lose(groups[t], n, p) = IF rest.players = {} THEN RemoveAt(groups[t], n) ELSE ReplaceAt(groups[t], n, rest)
    BY <1>1, <2>1 DEF Lose
  <2> HIDE DEF rest, n, g, t
  <2> QED
    BY <1>1, <1>2, <2>2
<1> HIDE DEF n
<1>5. k # 0 => k \in 1..Len(free) /\ g.inst \in Instances
  BY <1>3, SlotIs
<1> HIDE DEF g, k
<1>6. k # 0 => count \in 0..(CountMod - 1)
  BY <1>1, <1>3, <1>5, CountChanged
<1>7. free' \in Seq(Entries) /\ SameInstances(free, free')
  <2>1. CASE k = 0
    BY <1>2, <1>3, <2>1 DEF SameInstances
  <2>2. CASE k # 0
    BY <1>1, <1>2, <1>3, <1>5, <2>2, CountChanged
  <2> QED
    BY <2>1, <2>2
<1>8. news \in Seq(ToWorld) /\ \A a \in 1..Len(news) : Harmless(news[a]) /\ news[a].type = "invited"
  <2>1. CASE k = 0
    BY <2>1
  <2>2. CASE k # 0
    <3> DEFINE m == Invited(g.inst, g.team, count)
    <3>1. m \in ToWorld /\ m.type = "invited"
      BY <1>1, <1>5, <1>6, <2>2 DEF ToWorld, NewCounts, Invited
    <3> HIDE DEF m
    <3>2. news = <<m>>
      BY <2>2 DEF m
    <3> HIDE DEF news
    <3> QED
      BY <3>1, <3>2 DEF Harmless
  <2> QED
    BY <2>1, <2>2
<1> HIDE DEF news, count
<1>9. Tells(toWorld, toWorld') /\ Reports(toWorld, toWorld', answer)
  <2> DEFINE all == news \o answer
  <2>1. all \in Seq(ToWorld) /\ toWorld' = toWorld \o all
    <3>1. toWorld \o news \o answer = toWorld \o (news \o answer)
      BY <1>3, <1>8, JoinThree
    <3>2. all \in Seq(ToWorld)
      BY <1>8
    <3>3. toWorld' = toWorld \o news \o answer
      BY <1>2
    <3> QED
      BY <3>1, <3>2, <3>3
  <2>2. \A i \in 1..Len(all) : Harmless(all[i])
    <3>1. \A i \in 1..Len(all) : i \in 1..Len(news) \/ (i - Len(news) \in 1..Len(answer) /\ all[i] = answer[i - Len(news)])
      BY <1>8, Joining DEF Joined
    <3>2. \A i \in 1..Len(news) : all[i] = news[i]
      BY <1>8, Joining DEF Joined
    <3> HIDE DEF all
    <3> QED
      BY <1>8, <3>1, <3>2
  <2>3. Reports(toWorld, toWorld', answer)
    BY <1>8, <2>1 DEF Reports
  <2> HIDE DEF all
  <2> QED
    BY <2>1, <2>2, <2>3 DEF Tells
<1>10. /\ groups' \in [Teams -> Seq(Groups)] /\ \A u \in Teams : groups'[u] \in Seq(SideGroups(u))
       /\ queued' \in [Players -> Nat]
       /\ Fewer(groups, groups')
       /\ Enlisted(queued', groups')
       /\ Own(p, groups, queued) => Nowhere(p, groups')
  <2>1. groups' = [groups EXCEPT ![TeamOf[p]] = Lose(@, PlaceOf(GroupOf(p)), p)]
    BY <1>4 DEF n, g
  <2> QED
    BY <1>2, <2>1, LeaveQueue
<1> QED
  BY <1>2, <1>7, <1>9, <1>10

-----------------------------------------------------------------------------
\* Selecting groups.

LEMMA StaysIn ==
    ASSUME NEW c, NEW V, NEW N \in Nat, c[0] \in V, \A n \in 1..N : c[n - 1] \in V => c[n] \in V
    PROVE  \A n \in 0..N : c[n] \in V
<1> DEFINE S == {n \in 0..N : c[n] \in V}
<1>1. 0 \in S
  OBVIOUS
<1>2. \A n \in 1..N : n - 1 \in S => n \in S
  OBVIOUS
<1> HIDE DEF S
<1>3. 0..N \subseteq S
  BY <1>1, <1>2, BoundedInduction
<1> QED
  BY <1>3 DEF S

Open(gs) == {n \in 1..Len(gs) : gs[n].inst = 0}

Pools(gs) == {pool \in [selected : SUBSET Open(gs), count : Nat, full : BOOLEAN] : pool.selected = {} => pool.count = 0}

LEMMA PlayersFinite ==
    ASSUME NEW t, NEW g \in SideGroups(t)
    PROVE  IsFiniteSet(g.players) /\ Cardinality(g.players) \in Nat /\ g.players \subseteq Players
<1>1. g.players \subseteq Players /\ IsFiniteSet(Players)
  BY QueueAssumption DEF SideGroups, Groups
<1>2. IsFiniteSet(g.players)
  BY <1>1, FS_Subset
<1> QED
  BY <1>1, <1>2, FS_CardinalityType

LEMMA PoolAddIs ==
    ASSUME NEW t, NEW gs \in Seq(SideGroups(t)), NEW pool \in Pools(gs), NEW n \in 1..Len(gs), NEW desired \in Nat
    PROVE  PoolAdd(pool, gs, n, desired) \in Pools(gs)
<1> DEFINE size == Cardinality(gs[n].players)
           more == [pool EXCEPT !.selected = @ \cup {n}, !.count = @ + size]
           b == pool.count >= desired
           same == [pool EXCEPT !.full = b]
<1>1. size \in Nat
  BY PlayersFinite
<1>2. PoolAdd(pool, gs, n, desired) = IF gs[n].inst = 0 /\ pool.count + size <= desired THEN more ELSE same
  BY DEF PoolAdd
<1>3. pool \in [selected : SUBSET Open(gs), count : Nat, full : BOOLEAN] /\ (pool.selected = {} => pool.count = 0)
  BY DEF Pools
<1>4. b \in BOOLEAN
  OBVIOUS
<1> HIDE DEF size, b
<1>5. ASSUME gs[n].inst = 0 PROVE more \in Pools(gs)
  <2>1. n \in Open(gs)
    BY <1>5 DEF Open
  <2>2. more.selected = pool.selected \cup {n}
    BY <1>3
  <2>3. more \in [selected : SUBSET Open(gs), count : Nat, full : BOOLEAN]
    <3> DEFINE sel == pool.selected \cup {n}
               cnt == pool.count + size
    <3>1. sel \in SUBSET Open(gs) /\ cnt \in Nat
      BY <1>1, <1>3, <2>1
    <3> HIDE DEF sel, cnt
    <3>2. [[pool EXCEPT !.selected = sel] EXCEPT !.count = cnt] \in [selected : SUBSET Open(gs), count : Nat, full : BOOLEAN]
      BY <1>3, <3>1
    <3> QED
      BY <3>2 DEF sel, cnt
  <2> QED
    BY <2>2, <2>3 DEF Pools
<1>6. same \in Pools(gs)
  <2>1. same.selected = pool.selected /\ same.count = pool.count
    BY <1>3
  <2>2. same \in [selected : SUBSET Open(gs), count : Nat, full : BOOLEAN]
    BY <1>3, <1>4
  <2> QED
    BY <1>3, <2>1, <2>2 DEF Pools
<1> QED
  BY <1>2, <1>5, <1>6

LEMMA NoPoolIs == \A gs : NoPool \in Pools(gs)
BY DEF NoPool, Pools

LEMMA FillIs ==
    ASSUME NEW t, NEW gs \in Seq(SideGroups(t)), NEW desired \in Nat
    PROVE  Fill(gs, desired) \in Pools(gs)
<1> DEFINE N == Len(gs)
           V == Pools(gs)
           next(p, n) == IF p.full THEN p ELSE PoolAdd(p, gs, n, desired)
           G == [a \in V \X (1..N) |-> next(a[1], a[2])]
           body(f) == [n \in 0..N |-> IF n = 0 THEN NoPool ELSE IF f[n - 1].full THEN f[n - 1] ELSE PoolAdd(f[n - 1], gs, n, desired)]
<1>1. N \in Nat /\ NoPool \in V
  BY NoPoolIs
<1>2. \A n \in 1..N : \A p \in V : next(p, n) \in V
  BY PoolAddIs
<1>3. Fill(gs, desired) = (CHOOSE f : f = body(f))[N]
  BY DEF Fill
<1> HIDE DEF N, V
<1>4. G \in Steps(V, N)
  BY <1>2 DEF Steps
<1>5. PICK f : Follows(f, V, NoPool, N, G)
  <2> HIDE DEF G
  <2> QED
    BY <1>1, <1>4, RecursionExists
<1>6. f \in [0..N -> V] /\ f[0] = NoPool /\ \A n \in 1..N : f[n] = G[<<f[n - 1], n>>]
  BY <1>5 DEF Follows
<1>7. \A n \in 1..N : f[n] = next(f[n - 1], n)
  <2> SUFFICES ASSUME NEW n \in 1..N PROVE f[n] = next(f[n - 1], n)
    OBVIOUS
  <2>1. f[n - 1] \in V
    BY <1>1, <1>6
  <2> QED
    BY <1>6, <2>1
<1>8. f = body(f)
  <2>1. \A n \in 0..N : f[n] = IF n = 0 THEN NoPool ELSE next(f[n - 1], n)
    BY <1>1, <1>6, <1>7
  <2> QED
    BY <1>6, <2>1
<1> DEFINE c == CHOOSE h : h = body(h)
<1>9. c = body(c)
  <2> HIDE DEF body
  <2> QED
    BY <1>8, Zenon
<1> HIDE DEF c
<1>10. c[0] = NoPool /\ \A n \in 1..N : c[n] = next(c[n - 1], n)
  BY <1>1, <1>9
<1>11. \A n \in 1..N : c[n - 1] \in V => c[n] \in V
  <2> HIDE DEF next
  <2> QED
    BY <1>2, <1>10
<1>12. \A n \in 0..N : c[n] \in V
  BY <1>1, <1>10, <1>11, StaysIn
<1> QED
  BY <1>1, <1>3, <1>12 DEF c, V

LEMMA MatchIs ==
    ASSUME NEW t, NEW gs \in Seq(SideGroups(t))
    PROVE  Match(gs) \in Pools(gs)
<1> DEFINE N == Len(gs)
           V == Pools(gs)
           next(p, n) == IF gs[n].inst # 0 \/ p.count >= MinPerTeam THEN p ELSE PoolAdd(p, gs, n, MaxPerTeam)
           G == [a \in V \X (1..N) |-> next(a[1], a[2])]
           body(f) == [n \in 0..N |-> IF n = 0 THEN NoPool
                                      ELSE IF gs[n].inst # 0 \/ f[n - 1].count >= MinPerTeam THEN f[n - 1]
                                      ELSE PoolAdd(f[n - 1], gs, n, MaxPerTeam)]
<1>1. N \in Nat /\ NoPool \in V
  BY NoPoolIs
<1>2. \A n \in 1..N : \A p \in V : next(p, n) \in V
  BY PoolAddIs, Numbers
<1>3. Match(gs) = (CHOOSE f : f = body(f))[N]
  BY DEF Match
<1> HIDE DEF N, V
<1>4. G \in Steps(V, N)
  BY <1>2 DEF Steps
<1>5. PICK f : Follows(f, V, NoPool, N, G)
  <2> HIDE DEF G
  <2> QED
    BY <1>1, <1>4, RecursionExists
<1>6. f \in [0..N -> V] /\ f[0] = NoPool /\ \A n \in 1..N : f[n] = G[<<f[n - 1], n>>]
  BY <1>5 DEF Follows
<1>7. \A n \in 1..N : f[n] = next(f[n - 1], n)
  <2> SUFFICES ASSUME NEW n \in 1..N PROVE f[n] = next(f[n - 1], n)
    OBVIOUS
  <2>1. f[n - 1] \in V
    BY <1>1, <1>6
  <2> QED
    BY <1>6, <2>1
<1>8. f = body(f)
  <2>1. \A n \in 0..N : f[n] = IF n = 0 THEN NoPool ELSE next(f[n - 1], n)
    BY <1>1, <1>6, <1>7
  <2> QED
    BY <1>6, <2>1
<1> DEFINE c == CHOOSE h : h = body(h)
<1>9. c = body(c)
  <2> HIDE DEF body
  <2> QED
    BY <1>8, Zenon
<1> HIDE DEF c
<1>10. c[0] = NoPool /\ \A n \in 1..N : c[n] = next(c[n - 1], n)
  BY <1>1, <1>9
<1>11. \A n \in 1..N : c[n - 1] \in V => c[n] \in V
  <2> HIDE DEF next
  <2> QED
    BY <1>2, <1>10
<1>12. \A n \in 0..N : c[n] \in V
  BY <1>1, <1>10, <1>11, StaysIn
<1> QED
  BY <1>1, <1>3, <1>12 DEF c, V

-----------------------------------------------------------------------------
\* Who is invited.

LEMMA SetToSeqIs ==
    ASSUME NEW S, IsFiniteSet(S)
    PROVE  /\ SetToSeq(S) \in Seq(S)
           /\ \A a, b \in 1..Len(SetToSeq(S)) : SetToSeq(S)[a] = SetToSeq(S)[b] => a = b
           /\ \A x \in S : \E a \in 1..Len(SetToSeq(S)) : SetToSeq(S)[a] = x
<1> DEFINE n == Cardinality(S)
           s == SetToSeq(S)
<1>1. n \in Nat /\ ExistsBijection(1..n, S)
  BY FS_CardinalityType
<1>2. \E f \in [1..n -> S] : IsInjective(f)
  BY <1>1 DEF ExistsBijection, Bijection, Injection
<1> HIDE DEF n
<1>3. s \in [1..n -> S] /\ IsInjective(s)
  BY <1>2 DEF SetToSeq, n
<1> HIDE DEF s
<1>4. s \in Injection(1..n, S)
  BY <1>3 DEF Injection
<1>5. IsFiniteSet(1..n) /\ Cardinality(1..n) = n
  BY <1>1, FS_Interval
<1>6. Cardinality(1..n) = Cardinality(S)
  BY <1>5 DEF n
<1>7. s \in Surjection(1..n, S)
  BY <1>4, <1>6, FS_Injection
<1>8. \A x \in S : \E a \in 1..n : s[a] = x
  BY <1>7 DEF Surjection
<1>9. s \in Seq(S) /\ Len(s) = n
  BY <1>1, <1>3
<1> QED
  BY <1>1, <1>3, <1>8, <1>9 DEF s, IsInjective

\* Each of the first n groups of gs that are selected is invited, and nobody else.
Guested(s, gs, selected, n) ==
    /\ s \in Seq(Players)
    /\ \A k \in 1..Len(s) : \E a \in 1..n : a \in selected /\ s[k] \in gs[a].players
    /\ \A a \in 1..n : a \in selected => \A p \in gs[a].players : \E k \in 1..Len(s) : s[k] = p
    /\ \A p : (\A a, b \in 1..Len(gs) : p \in gs[a].players /\ p \in gs[b].players => a = b) =>
              \A j, k \in 1..Len(s) : s[j] = p /\ s[k] = p => j = k

LEMMA GuestedNext ==
    ASSUME NEW t, NEW gs \in Seq(SideGroups(t)), NEW selected, NEW n \in 1..Len(gs), NEW s, Guested(s, gs, selected, n - 1),
           NEW s1, s1 = s \o (IF n \in selected THEN SetToSeq(gs[n].players) ELSE <<>>)
    PROVE  Guested(s1, gs, selected, n)
<1>0. n \in Nat /\ n >= 1 /\ Len(gs) \in Nat /\ \A a \in 1..n : a \in 1..(n - 1) \/ a = n
  OBVIOUS
<1>1. CASE n \notin selected
  <2>1. s1 = s
    <3>1. s \in Seq(Players)
      BY DEF Guested
    <3> DEFINE u == s \o <<>>
    <3>2. u \in Seq(Players) /\ Len(u) = Len(s) /\ \A k \in 1..Len(u) : u[k] = s[k]
      BY <3>1
    <3>3. s1 = u
      BY <1>1
    <3> HIDE DEF u
    <3>4. u = s
      BY <3>1, <3>2, SameSeq
    <3> QED
      BY <3>3, <3>4
  <2>2. /\ s \in Seq(Players)
        /\ \A k \in 1..Len(s) : \E a \in 1..(n - 1) : a \in selected /\ s[k] \in gs[a].players
        /\ \A a \in 1..(n - 1) : a \in selected => \A p \in gs[a].players : \E k \in 1..Len(s) : s[k] = p
        /\ \A p : (\A a, b \in 1..Len(gs) : p \in gs[a].players /\ p \in gs[b].players => a = b) =>
                  \A j, k \in 1..Len(s) : s[j] = p /\ s[k] = p => j = k
    BY DEF Guested
  <2>3. \A a \in 1..(n - 1) : a \in 1..n
    BY <1>0
  <2>4. \A k \in 1..Len(s) : \E a \in 1..n : a \in selected /\ s[k] \in gs[a].players
    BY <2>2, <2>3
  <2>5. \A a \in 1..n : a \in selected => \A p \in gs[a].players : \E k \in 1..Len(s) : s[k] = p
    BY <1>0, <1>1, <2>2
  <2> QED
    BY <2>1, <2>2, <2>4, <2>5 DEF Guested
<1>2. CASE n \in selected
  <2> DEFINE G == gs[n].players
             new == SetToSeq(G)
  <2>1. IsFiniteSet(G) /\ G \subseteq Players
    BY PlayersFinite
  <2>2. /\ new \in Seq(G)
        /\ \A a, b \in 1..Len(new) : new[a] = new[b] => a = b
        /\ \A x \in G : \E a \in 1..Len(new) : new[a] = x
    BY <2>1, SetToSeqIs
  <2>3. s \in Seq(Players) /\ s1 = s \o new
    BY <1>2 DEF Guested
  <2> HIDE DEF new
  <2>4. new \in Seq(Players) /\ \A a \in 1..Len(new) : new[a] \in G
    BY <2>1, <2>2
  <2>5. /\ s1 \in Seq(Players) /\ Len(s) \in Nat /\ Len(new) \in Nat
        /\ Len(s1) = Len(s) + Len(new)
        /\ \A k \in 1..Len(s) : s1[k] = s[k]
        /\ \A k \in 1..Len(new) : s1[Len(s) + k] = new[k]
        /\ \A k \in 1..Len(s1) : k \in 1..Len(s) \/ (k - Len(s) \in 1..Len(new) /\ s1[k] = new[k - Len(s)])
    <3>1. s1 \in Seq(Players) /\ Joined(s1, s, new)
      BY <2>3, <2>4, Joining
    <3> QED
      BY <3>1 DEF Joined
  <2>6. ASSUME NEW k \in 1..Len(s1) PROVE \E a \in 1..n : a \in selected /\ s1[k] \in gs[a].players
    <3>1. CASE k \in 1..Len(s)
      <4>1. PICK a \in 1..(n - 1) : a \in selected /\ s[k] \in gs[a].players
        BY <3>1 DEF Guested
      <4>2. a \in 1..n /\ s1[k] = s[k]
        BY <1>0, <2>5, <3>1
      <4> QED
        BY <4>1, <4>2
    <3>2. CASE k \notin 1..Len(s)
      BY <1>0, <1>2, <2>4, <2>5, <3>2
    <3> QED
      BY <3>1, <3>2
  <2>7. ASSUME NEW a \in 1..n, a \in selected, NEW p \in gs[a].players PROVE \E k \in 1..Len(s1) : s1[k] = p
    <3>1. CASE a \in 1..(n - 1)
      <4>1. PICK k \in 1..Len(s) : s[k] = p
        BY <2>7, <3>1 DEF Guested
      <4>2. k \in 1..Len(s1)
        BY <2>5
      <4> QED
        BY <2>5, <4>1, <4>2
    <3>2. CASE a = n
      <4>1. PICK k \in 1..Len(new) : new[k] = p
        BY <2>2, <3>2
      <4>2. Len(s) + k \in 1..Len(s1)
        BY <2>5
      <4> QED
        BY <2>5, <4>1, <4>2
    <3> QED
      BY <1>0, <3>1, <3>2
  <2>8. ASSUME NEW p, \A a, b \in 1..Len(gs) : p \in gs[a].players /\ p \in gs[b].players => a = b,
               NEW j \in 1..Len(s1), NEW k \in 1..Len(s1), s1[j] = p, s1[k] = p
        PROVE  j = k
    <3>1. \A i \in 1..Len(s) : s[i] = p => p \notin G
      <4> SUFFICES ASSUME NEW i \in 1..Len(s), s[i] = p PROVE p \notin G
        OBVIOUS
      <4>1. PICK a \in 1..(n - 1) : a \in selected /\ s[i] \in gs[a].players
        BY DEF Guested
      <4>2. a \in 1..Len(gs) /\ a # n
        BY <1>0
      <4> QED
        BY <2>8, <4>1, <4>2
    <3>2. \A i, l \in 1..Len(s) : s[i] = p /\ s[l] = p => i = l
      BY <2>8 DEF Guested
    <3>3. \A i, l \in 1..Len(new) : new[i] = new[l] => i = l
      BY <2>2
    <3>4. j \in Int /\ k \in Int /\ Len(s) \in Int
      BY <2>5
    <3>5. CASE j \in 1..Len(s) /\ k \in 1..Len(s)
      <4>1. s[j] = p /\ s[k] = p
        BY <2>5, <2>8, <3>5
      <4> QED
        BY <3>2, <3>5, <4>1
    <3>6. CASE j \in 1..Len(s) /\ k \notin 1..Len(s)
      <4>1. s[j] = p /\ new[k - Len(s)] = p /\ k - Len(s) \in 1..Len(new)
        BY <2>5, <2>8, <3>6
      <4> QED
        BY <2>4, <3>1, <3>6, <4>1
    <3>7. CASE j \notin 1..Len(s) /\ k \in 1..Len(s)
      <4>1. s[k] = p /\ new[j - Len(s)] = p /\ j - Len(s) \in 1..Len(new)
        BY <2>5, <2>8, <3>7
      <4> QED
        BY <2>4, <3>1, <3>7, <4>1
    <3>8. CASE j \notin 1..Len(s) /\ k \notin 1..Len(s)
      <4>1. new[j - Len(s)] = p /\ j - Len(s) \in 1..Len(new)
        BY <2>5, <2>8, <3>8
      <4>2. new[k - Len(s)] = p /\ k - Len(s) \in 1..Len(new)
        BY <2>5, <2>8, <3>8
      <4>3. j - Len(s) = k - Len(s)
        BY <3>3, <4>1, <4>2
      <4> QED
        BY <3>4, <4>3
    <3> QED
      BY <3>5, <3>6, <3>7, <3>8
  <2>9. /\ s1 \in Seq(Players)
        /\ \A k \in 1..Len(s1) : \E a \in 1..n : a \in selected /\ s1[k] \in gs[a].players
        /\ \A a \in 1..n : a \in selected => \A p \in gs[a].players : \E k \in 1..Len(s1) : s1[k] = p
    BY <2>5, <2>6, <2>7
  <2>10. \A p : (\A a, b \in 1..Len(gs) : p \in gs[a].players /\ p \in gs[b].players => a = b) =>
              \A j, k \in 1..Len(s1) : s1[j] = p /\ s1[k] = p => j = k
    BY <2>8
  <2> QED
    BY <2>9, <2>10 DEF Guested
<1> QED
  BY <1>1, <1>2

LEMMA GuestsAre ==
    ASSUME NEW t, NEW gs \in Seq(SideGroups(t)), NEW selected
    PROVE  Guested(Guests(gs, selected), gs, selected, Len(gs))
<1> DEFINE N == Len(gs)
           V == Seq(Players)
           next(s, n) == s \o (IF n \in selected THEN SetToSeq(gs[n].players) ELSE <<>>)
           G == [a \in V \X (1..N) |-> next(a[1], a[2])]
           body(f) == [n \in 0..N |-> IF n = 0 THEN <<>> ELSE f[n - 1] \o (IF n \in selected THEN SetToSeq(gs[n].players) ELSE <<>>)]
<1>1. N \in Nat /\ <<>> \in V
  OBVIOUS
<1>2. \A n \in 1..N : \A s \in V : next(s, n) \in V
  <2> SUFFICES ASSUME NEW n \in 1..N, NEW s \in V PROVE next(s, n) \in V
    OBVIOUS
  <2>1. IsFiniteSet(gs[n].players) /\ gs[n].players \subseteq Players
    BY PlayersFinite
  <2>2. SetToSeq(gs[n].players) \in Seq(gs[n].players)
    BY <2>1, SetToSeqIs
  <2>3. SetToSeq(gs[n].players) \in V
    BY <2>1, <2>2
  <2> QED
    BY <2>3
<1>3. Guests(gs, selected) = (CHOOSE f : f = body(f))[N]
  BY DEF Guests
<1> HIDE DEF N, V
<1>4. G \in Steps(V, N)
  BY <1>2 DEF Steps
<1>5. PICK f : Follows(f, V, <<>>, N, G)
  <2> HIDE DEF G
  <2> QED
    BY <1>1, <1>4, RecursionExists
<1>6. f \in [0..N -> V] /\ f[0] = <<>> /\ \A n \in 1..N : f[n] = G[<<f[n - 1], n>>]
  BY <1>5 DEF Follows
<1>7. \A n \in 1..N : f[n] = next(f[n - 1], n)
  <2> SUFFICES ASSUME NEW n \in 1..N PROVE f[n] = next(f[n - 1], n)
    OBVIOUS
  <2>1. f[n - 1] \in V
    BY <1>1, <1>6
  <2> QED
    BY <1>6, <2>1
<1>8. f = body(f)
  <2>1. \A n \in 0..N : f[n] = IF n = 0 THEN <<>> ELSE next(f[n - 1], n)
    BY <1>1, <1>6, <1>7
  <2> QED
    BY <1>6, <2>1
<1> DEFINE c == CHOOSE h : h = body(h)
<1>9. c = body(c)
  <2> HIDE DEF body
  <2> QED
    BY <1>8, Zenon
<1> HIDE DEF c
<1>10. c[0] = <<>> /\ \A n \in 1..N : c[n] = next(c[n - 1], n)
  BY <1>1, <1>9
<1> DEFINE S == {n \in 0..N : Guested(c[n], gs, selected, n)}
<1>11. 0 \in S
  <2>1. <<>> \in Seq(Players) /\ Len(<<>>) = 0 /\ 0 \in 0..N
    BY <1>1
  <2>2. Guested(<<>>, gs, selected, 0)
    BY <2>1 DEF Guested
  <2> QED
    BY <1>10, <2>1, <2>2
<1>12. ASSUME NEW n \in 1..N, n - 1 \in S PROVE n \in S
  <2>1. Guested(c[n - 1], gs, selected, n - 1) /\ n \in 1..Len(gs)
    BY <1>12 DEF N
  <2>2. c[n] = c[n - 1] \o (IF n \in selected THEN SetToSeq(gs[n].players) ELSE <<>>)
    BY <1>10
  <2>3. Guested(c[n], gs, selected, n)
    BY <2>1, <2>2, GuestedNext
  <2> QED
    BY <1>1, <2>3
<1> HIDE DEF S
<1>13. 0..N \subseteq S
  BY <1>1, <1>11, <1>12, BoundedInduction
<1>14. N \in S
  BY <1>1, <1>13
<1> QED
  BY <1>3, <1>14 DEF c, S, N

-----------------------------------------------------------------------------
\* Inviting groups.

Sides(gs) == gs \in [Teams -> Seq(Groups)] /\ \A t \in Teams : gs[t] \in Seq(SideGroups(t))

CalledAs(h, g, d, last) == h.id = g.id /\ h.players = g.players /\ g.inst = 0 /\ h.inst \in 1..last /\ h.due = d

\* Some groups of gs have been invited at d, to one of the first battlegrounds up to last.
Calls(gs, hs, d, last) == \A t \in Teams :
    /\ Len(hs[t]) = Len(gs[t])
    /\ \A n \in 1..Len(gs[t]) : hs[t][n] = gs[t][n] \/ CalledAs(hs[t][n], gs[t][n], d, last)

\* p is in one group at most.
Single(p, gs) == \A s, t \in Teams : \A a \in 1..Len(gs[s]), b \in 1..Len(gs[t]) :
    p \in gs[s][a].players /\ p \in gs[t][b].players => s = t /\ a = b

IsInvite(m, p) == m.type = "invite" /\ m.player = p

\* The messages that tell the players so.
Tellings(gs, hs, out) == \A a \in 1..Len(out) :
    /\ out[a].type \in {"invite", "invited"}
    /\ out[a].type = "invite" => \E t \in Teams : \E n \in 1..Len(gs[t]) :
          /\ out[a].player \in gs[t][n].players
          /\ gs[t][n].inst = 0 /\ hs[t][n].inst = out[a].inst /\ hs[t][n].due = out[a].due /\ hs[t][n].inst # 0

ToldOnce(gs, out) == \A p : Single(p, gs) => \A a, b \in 1..Len(out) : IsInvite(out[a], p) /\ IsInvite(out[b], p) => a = b

ToldAll(gs, hs, out) == \A t \in Teams : \A n \in 1..Len(gs[t]) : gs[t][n].inst = 0 /\ hs[t][n].inst # 0 =>
    \A p \in gs[t][n].players : \E a \in 1..Len(out) : IsInvite(out[a], p)

LEMMA CallsTwice ==
    ASSUME NEW gs, NEW hs, NEW ks, NEW d, NEW last \in Nat, Calls(gs, hs, d, last), Calls(hs, ks, d, last)
    PROVE  Calls(gs, ks, d, last)
<1> SUFFICES ASSUME NEW t \in Teams
             PROVE  /\ Len(ks[t]) = Len(gs[t])
                    /\ \A n \in 1..Len(gs[t]) : ks[t][n] = gs[t][n] \/ CalledAs(ks[t][n], gs[t][n], d, last)
  BY DEF Calls
<1>1. Len(ks[t]) = Len(gs[t]) /\ Len(hs[t]) = Len(gs[t])
  BY DEF Calls
<1>2. ASSUME NEW n \in 1..Len(gs[t]) PROVE ks[t][n] = gs[t][n] \/ CalledAs(ks[t][n], gs[t][n], d, last)
  <2>1. hs[t][n] = gs[t][n] \/ CalledAs(hs[t][n], gs[t][n], d, last)
    BY DEF Calls
  <2>2. ks[t][n] = hs[t][n] \/ CalledAs(ks[t][n], hs[t][n], d, last)
    BY <1>1 DEF Calls
  <2>3. CalledAs(hs[t][n], gs[t][n], d, last) => ~CalledAs(ks[t][n], hs[t][n], d, last)
    BY DEF CalledAs
  <2> QED
    BY <2>1, <2>2, <2>3
<1> QED
  BY <1>1, <1>2

LEMMA CallsKeep ==
    ASSUME NEW gs, NEW hs, NEW d, NEW last, Calls(gs, hs, d, last), NEW t \in Teams, NEW n \in 1..Len(gs[t])
    PROVE  /\ n \in 1..Len(hs[t]) /\ Len(hs[t]) = Len(gs[t])
           /\ hs[t][n].players = gs[t][n].players /\ hs[t][n].id = gs[t][n].id
           /\ gs[t][n].inst # 0 => hs[t][n] = gs[t][n]
           /\ hs[t][n].inst = 0 => gs[t][n].inst = 0
<1>1. hs[t][n] = gs[t][n] \/ CalledAs(hs[t][n], gs[t][n], d, last)
  BY DEF Calls
<1> QED
  BY <1>1 DEF Calls, CalledAs

LEMMA CallsSingle ==
    ASSUME NEW gs, NEW hs, NEW d, NEW last, Calls(gs, hs, d, last), NEW p, Single(p, gs)
    PROVE  Single(p, hs)
<1> SUFFICES ASSUME NEW s \in Teams, NEW t \in Teams, NEW a \in 1..Len(hs[s]), NEW b \in 1..Len(hs[t]),
                    p \in hs[s][a].players, p \in hs[t][b].players
             PROVE  s = t /\ a = b
  BY DEF Single
<1>1. Len(hs[s]) = Len(gs[s]) /\ Len(hs[t]) = Len(gs[t])
  BY DEF Calls
<1>2. p \in gs[s][a].players /\ p \in gs[t][b].players
  BY <1>1, CallsKeep
<1> QED
  BY <1>1, <1>2 DEF Single

LEMMA TellingsTwice ==
    ASSUME NEW gs, NEW hs, NEW ks, NEW d, NEW last \in Nat, Calls(gs, hs, d, last), Calls(hs, ks, d, last),
           NEW u, NEW v, NEW w, Joined(w, u, v), Tellings(gs, hs, u), Tellings(hs, ks, v)
    PROVE  Tellings(gs, ks, w)
<1> SUFFICES ASSUME NEW c \in 1..Len(w)
             PROVE  /\ w[c].type \in {"invite", "invited"}
                    /\ w[c].type = "invite" => \E t \in Teams : \E n \in 1..Len(gs[t]) :
                          /\ w[c].player \in gs[t][n].players
                          /\ gs[t][n].inst = 0 /\ ks[t][n].inst = w[c].inst /\ ks[t][n].due = w[c].due /\ ks[t][n].inst # 0
  BY DEF Tellings
<1>1. CASE c \in 1..Len(u)
  <2>1. w[c] = u[c] /\ u[c].type \in {"invite", "invited"}
    BY <1>1 DEF Joined, Tellings
  <2>2. ASSUME u[c].type = "invite"
        PROVE  \E t \in Teams : \E n \in 1..Len(gs[t]) :
                  /\ u[c].player \in gs[t][n].players
                  /\ gs[t][n].inst = 0 /\ ks[t][n].inst = u[c].inst /\ ks[t][n].due = u[c].due /\ ks[t][n].inst # 0
    <3>1. PICK t \in Teams : \E n \in 1..Len(gs[t]) :
                  /\ u[c].player \in gs[t][n].players
                  /\ gs[t][n].inst = 0 /\ hs[t][n].inst = u[c].inst /\ hs[t][n].due = u[c].due /\ hs[t][n].inst # 0
      BY <1>1, <2>2 DEF Tellings
    <3>2. PICK n \in 1..Len(gs[t]) :
                  /\ u[c].player \in gs[t][n].players
                  /\ gs[t][n].inst = 0 /\ hs[t][n].inst = u[c].inst /\ hs[t][n].due = u[c].due /\ hs[t][n].inst # 0
      BY <3>1
    <3>3. n \in 1..Len(hs[t])
      BY CallsKeep
    <3>4. ks[t][n] = hs[t][n]
      BY <3>2, <3>3, CallsKeep
    <3> QED
      BY <3>2, <3>4
  <2> QED
    BY <2>1, <2>2
<1>2. CASE c \notin 1..Len(u)
  <2>1. PICK b \in 1..Len(v) : w[c] = v[b]
    BY <1>2 DEF Joined
  <2>2. v[b].type \in {"invite", "invited"}
    BY DEF Tellings
  <2>3. ASSUME v[b].type = "invite"
        PROVE  \E t \in Teams : \E n \in 1..Len(gs[t]) :
                  /\ v[b].player \in gs[t][n].players
                  /\ gs[t][n].inst = 0 /\ ks[t][n].inst = v[b].inst /\ ks[t][n].due = v[b].due /\ ks[t][n].inst # 0
    <3>1. PICK t \in Teams : \E n \in 1..Len(hs[t]) :
                  /\ v[b].player \in hs[t][n].players
                  /\ hs[t][n].inst = 0 /\ ks[t][n].inst = v[b].inst /\ ks[t][n].due = v[b].due /\ ks[t][n].inst # 0
      BY <2>3 DEF Tellings
    <3>2. PICK n \in 1..Len(hs[t]) :
                  /\ v[b].player \in hs[t][n].players
                  /\ hs[t][n].inst = 0 /\ ks[t][n].inst = v[b].inst /\ ks[t][n].due = v[b].due /\ ks[t][n].inst # 0
      BY <3>1
    <3>3. n \in 1..Len(gs[t])
      BY DEF Calls
    <3>4. gs[t][n].inst = 0 /\ hs[t][n].players = gs[t][n].players
      BY <3>2, <3>3, CallsKeep
    <3> QED
      BY <3>2, <3>3, <3>4
  <2> QED
    BY <2>1, <2>2, <2>3
<1> QED
  BY <1>1, <1>2

LEMMA ToldOnceTwice ==
    ASSUME NEW gs, NEW hs, NEW ks, NEW d, NEW last \in Nat, Calls(gs, hs, d, last), Calls(hs, ks, d, last),
           NEW u, NEW v, NEW w, Joined(w, u, v), Tellings(gs, hs, u), Tellings(hs, ks, v), ToldOnce(gs, u), ToldOnce(hs, v)
    PROVE  ToldOnce(gs, w)
<1> SUFFICES ASSUME NEW p, Single(p, gs), NEW a \in 1..Len(w), NEW b \in 1..Len(w), IsInvite(w[a], p), IsInvite(w[b], p)
             PROVE  a = b
  BY DEF ToldOnce
<1>1. Single(p, hs)
  BY CallsSingle
<1>2. ASSUME NEW i \in 1..Len(u), NEW j \in 1..Len(v), IsInvite(u[i], p), IsInvite(v[j], p) PROVE FALSE
  <2>1. PICK t \in Teams : \E n \in 1..Len(gs[t]) : p \in gs[t][n].players /\ hs[t][n].inst # 0
    BY <1>2 DEF Tellings, IsInvite
  <2>2. PICK n \in 1..Len(gs[t]) : p \in gs[t][n].players /\ hs[t][n].inst # 0
    BY <2>1
  <2>3. PICK s \in Teams : \E m \in 1..Len(hs[s]) : p \in hs[s][m].players /\ hs[s][m].inst = 0
    BY <1>2 DEF Tellings, IsInvite
  <2>4. PICK m \in 1..Len(hs[s]) : p \in hs[s][m].players /\ hs[s][m].inst = 0
    BY <2>3
  <2>7. n \in 1..Len(hs[t])
    BY CallsKeep
  <2>8. hs[t][n].players = gs[t][n].players
    BY CallsKeep
  <2>5. n \in 1..Len(hs[t]) /\ p \in hs[t][n].players
    BY <2>2, <2>7, <2>8
  <2>6. s = t /\ m = n
    BY <1>1, <2>4, <2>5 DEF Single
  <2> QED
    BY <2>2, <2>4, <2>6
<1>3. /\ a \in Int /\ b \in Int /\ Len(u) \in Nat
      /\ \A k \in 1..Len(u) : w[k] = u[k]
      /\ \A k \in 1..Len(w) : k \in 1..Len(u) \/ (k - Len(u) \in 1..Len(v) /\ w[k] = v[k - Len(u)])
  BY DEF Joined
<1>4. CASE a \in 1..Len(u) /\ b \in 1..Len(u)
  BY <1>3, <1>4 DEF ToldOnce
<1>5. CASE a \notin 1..Len(u) /\ b \notin 1..Len(u)
  <2>1. a - Len(u) \in 1..Len(v) /\ IsInvite(v[a - Len(u)], p)
    BY <1>3, <1>5
  <2>2. b - Len(u) \in 1..Len(v) /\ IsInvite(v[b - Len(u)], p)
    BY <1>3, <1>5
  <2>3. a - Len(u) = b - Len(u)
    BY <1>1, <2>1, <2>2 DEF ToldOnce
  <2> QED
    BY <1>3, <2>3
<1>6. CASE a \in 1..Len(u) /\ b \notin 1..Len(u)
  <2>1. IsInvite(u[a], p) /\ b - Len(u) \in 1..Len(v) /\ IsInvite(v[b - Len(u)], p)
    BY <1>3, <1>6
  <2> QED
    BY <1>2, <1>6, <2>1
<1>7. CASE a \notin 1..Len(u) /\ b \in 1..Len(u)
  <2>1. IsInvite(u[b], p) /\ a - Len(u) \in 1..Len(v) /\ IsInvite(v[a - Len(u)], p)
    BY <1>3, <1>7
  <2> QED
    BY <1>2, <1>7, <2>1
<1> QED
  BY <1>4, <1>5, <1>6, <1>7

LEMMA ToldAllTwice ==
    ASSUME NEW gs, NEW hs, NEW ks, NEW d, NEW last \in Nat, Calls(gs, hs, d, last), Calls(hs, ks, d, last),
           NEW u, NEW v, NEW w, Joined(w, u, v), ToldAll(gs, hs, u), ToldAll(hs, ks, v)
    PROVE  ToldAll(gs, ks, w)
<1> SUFFICES ASSUME NEW t \in Teams, NEW n \in 1..Len(gs[t]), gs[t][n].inst = 0, ks[t][n].inst # 0, NEW p \in gs[t][n].players
             PROVE  \E a \in 1..Len(w) : IsInvite(w[a], p)
  BY DEF ToldAll
<1>1. n \in 1..Len(hs[t]) /\ p \in hs[t][n].players
  BY CallsKeep
<1>2. CASE hs[t][n].inst # 0
  <2>1. PICK a \in 1..Len(u) : IsInvite(u[a], p)
    BY <1>2 DEF ToldAll
  <2>2. a \in 1..Len(w) /\ w[a] = u[a]
    BY DEF Joined
  <2> QED
    BY <2>1, <2>2
<1>3. CASE hs[t][n].inst = 0
  <2>1. PICK a \in 1..Len(v) : IsInvite(v[a], p)
    BY <1>1, <1>3 DEF ToldAll
  <2>2. Len(u) + a \in 1..Len(w) /\ w[Len(u) + a] = v[a]
    BY DEF Joined
  <2> QED
    BY <2>1, <2>2
<1> QED
  BY <1>2, <1>3

\* gs becomes hs, and the messages out say so.
Inviting(gs, hs, out, last) ==
    /\ Sides(hs) /\ Calls(gs, hs, clock + 1, last) /\ out \in Seq(ToWorld)
    /\ Tellings(gs, hs, out) /\ ToldOnce(gs, out) /\ ToldAll(gs, hs, out)

LEMMA InvitingTwice ==
    ASSUME NEW gs, NEW hs, NEW ks, NEW last \in Nat, NEW u, NEW v, NEW w, w = u \o v,
           Inviting(gs, hs, u, last), Inviting(hs, ks, v, last)
    PROVE  Inviting(gs, ks, w, last)
<1> DEFINE d == clock + 1
<1>1. /\ Calls(gs, hs, d, last) /\ u \in Seq(ToWorld)
      /\ Tellings(gs, hs, u) /\ ToldOnce(gs, u) /\ ToldAll(gs, hs, u)
  BY DEF Inviting
<1>2. /\ Sides(ks) /\ Calls(hs, ks, d, last) /\ v \in Seq(ToWorld)
      /\ Tellings(hs, ks, v) /\ ToldOnce(hs, v) /\ ToldAll(hs, ks, v)
  BY DEF Inviting
<1> HIDE DEF d
<1>3. w \in Seq(ToWorld) /\ Joined(w, u, v)
  BY <1>1, <1>2, Joining
<1>4. Calls(gs, ks, d, last)
  BY <1>1, <1>2, CallsTwice
<1>5. Tellings(gs, ks, w)
  BY <1>1, <1>2, <1>3, TellingsTwice
<1>6. ToldOnce(gs, w)
  BY <1>1, <1>2, <1>3, ToldOnceTwice
<1>7. ToldAll(gs, ks, w)
  BY <1>1, <1>2, <1>3, ToldAllTwice
<1> QED
  BY <1>2, <1>3, <1>4, <1>5, <1>6, <1>7 DEF Inviting, d

LEMMA InvitingNobody ==
    ASSUME NEW gs, NEW last, Sides(gs)
    PROVE  Inviting(gs, gs, <<>>, last)
<1>1. <<>> \in Seq(ToWorld) /\ Len(<<>>) = 0 /\ \A a \in 1..0 : FALSE
  OBVIOUS
<1>2. Calls(gs, gs, clock + 1, last) /\ ToldAll(gs, gs, <<>>)
  BY DEF Calls, ToldAll
<1>3. Tellings(gs, gs, <<>>) /\ ToldOnce(gs, <<>>)
  BY <1>1 DEF Tellings, ToldOnce
<1> QED
  BY <1>1, <1>2, <1>3 DEF Inviting

\* The bounds allow an invitation if a group waits.
Timely(gs) == (\E t \in Teams : Open(gs[t]) # {}) => clock + 1 \in 1..Requests

LEMMA TimelyStill ==
    ASSUME NEW gs, NEW hs, NEW d, NEW last, Calls(gs, hs, d, last), Timely(gs)
    PROVE  Timely(hs)
<1>1. ASSUME NEW t \in Teams, NEW n \in Open(hs[t]) PROVE n \in Open(gs[t])
  <2>1. n \in 1..Len(gs[t]) /\ hs[t][n].inst = 0
    BY DEF Open, Calls
  <2>2. gs[t][n].inst = 0
    BY <2>1, CallsKeep
  <2> QED
    BY <2>1, <2>2 DEF Open
<1> QED
  BY <1>1 DEF Timely

Possible(selected) == selected # {} => clock + 1 \in 1..Requests

SomeCalled(hs, gs, selected, inst, last) ==
    /\ Len(hs) = Len(gs)
    /\ \A n \in 1..Len(gs) : /\ n \in selected => CalledAs(hs[n], gs[n], clock + 1, last) /\ hs[n].inst = inst
                             /\ n \notin selected => hs[n] = gs[n]

LEMMA CalledIs ==
    ASSUME NEW t \in Teams, NEW gs \in Seq(SideGroups(t)), NEW selected \in SUBSET Open(gs), NEW last \in Nat,
           NEW inst \in Instances, inst <= last, Possible(selected),
           NEW hs, hs = Called(gs, selected, inst)
    PROVE  hs \in Seq(SideGroups(t)) /\ SomeCalled(hs, gs, selected, inst, last)
<1> DEFINE N == Len(gs)
<1>1. N \in Nat /\ DOMAIN gs = 1..N /\ \A n \in 1..N : gs[n] \in SideGroups(t)
  OBVIOUS
<1>2. /\ hs = [n \in 1..N |-> IF n \in selected THEN [gs[n] EXCEPT !.inst = inst, !.due = clock + 1] ELSE gs[n]]
  BY <1>1 DEF Called
<1> HIDE DEF N
<1>3. ASSUME NEW n \in 1..N, n \in selected
      PROVE  hs[n] \in SideGroups(t) /\ CalledAs(hs[n], gs[n], clock + 1, last) /\ hs[n].inst = inst
  <2> DEFINE d == clock + 1
             g == gs[n]
  <2>1. d \in 1..Requests /\ g \in SideGroups(t) /\ g.inst = 0
    BY <1>1, <1>3 DEF Open, Possible
  <2>2. hs[n] = [[g EXCEPT !.inst = inst] EXCEPT !.due = d]
    BY <1>2, <1>3
  <2> HIDE DEF d, g
  <2>3. g \in Groups /\ g.team = t /\ \A p \in g.players : TeamOf[p] = t
    BY <2>1 DEF SideGroups
  <2>4. d \in 0..Requests /\ inst \in Instances \cup {0} /\ inst \in 1..last
    BY <2>1, Numbers, InstancesAre
  <2>5. hs[n] \in Groups
    BY <2>2, <2>3, <2>4 DEF Groups
  <2>6. hs[n].id = g.id /\ hs[n].team = g.team /\ hs[n].players = g.players /\ hs[n].inst = inst /\ hs[n].due = d
    BY <2>2, <2>3 DEF Groups
  <2>7. hs[n] \in SideGroups(t)
    BY <2>3, <2>5, <2>6 DEF SideGroups
  <2> QED
    BY <2>1, <2>4, <2>6, <2>7 DEF CalledAs, g, d
<1>4. ASSUME NEW n \in 1..N, n \notin selected PROVE hs[n] = gs[n] /\ hs[n] \in SideGroups(t)
  BY <1>1, <1>2, <1>4
<1>5. hs \in [1..N -> SideGroups(t)]
  BY <1>2, <1>3, <1>4
<1>6. hs \in Seq(SideGroups(t)) /\ Len(hs) = N
  BY <1>1, <1>5
<1> QED
  BY <1>3, <1>4, <1>6 DEF N, SomeCalled

Invitation(p, i) == [type |-> "invite", player |-> p, inst |-> i, due |-> clock + 1]

LEMMA InvitationsAre ==
    ASSUME NEW t \in Teams, NEW e \in Entries, NEW guests \in Seq(Players), Len(guests) # 0 => clock + 1 \in 1..Requests,
           NEW v, v = Invitations(e, t, guests)
    PROVE  /\ v \in Seq(ToWorld)
           /\ \A k \in 1..Len(v) : v[k].type = "invited"
                                   \/ \E j \in 1..Len(guests) : k = 2 * j - 1 /\ v[k] = Invitation(guests[j], e.inst)
           /\ \A j \in 1..Len(guests) : 2 * j - 1 \in 1..Len(v) /\ v[2 * j - 1] = Invitation(guests[j], e.inst)
<1> DEFINE N == Len(guests)
           c(n) == More(e.invited[t], n \div 2)
<1>1. N \in Nat /\ \A j \in 1..N : guests[j] \in Players
  OBVIOUS
<1>2. v = [n \in 1..(2 * N) |-> IF n % 2 = 1 THEN Invitation(guests[(n + 1) \div 2], e.inst) ELSE Invited(e.inst, t, c(n))]
  BY DEF Invitations, Invitation
<1> HIDE DEF N
<1>3. e.inst \in Instances /\ e.invited[t] \in 0..(CountMod - 1)
  BY DEF Entries, Counts
<1>4. ASSUME NEW n \in 1..(2 * N), n % 2 = 1
      PROVE  \E j \in 1..N : n = 2 * j - 1 /\ v[n] = Invitation(guests[j], e.inst)
  <2>1. (n + 1) \div 2 \in 1..N /\ n = 2 * ((n + 1) \div 2) - 1
    BY <1>1, <1>4
  <2> QED
    BY <1>2, <1>4, <2>1
<1>5. ASSUME NEW j \in 1..N PROVE 2 * j - 1 \in 1..(2 * N) /\ v[2 * j - 1] = Invitation(guests[j], e.inst)
  <2>1. 2 * j - 1 \in 1..(2 * N) /\ (2 * j - 1) % 2 = 1 /\ ((2 * j - 1) + 1) \div 2 = j
    BY <1>1
  <2> QED
    BY <1>2, <2>1
<1>6. ASSUME NEW n \in 1..(2 * N), n % 2 # 1 PROVE v[n] = Invited(e.inst, t, c(n)) /\ c(n) \in 0..(CountMod - 1)
  <2>1. n \div 2 \in Nat
    BY <1>1
  <2>2. c(n) \in 0..(CountMod - 1)
    <3> DEFINE h == n \div 2
    <3>1. h \in Nat
      BY <2>1
    <3> HIDE DEF h
    <3>2. More(e.invited[t], h) \in 0..(CountMod - 1)
      BY <1>3, <3>1, Numbers DEF More
    <3> QED
      BY <3>2 DEF h
  <2> QED
    BY <1>2, <1>6, <2>2
<1> HIDE DEF c
<1>7. ASSUME NEW n \in 1..(2 * N) PROVE v[n] \in ToWorld
  <2>1. CASE n % 2 = 1
    <3>1. PICK j \in 1..N : v[n] = Invitation(guests[j], e.inst)
      BY <1>4, <2>1
    <3>2. clock + 1 \in 1..Requests /\ guests[j] \in Players
      BY <1>1 DEF N
    <3>3. Invitation(guests[j], e.inst) \in Invites
      BY <1>3, <3>2 DEF Invitation, Invites
    <3> QED
      BY <3>1, <3>3 DEF ToWorld
  <2>2. CASE n % 2 # 1
    <3> DEFINE cn == c(n)
    <3>2. v[n] = Invited(e.inst, t, cn) /\ cn \in 0..(CountMod - 1)
      BY <1>6, <2>2
    <3> HIDE DEF cn
    <3>1. v[n] \in NewCounts
      BY <1>3, <3>2 DEF Invited, NewCounts
    <3> QED
      BY <3>1 DEF ToWorld
  <2> QED
    BY <2>1, <2>2
<1>8. v \in Seq(ToWorld) /\ Len(v) = 2 * N
  <2>2. DOMAIN v = 1..(2 * N) /\ v = [n \in 1..(2 * N) |-> v[n]]
    BY <1>2
  <2>1. v \in [1..(2 * N) -> ToWorld] /\ 2 * N \in Nat
    BY <1>1, <1>7, <2>2
  <2> QED
    BY <2>1
<1>9. \A k \in 1..Len(v) : v[k].type = "invited" \/ \E j \in 1..N : k = 2 * j - 1 /\ v[k] = Invitation(guests[j], e.inst)
  <2> SUFFICES ASSUME NEW k \in 1..Len(v), k % 2 # 1 PROVE v[k].type = "invited"
    BY <1>4, <1>8
  <2> QED
    BY <1>6, <1>8 DEF Invited
<1> QED
  BY <1>5, <1>8, <1>9 DEF N

LEMMA OneSideInvited ==
    ASSUME NEW gs, Sides(gs), Timely(gs), NEW t \in Teams, NEW selected \in SUBSET Open(gs[t]),
           NEW e \in Entries, NEW last \in Nat, e.inst <= last,
           NEW hs, hs = [gs EXCEPT ![t] = Called(gs[t], selected, e.inst)],
           NEW out, out = Invitations(e, t, Guests(gs[t], selected))
    PROVE  Inviting(gs, hs, out, last)
<1> DEFINE old == gs[t]
           new == Called(old, selected, e.inst)
           guests == Guests(old, selected)
           d == clock + 1
           inst == e.inst
<1>1. /\ gs \in [Teams -> Seq(Groups)] /\ \A u \in Teams : gs[u] \in Seq(SideGroups(u))
      /\ old \in Seq(SideGroups(t)) /\ selected \in SUBSET Open(old)
  BY DEF Sides
<1>2. hs = [gs EXCEPT ![t] = new] /\ out = Invitations(e, t, guests)
  OBVIOUS
<1>3. Possible(selected)
  BY DEF Timely, Possible
<1>4. inst \in Instances /\ inst <= last /\ SideGroups(t) \subseteq Groups
  BY DEF Entries, SideGroups
<1>5. guests = Guests(old, selected) /\ new = Called(old, selected, inst)
  OBVIOUS
<1>6. hs[t] = new /\ \A u \in Teams : u # t => hs[u] = gs[u]
  BY <1>1, <1>2
<1> HIDE DEF old, new, guests
<1> HIDE DEF inst
<1>17. new \in Seq(SideGroups(t)) /\ SomeCalled(new, old, selected, inst, last)
  BY <1>1, <1>3, <1>4, <1>5, CalledIs
<1>7. /\ new \in Seq(SideGroups(t)) /\ Len(new) = Len(old)
      /\ \A n \in 1..Len(old) : IF n \in selected THEN CalledAs(new[n], old[n], d, last) /\ new[n].inst = inst
                                ELSE new[n] = old[n]
  BY <1>17 DEF SomeCalled
<1>8. Guested(guests, old, selected, Len(old))
  BY <1>1, <1>5, GuestsAre
<1>9. guests \in Seq(Players) /\ (Len(guests) # 0 => d \in 1..Requests)
  <2>1. guests \in Seq(Players) /\ \A k \in 1..Len(guests) : selected # {}
    BY <1>8 DEF Guested
  <2>2. Len(guests) # 0 => 1 \in 1..Len(guests)
    BY <2>1
  <2> QED
    BY <1>3, <2>1, <2>2 DEF Possible
<1>10. /\ out \in Seq(ToWorld)
       /\ \A k \in 1..Len(out) : out[k].type = "invited"
                                 \/ \E j \in 1..Len(guests) : k = 2 * j - 1 /\ out[k] = Invitation(guests[j], e.inst)
       /\ \A j \in 1..Len(guests) : 2 * j - 1 \in 1..Len(out) /\ out[2 * j - 1] = Invitation(guests[j], e.inst)
  BY <1>2, <1>9, InvitationsAre
<1>11. Sides(hs)
  <2>1. new \in Seq(Groups)
    BY <1>4, <1>7
  <2>2. hs \in [Teams -> Seq(Groups)]
    BY <1>1, <1>2, <2>1
  <2>3. \A u \in Teams : hs[u] \in Seq(SideGroups(u))
    BY <1>1, <1>6, <1>7
  <2> QED
    BY <2>2, <2>3 DEF Sides
<1>12. Calls(gs, hs, d, last)
  <2> SUFFICES ASSUME NEW u \in Teams
               PROVE  /\ Len(hs[u]) = Len(gs[u])
                      /\ \A n \in 1..Len(gs[u]) : hs[u][n] = gs[u][n] \/ CalledAs(hs[u][n], gs[u][n], d, last)
    BY DEF Calls
  <2>1. CASE u = t
    BY <1>6, <1>7, <2>1 DEF old
  <2>2. CASE u # t
    BY <1>6, <2>2
  <2> QED
    BY <2>1, <2>2
<1>13. ASSUME NEW k \in 1..Len(out), NEW p, IsInvite(out[k], p)
       PROVE  \E j \in 1..Len(guests) : k = 2 * j - 1 /\ guests[j] = p
  <2>1. PICK j \in 1..Len(guests) : k = 2 * j - 1 /\ out[k] = Invitation(guests[j], e.inst)
    BY <1>10, <1>13 DEF IsInvite
  <2> QED
    BY <1>13, <2>1 DEF IsInvite, Invitation
<1>14. Tellings(gs, hs, out)
  <2> SUFFICES ASSUME NEW a \in 1..Len(out)
               PROVE  /\ out[a].type \in {"invite", "invited"}
                      /\ out[a].type = "invite" => \E u \in Teams : \E n \in 1..Len(gs[u]) :
                            /\ out[a].player \in gs[u][n].players
                            /\ gs[u][n].inst = 0 /\ hs[u][n].inst = out[a].inst /\ hs[u][n].due = out[a].due /\ hs[u][n].inst # 0
    BY DEF Tellings
  <2>1. CASE out[a].type = "invited"
    BY <2>1
  <2>2. CASE out[a].type # "invited"
    <3>1. PICK j \in 1..Len(guests) : out[a] = Invitation(guests[j], e.inst)
      BY <1>10, <2>2
    <3>2. out[a].type = "invite" /\ out[a].player = guests[j] /\ out[a].inst = e.inst /\ out[a].due = d
      BY <3>1 DEF Invitation
    <3>3. PICK n \in 1..Len(old) : n \in selected /\ guests[j] \in old[n].players
      BY <1>8 DEF Guested
    <3>4. CalledAs(new[n], old[n], d, last)
      BY <1>7, <3>3
    <3>5. old[n].inst = 0 /\ new[n].due = d /\ new[n].inst = e.inst
      BY <1>7, <3>3, <3>4 DEF CalledAs, inst
    <3>6. e.inst # 0
      BY <1>4, InstancesAre DEF inst
    <3>7. gs[t] = old /\ hs[t] = new
      BY <1>6 DEF old
    <3> QED
      BY <3>2, <3>3, <3>5, <3>6, <3>7
  <2> QED
    BY <2>1, <2>2
<1>15. ToldOnce(gs, out)
  <2> SUFFICES ASSUME NEW p, Single(p, gs), NEW a \in 1..Len(out), NEW b \in 1..Len(out), IsInvite(out[a], p), IsInvite(out[b], p)
               PROVE  a = b
    BY DEF ToldOnce
  <2>1. PICK j \in 1..Len(guests) : a = 2 * j - 1 /\ guests[j] = p
    BY <1>13
  <2>2. PICK k \in 1..Len(guests) : b = 2 * k - 1 /\ guests[k] = p
    BY <1>13
  <2>3. \A n, m \in 1..Len(old) : p \in old[n].players /\ p \in old[m].players => n = m
    BY DEF Single, old
  <2>4. j = k
    BY <1>8, <2>1, <2>2, <2>3 DEF Guested
  <2> QED
    BY <2>1, <2>2, <2>4
<1>16. ToldAll(gs, hs, out)
  <2> SUFFICES ASSUME NEW u \in Teams, NEW n \in 1..Len(gs[u]), gs[u][n].inst = 0, hs[u][n].inst # 0, NEW p \in gs[u][n].players
               PROVE  \E a \in 1..Len(out) : IsInvite(out[a], p)
    BY DEF ToldAll
  <2>1. u = t /\ n \in selected /\ n \in 1..Len(old) /\ p \in old[n].players
    BY <1>6, <1>7 DEF old
  <2>2. PICK j \in 1..Len(guests) : guests[j] = p
    BY <1>8, <2>1 DEF Guested
  <2>3. 2 * j - 1 \in 1..Len(out) /\ out[2 * j - 1] = Invitation(p, e.inst)
    BY <1>10, <2>2
  <2> QED
    BY <2>3 DEF IsInvite, Invitation
<1> QED
  BY <1>10, <1>11, <1>12, <1>14, <1>15, <1>16 DEF Inviting, d

\* Both sides, one after the other.
Selects(pool, gs) == \A t \in Teams : pool[t].selected \in SUBSET Open(gs[t])

\* r comes after st, with more invitations, to e.
InvitesTo(r, st, e, last) ==
    /\ \E v : v \in Seq(ToWorld) /\ Inviting(st.groups, r.groups, v, last) /\ r.out = st.out \o v
    /\ r.entry \in Entries /\ r.entry.inst = e.inst

LEMMA BothSidesInvited ==
    ASSUME NEW st, NEW gs, gs = st.groups, Sides(gs), Timely(gs), NEW e \in Entries, NEW last \in Nat, e.inst <= last,
           NEW pool, Selects(pool, gs),
           NEW r, r = InviteGroups(st, e, pool), st.out \in Seq(ToWorld)
    PROVE  InvitesTo(r, st, e, last)
<1> DEFINE guests == [t \in Teams |-> Guests(gs[t], pool[t].selected)]
           u == Invitations(e, "alliance", guests["alliance"])
           v == Invitations(e, "horde", guests["horde"])
           hs == [gs EXCEPT !["alliance"] = Called(gs["alliance"], pool["alliance"].selected, e.inst)]
           ks == [hs EXCEPT !["horde"] = Called(hs["horde"], pool["horde"].selected, e.inst)]
           w == u \o v
<1>1. /\ Teams = {"alliance", "horde"} /\ DOMAIN gs = Teams
      /\ \A t \in Teams : pool[t].selected \in SUBSET Open(gs[t])
  BY DEF Teams, Sides, Selects
<1>2. guests["alliance"] = Guests(gs["alliance"], pool["alliance"].selected)
      /\ guests["horde"] = Guests(gs["horde"], pool["horde"].selected)
  BY <1>1
<1>3. r = [groups |-> [t \in Teams |-> Called(gs[t], pool[t].selected, e.inst)],
           entry |-> [e EXCEPT !.invited = [t \in Teams |-> More(e.invited[t], Len(guests[t]))]],
           out |-> st.out \o u \o v]
  BY DEF InviteGroups
<1> HIDE DEF guests
<1>4. hs["horde"] = gs["horde"] /\ pool["horde"].selected \in SUBSET Open(hs["horde"])
  BY <1>1
<1>5. Inviting(gs, hs, u, last)
  BY <1>1, <1>2, OneSideInvited
<1>6. Sides(hs) /\ Timely(hs)
  BY <1>5, TimelyStill DEF Inviting
<1>7. ks = [hs EXCEPT !["horde"] = Called(hs["horde"], pool["horde"].selected, e.inst)]
      /\ v = Invitations(e, "horde", Guests(hs["horde"], pool["horde"].selected))
  BY <1>2, <1>4
<1>8. r.groups = ks
  <2>1. /\ DOMAIN ks = Teams /\ ks["alliance"] = Called(gs["alliance"], pool["alliance"].selected, e.inst)
        /\ ks["horde"] = Called(gs["horde"], pool["horde"].selected, e.inst)
    BY <1>1, <1>4
  <2>2. ks = [t \in Teams |-> ks[t]]
    BY <2>1
  <2>3. \A t \in Teams : ks[t] = Called(gs[t], pool[t].selected, e.inst)
    BY <1>1, <2>1
  <2> HIDE DEF ks
  <2> QED
    BY <1>3, <2>2, <2>3
<1> HIDE DEF hs, ks, u, v
<1>9. Inviting(hs, ks, v, last)
  BY <1>1, <1>4, <1>6, <1>7, OneSideInvited
<1>10. w = u \o v
  OBVIOUS
<1> HIDE DEF w
<1>11. Inviting(gs, ks, w, last)
  BY <1>5, <1>9, <1>10, InvitingTwice
<1>12. u \in Seq(ToWorld) /\ v \in Seq(ToWorld) /\ w \in Seq(ToWorld)
  BY <1>5, <1>9, <1>11 DEF Inviting
<1>13. r.out = st.out \o w
  <2> DEFINE o == st.out
  <2>1. o \in Seq(ToWorld) /\ r.out = (o \o u) \o v
    BY <1>3
  <2> HIDE DEF o
  <2>3. o \in Seq(ToWorld) /\ u \in Seq(ToWorld) /\ v \in Seq(ToWorld)
    BY <1>12, <2>1
  <2>2. (o \o u) \o v = o \o (u \o v)
    BY ONLY <2>3, JoinThree
  <2> QED
    BY <1>10, <2>1, <2>2 DEF o
<1>14. r.entry \in Entries /\ r.entry.inst = e.inst
  <2> DEFINE c == [t \in Teams |-> More(e.invited[t], Len(guests[t]))]
  <2>1. \A t \in Teams : Len(guests[t]) \in Nat
    <3> SUFFICES ASSUME NEW t \in Teams PROVE Len(guests[t]) \in Nat
      OBVIOUS
    <3>1. gs[t] \in Seq(SideGroups(t)) /\ guests[t] = Guests(gs[t], pool[t].selected)
      BY DEF Sides, guests
    <3>2. Guested(guests[t], gs[t], pool[t].selected, Len(gs[t]))
      BY <3>1, GuestsAre
    <3>3. guests[t] \in Seq(Players)
      BY <3>2 DEF Guested
    <3> QED
      BY <3>3
  <2>2. \A t \in Teams : e.invited[t] \in 0..(CountMod - 1)
    BY DEF Entries, Counts
  <2>3. c \in Counts
    BY <2>1, <2>2, Numbers DEF Counts, More
  <2>4. r.entry = [e EXCEPT !.invited = c]
    BY <1>3
  <2> HIDE DEF c
  <2> QED
    BY <2>3, <2>4 DEF Entries
<1> QED
  BY <1>8, <1>11, <1>12, <1>13, <1>14 DEF InvitesTo

LEMMA InvitingLater ==
    ASSUME NEW gs, NEW hs, NEW out, NEW last \in Nat, NEW more \in Nat, last <= more, Inviting(gs, hs, out, last)
    PROVE  Inviting(gs, hs, out, more)
<1>1. Calls(gs, hs, clock + 1, last)
  BY DEF Inviting
<1>2. \A h, g : CalledAs(h, g, clock + 1, last) => CalledAs(h, g, clock + 1, more)
  BY DEF CalledAs
<1>3. Calls(gs, hs, clock + 1, more)
  BY <1>1, <1>2 DEF Calls
<1> QED
  BY <1>3 DEF Inviting

\* What Update has while it goes through the battlegrounds.
States(gs, fr, last) ==
    {st \in [groups : [Teams -> Seq(Groups)], free : Seq(Entries), out : Seq(ToWorld)] :
        Inviting(gs, st.groups, st.out, last) /\ SameInstances(fr, st.free)}

LEMMA FillEntryIs ==
    ASSUME NEW gs, Sides(gs), Timely(gs), NEW last \in Nat, NEW fr, UpTo(fr, last),
           NEW st \in States(gs, fr, last), NEW k \in 1..Len(fr)
    PROVE  FillEntry(st, k) \in States(gs, fr, last)
<1> DEFINE e == st.free[k]
           pool == [t \in Teams |-> Fill(st.groups[t], GetFreeSlotsForTeam(e, t))]
           done == InviteGroups(st, e, pool)
           now == st.groups
           next == [groups |-> done.groups, free |-> [st.free EXCEPT ![k] = done.entry], out |-> done.out]
<1>1. /\ now \in [Teams -> Seq(Groups)] /\ st.free \in Seq(Entries) /\ st.out \in Seq(ToWorld)
      /\ Inviting(gs, now, st.out, last) /\ SameInstances(fr, st.free)
  BY DEF States
<1>2. k \in 1..Len(st.free) /\ e \in Entries /\ e.inst = fr[k].inst /\ e.inst <= last
  BY <1>1 DEF SameInstances, UpTo
<1>3. Sides(now) /\ Timely(now)
  BY <1>1, TimelyStill DEF Inviting
<1>4. \A t \in Teams : pool[t].selected \in SUBSET Open(now[t])
  <2> SUFFICES ASSUME NEW t \in Teams PROVE pool[t].selected \in SUBSET Open(now[t])
    OBVIOUS
  <2> DEFINE desired == GetFreeSlotsForTeam(e, t)
  <2>1. e.invited[t] \in 0..(CountMod - 1)
    BY <1>2 DEF Entries, Counts
  <2>2. desired \in Nat
    BY <2>1, Numbers DEF GetFreeSlotsForTeam
  <2>3. now[t] \in Seq(SideGroups(t)) /\ pool[t] = Fill(now[t], desired)
    BY <1>3 DEF Sides
  <2> HIDE DEF desired, pool, now
  <2>4. Fill(now[t], desired) \in Pools(now[t])
    BY <2>2, <2>3, FillIs
  <2> QED
    BY <2>3, <2>4 DEF Pools
<1>5. FillEntry(st, k) = IF e.status \notin {"join", "progress"} THEN st ELSE next
  BY DEF FillEntry
<1>6. now = st.groups /\ done = InviteGroups(st, e, pool)
  OBVIOUS
<1> HIDE DEF pool, done, now, e
<1>14. InvitesTo(done, st, e, last)
  <2>1. Selects(pool, now)
    BY <1>4 DEF Selects
  <2> QED
    BY <1>1, <1>2, <1>3, <1>6, <2>1, BothSidesInvited
<1>7. /\ \E v : v \in Seq(ToWorld) /\ Inviting(now, done.groups, v, last) /\ done.out = st.out \o v
      /\ done.entry \in Entries /\ done.entry.inst = e.inst
  BY <1>6, <1>14 DEF InvitesTo
<1>8. PICK v : v \in Seq(ToWorld) /\ Inviting(now, done.groups, v, last) /\ done.out = st.out \o v
  BY <1>7
<1>9. Inviting(gs, done.groups, done.out, last)
  BY <1>1, <1>8, InvitingTwice
<1>10. /\ next.groups = done.groups /\ next.out = done.out /\ next.free = [st.free EXCEPT ![k] = done.entry]
       /\ next.free \in Seq(Entries) /\ SameInstances(fr, next.free)
  BY <1>1, <1>2, <1>7 DEF SameInstances
<1>11. done.groups \in [Teams -> Seq(Groups)] /\ done.out \in Seq(ToWorld)
  BY <1>9 DEF Inviting, Sides
<1>12. next \in [groups : [Teams -> Seq(Groups)], free : Seq(Entries), out : Seq(ToWorld)]
  BY <1>10, <1>11
<1> HIDE DEF next
<1>13. next \in States(gs, fr, last)
  BY <1>9, <1>10, <1>12 DEF States
<1> QED
  BY <1>5, <1>13

LEMMA FillAllIs ==
    ASSUME Typed, Timely(groups), UpTo(free, lastInstance)
    PROVE  FillAll \in States(groups, free, lastInstance)
<1> DEFINE N == Len(free)
           V == States(groups, free, lastInstance)
           first == [groups |-> groups, free |-> free, out |-> <<>>]
           G == [a \in V \X (1..N) |-> FillEntry(a[1], a[2])]
           body(f) == [k \in 0..N |-> IF k = 0 THEN first ELSE FillEntry(f[k - 1], k)]
<1>1. N \in Nat /\ Sides(groups) /\ lastInstance \in Nat
  BY DEF Typed, Sides
<1>2. first \in V
  <2>1. first.groups = groups /\ first.free = free /\ first.out = <<>>
    OBVIOUS
  <2>2. first \in [groups : [Teams -> Seq(Groups)], free : Seq(Entries), out : Seq(ToWorld)]
    BY DEF Typed
  <2>3. Inviting(groups, groups, <<>>, lastInstance) /\ SameInstances(free, free)
    BY <1>1, InvitingNobody DEF SameInstances
  <2> HIDE DEF first
  <2> QED
    BY <2>1, <2>2, <2>3 DEF States
<1>3. \A k \in 1..N : \A st \in V : FillEntry(st, k) \in V
  BY <1>1, FillEntryIs
<1>4. FillAll = (CHOOSE f : f = body(f))[N]
  BY DEF FillAll
<1> HIDE DEF N, V, first
<1>5. G \in Steps(V, N)
  BY <1>3 DEF Steps
<1>6. PICK f : Follows(f, V, first, N, G)
  <2> HIDE DEF G
  <2> QED
    BY <1>1, <1>2, <1>5, RecursionExists
<1>7. f \in [0..N -> V] /\ f[0] = first /\ \A k \in 1..N : f[k] = G[<<f[k - 1], k>>]
  BY <1>6 DEF Follows
<1>8. \A k \in 1..N : f[k] = FillEntry(f[k - 1], k)
  <2> SUFFICES ASSUME NEW k \in 1..N PROVE f[k] = FillEntry(f[k - 1], k)
    OBVIOUS
  <2>1. f[k - 1] \in V
    BY <1>1, <1>7
  <2> QED
    BY <1>7, <2>1
<1>9. f = body(f)
  <2>1. \A k \in 0..N : f[k] = IF k = 0 THEN first ELSE FillEntry(f[k - 1], k)
    BY <1>1, <1>7, <1>8
  <2> QED
    BY <1>7, <2>1
<1> DEFINE c == CHOOSE h : h = body(h)
<1>10. c = body(c)
  <2> HIDE DEF body
  <2> QED
    BY <1>9, Zenon
<1> HIDE DEF c
<1>11. c[0] = first /\ \A k \in 1..N : c[k] = FillEntry(c[k - 1], k)
  BY <1>1, <1>10
<1>12. \A k \in 1..N : c[k - 1] \in V => c[k] \in V
  BY <1>3, <1>11
<1>13. \A k \in 0..N : c[k] \in V
  BY <1>1, <1>2, <1>11, <1>12, StaysIn
<1> QED
  BY <1>1, <1>4, <1>13 DEF c, V

\* A number is left for another battleground if a group of each side waits.
Spare(gs) == (\A t \in Teams : Open(gs[t]) # {}) => lastInstance + 1 \in Instances

WithCreation(out, e) == Append(out, [type |-> "create", inst |-> e.inst, invited |-> e.invited])

\* What Update leaves: only invitations, or a new battleground besides.
Filled(gs, fr, w, last) == \E out :
    /\ Inviting(groups, gs, out, lastInstance) /\ w = out
    /\ fr \in Seq(Entries) /\ SameInstances(free, fr) /\ last = lastInstance

\* A group of side t has been invited.
Progress(gs, hs, t) == \E n \in 1..Len(gs[t]) : gs[t][n].inst = 0 /\ hs[t][n].inst # 0

Made(gs, fr, w, last) == \E out, e, old :
    /\ \A t \in Teams : Progress(groups, gs, t)
    /\ Inviting(groups, gs, out, last) /\ e \in Entries /\ e.inst = last /\ w = WithCreation(out, e)
    /\ old \in Seq(Entries) /\ SameInstances(free, old) /\ fr = <<e>> \o old /\ last = lastInstance + 1

LEMMA NewMatchIs ==
    ASSUME Typed, Timely(groups), Spare(groups), NEW st \in States(groups, free, lastInstance),
           NEW r, r = NewMatch(st)
    PROVE  \/ r = st
           \/ Made(r.groups, r.free, r.out, lastInstance + 1)
<1> DEFINE pool == [t \in Teams |-> Match(st.groups[t])]
           done == InviteGroups(st, NewEntry, pool)
           now == st.groups
           last == lastInstance + 1
           e == NewEntry
<1>1. /\ now \in [Teams -> Seq(Groups)] /\ st.free \in Seq(Entries) /\ st.out \in Seq(ToWorld)
      /\ Inviting(groups, now, st.out, lastInstance) /\ SameInstances(free, st.free)
      /\ lastInstance \in Nat
  BY DEF States, Typed
<1>2. Sides(now) /\ Timely(now) /\ Calls(groups, now, clock + 1, lastInstance)
  BY <1>1, TimelyStill DEF Inviting
<1>3. ASSUME NEW t \in Teams PROVE pool[t] \in Pools(now[t])
  <2>1. now[t] \in Seq(SideGroups(t)) /\ pool[t] = Match(now[t])
    BY <1>2 DEF Sides
  <2> HIDE DEF pool, now
  <2> QED
    BY <2>1, MatchIs
<1>4. r = IF \E t \in Teams : pool[t].count < MinPerTeam THEN st
          ELSE [groups |-> done.groups, free |-> <<done.entry>> \o st.free,
                out |-> Append(done.out, [type |-> "create", inst |-> done.entry.inst, invited |-> done.entry.invited])]
  BY DEF NewMatch
<1>5. ASSUME ~\E t \in Teams : pool[t].count < MinPerTeam
      PROVE  Made(r.groups, r.free, r.out, lastInstance + 1)
  <2>1. \A t \in Teams : Open(now[t]) # {}
    <3> SUFFICES ASSUME NEW t \in Teams PROVE Open(now[t]) # {}
      OBVIOUS
    <3>1. pool[t] \in Pools(now[t])
      BY <1>3
    <3>2. pool[t].selected \in SUBSET Open(now[t]) /\ pool[t].count \in Nat
          /\ (pool[t].selected = {} => pool[t].count = 0)
      BY <3>1 DEF Pools
    <3>3. ~(pool[t].count < MinPerTeam)
      BY <1>5
    <3> HIDE DEF pool, now
    <3> QED
      BY <3>2, <3>3, Numbers
  <2>2. ASSUME NEW t \in Teams, NEW n \in Open(now[t]) PROVE n \in Open(groups[t])
    <3>1. n \in 1..Len(groups[t]) /\ now[t][n].inst = 0
      BY <1>2 DEF Open, Calls
    <3> HIDE DEF now
    <3>2. groups[t][n].inst = 0
      BY <1>2, <3>1, CallsKeep
    <3> QED
      BY <3>1, <3>2 DEF Open
  <2>3. last \in Instances
    BY <2>1, <2>2 DEF Spare
  <2>15. ASSUME NEW t \in Teams PROVE Progress(groups, done.groups, t)
    <3> DEFINE sel == pool[t].selected
    <3>1. PICK n : n \in sel
      BY <1>3, <1>5, Numbers DEF Pools
    <3>2. n \in Open(now[t])
      BY <1>3, <3>1 DEF Pools
    <3>3. n \in 1..Len(groups[t]) /\ groups[t][n].inst = 0 /\ n \in 1..Len(now[t])
      BY <2>2, <3>2 DEF Open
    <3>4. done.groups[t] = Called(now[t], sel, last)
      BY DEF InviteGroups, NewEntry
    <3>5. now[t][n] \in Groups /\ DOMAIN now[t] = 1..Len(now[t])
      BY <1>1, <3>3
    <3> HIDE DEF done, sel, now
    <3>6. done.groups[t][n] = [now[t][n] EXCEPT !.inst = last, !.due = clock + 1]
      BY <3>1, <3>3, <3>4, <3>5 DEF Called
    <3>7. done.groups[t][n].inst = last /\ last # 0
      BY <2>3, <3>5, <3>6, InstancesAre DEF Groups
    <3> QED
      BY <3>3, <3>7 DEF Progress
  <2>4. e \in Entries /\ e.inst = last /\ last \in Nat /\ lastInstance <= last
    <3> DEFINE c == [t \in Teams |-> 0]
    <3>1. c \in Counts
      BY Numbers DEF Counts
    <3>2. e = [inst |-> last, status |-> "none", invited |-> c]
      BY DEF NewEntry
    <3> HIDE DEF c, e
    <3> QED
      BY <1>1, <2>3, <3>1, <3>2 DEF Entries, Statuses
  <2>5. Selects(pool, now)
    BY <1>3 DEF Selects, Pools
  <2>6. done = InviteGroups(st, e, pool) /\ now = st.groups
    OBVIOUS
  <2>7. r = [groups |-> done.groups, free |-> <<done.entry>> \o st.free, out |-> WithCreation(done.out, done.entry)]
    BY <1>4, <1>5 DEF WithCreation
  <2> HIDE DEF pool, done, now, e, last
  <2>8. InvitesTo(done, st, e, last)
    BY <1>1, <1>2, <2>4, <2>5, <2>6, BothSidesInvited
  <2>9. PICK v : v \in Seq(ToWorld) /\ Inviting(now, done.groups, v, last) /\ done.out = st.out \o v
    BY <2>6, <2>8 DEF InvitesTo
  <2>10. Inviting(groups, now, st.out, last)
    BY <1>1, <2>4, InvitingLater
  <2>11. Inviting(groups, done.groups, done.out, last)
    BY <2>4, <2>9, <2>10, InvitingTwice
  <2>12. done.entry \in Entries /\ done.entry.inst = last
    BY <2>4, <2>8 DEF InvitesTo
  <2>13. r.groups = done.groups /\ r.free = <<done.entry>> \o st.free /\ r.out = WithCreation(done.out, done.entry)
    BY <2>7
  <2>14. last = lastInstance + 1
    BY DEF last
  <2> QED
    BY <1>1, <2>11, <2>12, <2>13, <2>14, <2>15 DEF Made
<1> QED
  BY <1>4, <1>5

LEMMA UpdateIs ==
    ASSUME Typed, Timely(groups), Spare(groups), UpTo(free, lastInstance), Update
    PROVE  /\ \E w : /\ toWorld' = toWorld \o w
                     /\ \/ Filled(groups', free', w, lastInstance')
                        \/ Made(groups', free', w, lastInstance')
           /\ clock' = IF groups' # groups THEN clock + 1 ELSE clock
<1> DEFINE none == [groups |-> groups, free |-> free, out |-> <<>>]
           all == FillAll
           st == IF \A t \in Teams : groups[t] = <<>> THEN none ELSE NewMatch(all)
<1>1. /\ groups' = st.groups /\ free' = st.free /\ toWorld' = toWorld \o st.out
      /\ clock' = IF st.groups # groups THEN clock + 1 ELSE clock
      /\ lastInstance' = IF Len(st.free) > Len(free) THEN lastInstance + 1 ELSE lastInstance
  BY DEF Update
<1>2. Sides(groups) /\ lastInstance \in Nat /\ free \in Seq(Entries) /\ Len(free) \in Nat
  BY DEF Typed, Sides
<1>3. ASSUME NEW s \in States(groups, free, lastInstance), st = s
      PROVE  Filled(groups', free', st.out, lastInstance')
  <2>1. Inviting(groups, s.groups, s.out, lastInstance) /\ s.free \in Seq(Entries) /\ SameInstances(free, s.free)
    BY DEF States
  <2>2. ~(Len(s.free) > Len(free))
    BY <1>2, <2>1 DEF SameInstances
  <2> HIDE DEF st
  <2> QED
    BY <1>1, <1>3, <2>1, <2>2 DEF Filled
<1>4. none \in States(groups, free, lastInstance)
  <2>1. none.groups = groups /\ none.free = free /\ none.out = <<>>
    OBVIOUS
  <2>2. none \in [groups : [Teams -> Seq(Groups)], free : Seq(Entries), out : Seq(ToWorld)]
    BY DEF Typed
  <2>3. Inviting(groups, groups, <<>>, lastInstance) /\ SameInstances(free, free)
    BY <1>2, InvitingNobody DEF SameInstances
  <2> HIDE DEF none
  <2> QED
    BY <2>1, <2>2, <2>3 DEF States
<1>5. all \in States(groups, free, lastInstance)
  BY FillAllIs
<1>6. CASE \A t \in Teams : groups[t] = <<>>
  <2>1. st = none
    BY <1>6
  <2> HIDE DEF st, none
  <2> QED
    BY <1>1, <1>3, <1>4, <2>1
<1>7. CASE ~\A t \in Teams : groups[t] = <<>>
  <2>1. st = NewMatch(all)
    BY <1>7
  <2> HIDE DEF st, all
  <2>2. CASE st = all
    BY <1>1, <1>3, <1>5, <2>2
  <2>3. CASE Made(st.groups, st.free, st.out, lastInstance + 1)
    <3>1. Len(st.free) > Len(free)
      <4>1. PICK e, old : e \in Entries /\ old \in Seq(Entries) /\ SameInstances(free, old) /\ st.free = <<e>> \o old
        BY <2>3 DEF Made
      <4>2. Len(old) = Len(free) /\ Len(st.free) = 1 + Len(old)
        BY <4>1 DEF SameInstances
      <4> QED
        BY <1>2, <4>2
    <3>2. lastInstance' = lastInstance + 1
      BY <1>1, <3>1
    <3> QED
      BY <1>1, <2>3, <3>2
  <2> QED
    BY <1>5, <2>1, <2>2, <2>3, NewMatchIs
<1> QED
  BY <1>1, <1>6, <1>7

-----------------------------------------------------------------------------
\* Groups and their numbers.

LEMMA UseOf ==
    ASSUME NEW u \in Uses
    PROVE  /\ u.alliance \in Nat /\ u.horde \in Nat /\ u.alliance = u["alliance"] /\ u.horde = u["horde"]
           /\ \A t \in Teams : u[t] \in Nat
           /\ \A t \in Teams : t = "alliance" \/ t = "horde"
BY DEF Uses, Teams

LEMMA WaitingIs ==
    ASSUME NEW q \in Seq(ToQueue), NEW gs, Sides(gs), NEW t \in Teams
    PROVE  /\ IsFiniteSet(Waiting(q, gs, t)) /\ Cardinality(Waiting(q, gs, t)) \in Nat
           /\ \A n \in 1..Len(q) : IsJoin(q[n]) => q[n] \in Joins
           /\ \A n \in 1..Len(gs[t]) : gs[t][n] \in SideGroups(t) /\ gs[t][n] \in Groups
<1>1. \A n \in 1..Len(q) : IsJoin(q[n]) => q[n] \in Joins
  <2> SUFFICES ASSUME NEW n \in 1..Len(q), IsJoin(q[n]) PROVE q[n] \in Joins
    OBVIOUS
  <2>1. q[n] \in ToQueue
    OBVIOUS
  <2> QED
    BY <2>1, QueueKinds DEF IsJoin
<1>2. \A n \in 1..Len(gs[t]) : gs[t][n] \in SideGroups(t) /\ gs[t][n] \in Groups
  <2> DEFINE g == gs[t]
             S == SideGroups(t)
  <2>1. g \in Seq(S) /\ S \subseteq Groups
    BY DEF Sides, SideGroups
  <2> HIDE DEF g, S
  <2>2. \A n \in 1..Len(g) : g[n] \in S /\ g[n] \in Groups
    BY <2>1
  <2> QED
    BY <2>2 DEF g, S
<1>3. Waiting(q, gs, t) \subseteq 1..Requests
  BY <1>1, <1>2 DEF Waiting, Joins, Groups
<1>4. IsFiniteSet(1..Requests)
  BY Numbers, FS_Interval
<1>5. IsFiniteSet(Waiting(q, gs, t))
  BY <1>3, <1>4, FS_Subset
<1> QED
  BY <1>1, <1>2, <1>5, FS_CardinalityType

\* Nobody else waits.
Fewest(q, gs, q1, gs1) == \A t \in Teams : Waiting(q1, gs1, t) \subseteq Waiting(q, gs, t)

LEMMA RoomLess ==
    ASSUME NEW q \in Seq(ToQueue), NEW gs, Sides(gs), NEW q1 \in Seq(ToQueue), NEW gs1, Sides(gs1),
           Fewest(q, gs, q1, gs1), NEW clk \in Nat, NEW last \in Nat, NEW u \in Uses, Room(q, gs, clk, last, u)
    PROVE  Room(q1, gs1, clk, last, u)
<1> DEFINE c(t) == Cardinality(Waiting(q, gs, t))
           c1(t) == Cardinality(Waiting(q1, gs1, t))
<1>1. \A t \in Teams : c(t) \in Nat /\ c1(t) \in Nat /\ c1(t) <= c(t)
  <2> SUFFICES ASSUME NEW t \in Teams PROVE c(t) \in Nat /\ c1(t) \in Nat /\ c1(t) <= c(t)
    OBVIOUS
  <2> DEFINE w == Waiting(q, gs, t)
             w1 == Waiting(q1, gs1, t)
  <2>1. w1 \in SUBSET w /\ IsFiniteSet(w) /\ Cardinality(w) \in Nat /\ Cardinality(w1) \in Nat
    BY WaitingIs DEF Fewest
  <2> HIDE DEF w, w1
  <2>2. Cardinality(w1) <= Cardinality(w)
    BY <2>1, FS_Subset
  <2> QED
    BY <2>1, <2>2 DEF w, w1
<1>2. /\ \A t \in Teams : u[t] <= MaxJoins[t]
      /\ \A t \in Teams : last + c(t) <= u[t]
      /\ clk + c("alliance") + c("horde") <= u.alliance + u.horde
  BY DEF Room
<1>3. \A t \in Teams : u[t] \in Nat
  BY UseOf
<1>4. u.alliance \in Nat /\ u.horde \in Nat
  BY UseOf
<1> HIDE DEF c, c1
<1>5. \A t \in Teams : last + c1(t) <= u[t]
  BY <1>1, <1>2, <1>3
<1>6. clk + c1("alliance") + c1("horde") <= u.alliance + u.horde
  <2>1. c("alliance") \in Nat /\ c1("alliance") \in Nat /\ c1("alliance") <= c("alliance")
        /\ c("horde") \in Nat /\ c1("horde") \in Nat /\ c1("horde") <= c("horde")
    BY <1>1 DEF Teams
  <2> QED
    BY <1>2, <1>4, <2>1
<1> QED
  BY <1>2, <1>5, <1>6 DEF Room, c1

LEMMA NumberedPop ==
    ASSUME NEW q \in Seq(ToQueue), q # <<>>, NEW gs, Sides(gs), NEW clk \in Nat, NEW last \in Nat, NEW u \in Uses,
           Numbered(q, gs, clk, last, u)
    PROVE  Numbered(Tail(q), gs, clk, last, u)
<1> DEFINE r == Tail(q)
<1>1. r \in Seq(ToQueue) /\ \A k \in 1..Len(r) : k + 1 \in 1..Len(q) /\ r[k] = q[k + 1]
  BY TailIs
<1>2. \A k \in 1..Len(r) : k \in Int
  OBVIOUS
<1> HIDE DEF r
<1>3. Distinct(r, gs)
  <2>1. ASSUME NEW a \in 1..Len(r), NEW b \in 1..Len(r), IsJoin(r[a]), IsJoin(r[b]), r[a].id = r[b].id PROVE a = b
    <3>1. a + 1 = b + 1
      BY <1>1, <2>1 DEF Numbered, Distinct
    <3> QED
      BY <1>2, <3>1
  <2> QED
    BY <1>1, <2>1 DEF Numbered, Distinct
<1>4. Bounded(r, gs, clk, last, u.alliance + u.horde)
  BY <1>1 DEF Numbered, Bounded
<1>5. Fewest(q, gs, r, gs)
  BY <1>1 DEF Fewest, Waiting
<1>6. Room(r, gs, clk, last, u)
  BY <1>1, <1>5, RoomLess DEF Numbered
<1> QED
  BY <1>3, <1>4, <1>6 DEF Numbered, r

LEMMA NumberedPush ==
    ASSUME NEW q \in Seq(ToQueue), NEW m \in ToQueue, ~IsJoin(m), NEW gs, Sides(gs), NEW clk \in Nat, NEW last \in Nat,
           NEW u \in Uses, Numbered(q, gs, clk, last, u)
    PROVE  Numbered(Append(q, m), gs, clk, last, u)
<1> DEFINE r == Append(q, m)
<1>1. r \in Seq(ToQueue) /\ \A k \in 1..Len(r) : IsJoin(r[k]) => k \in 1..Len(q) /\ r[k] = q[k]
  OBVIOUS
<1> HIDE DEF r
<1>3. Distinct(r, gs)
  BY <1>1 DEF Numbered, Distinct
<1>4. Bounded(r, gs, clk, last, u.alliance + u.horde)
  BY <1>1 DEF Numbered, Bounded
<1>5. Fewest(q, gs, r, gs)
  BY <1>1 DEF Fewest, Waiting
<1>6. Room(r, gs, clk, last, u)
  BY <1>1, <1>5, RoomLess DEF Numbered
<1> QED
  BY <1>3, <1>4, <1>6 DEF Numbered, r

LEMMA NumberedFewer ==
    ASSUME NEW q \in Seq(ToQueue), NEW gs, Sides(gs), NEW hs, Sides(hs), Fewer(gs, hs), NEW clk \in Nat, NEW last \in Nat,
           NEW u \in Uses, Numbered(q, gs, clk, last, u)
    PROVE  Numbered(q, hs, clk, last, u)
<1> DEFINE total == u.alliance + u.horde
<1>1. Distinct(q, gs) /\ Bounded(q, gs, clk, last, total) /\ Room(q, gs, clk, last, u)
  BY DEF Numbered
<1> HIDE DEF total
<1>2. Distinct(q, hs)
  BY <1>1, FewerDistinct
<1>3. Bounded(q, hs, clk, last, total)
  BY <1>1, FewerBounded
<1>4. Fewest(q, gs, q, hs)
  BY FewerWaiting DEF Fewest
<1>5. Room(q, hs, clk, last, u)
  BY <1>1, <1>4, RoomLess
<1> QED
  BY <1>2, <1>3, <1>5 DEF Numbered, total

LEMMA GroupNumbers ==
    ASSUME NEW g \in Groups
    PROVE  g.inst \in Nat /\ g.due \in Nat /\ g.id \in Nat
<1>1. g.inst \in Instances \cup {0} /\ g.due \in 0..Requests /\ g.id \in 1..Requests
  BY DEF Groups
<1>2. \A i \in Instances : i \in Nat
  BY InstancesAre
<1>3. Requests \in Nat
  BY Numbers
<1>4. g.due \in Nat /\ g.id \in Nat
  BY <1>1, <1>3
<1>5. g.inst \in Nat
  BY <1>1, <1>2
<1> QED
  BY <1>4, <1>5

LEMMA CallsKeepAll ==
    ASSUME NEW gs, NEW hs, NEW d, NEW last, Calls(gs, hs, d, last), NEW t \in Teams
    PROVE  /\ Len(hs[t]) = Len(gs[t])
           /\ \A n \in 1..Len(gs[t]) : hs[t][n].id = gs[t][n].id /\ (hs[t][n].inst = 0 => gs[t][n].inst = 0)
<1>1. ASSUME NEW n \in 1..Len(gs[t])
      PROVE  hs[t][n].id = gs[t][n].id /\ (hs[t][n].inst = 0 => gs[t][n].inst = 0)
  BY CallsKeep
<1> QED
  BY <1>1 DEF Calls

LEMMA CallsShrink ==
    ASSUME NEW q \in Seq(ToQueue), NEW gs, Sides(gs), NEW hs, Sides(hs), NEW d, NEW last \in Nat, Calls(gs, hs, d, last),
           Distinct(q, gs), NEW t \in Teams
    PROVE  /\ Waiting(q, hs, t) \subseteq Waiting(q, gs, t)
           /\ Progress(gs, hs, t) => Cardinality(Waiting(q, hs, t)) + 1 <= Cardinality(Waiting(q, gs, t))
<1> DEFINE w == Waiting(q, gs, t)
           w1 == Waiting(q, hs, t)
           N == Len(gs[t])
<1>1. /\ Len(hs[t]) = N
      /\ \A n \in 1..N : hs[t][n].id = gs[t][n].id /\ (hs[t][n].inst = 0 => gs[t][n].inst = 0)
  BY CallsKeepAll
<1>2. w1 \subseteq w
  BY <1>1 DEF Waiting
<1>3. IsFiniteSet(w) /\ IsFiniteSet(w1) /\ Cardinality(w) \in Nat /\ Cardinality(w1) \in Nat
  BY WaitingIs
<1>4. ASSUME Progress(gs, hs, t) PROVE w1 # w
  <2>1. PICK n \in 1..N : gs[t][n].inst = 0 /\ hs[t][n].inst # 0
    BY <1>4 DEF Progress
  <2> DEFINE id == gs[t][n].id
  <2>2. id \in w
    BY <2>1 DEF Waiting
  <2>3. \A a \in 1..N : hs[t][a].id = id => a = n
    BY <1>1 DEF Distinct
  <2>4. \A a \in 1..Len(q) : IsJoin(q[a]) => q[a].id # id
    BY DEF Distinct
  <2>5. id \notin w1
    BY <1>1, <2>1, <2>3, <2>4 DEF Waiting
  <2> QED
    BY <2>2, <2>5
<1> HIDE DEF w, w1
<1>5. Cardinality(w1) <= Cardinality(w) /\ (Cardinality(w) = Cardinality(w1) => w = w1)
  BY <1>2, <1>3, FS_Subset
<1>6. Progress(gs, hs, t) => Cardinality(w1) + 1 <= Cardinality(w)
  BY <1>3, <1>4, <1>5
<1> QED
  BY <1>2, <1>6 DEF w, w1

LEMMA NoProgress ==
    ASSUME NEW gs, Sides(gs), NEW hs, Sides(hs), NEW d, NEW last \in Nat, Calls(gs, hs, d, last), hs # gs
    PROVE  \E t \in Teams : Progress(gs, hs, t)
<1> SUFFICES ASSUME \A t \in Teams : ~Progress(gs, hs, t) PROVE hs = gs
  OBVIOUS
<1>1. ASSUME NEW t \in Teams PROVE hs[t] = gs[t]
  <2>1. hs[t] \in Seq(SideGroups(t)) /\ gs[t] \in Seq(SideGroups(t)) /\ Len(gs[t]) = Len(hs[t])
    BY DEF Sides, Calls
  <2>2. \A n \in 1..Len(hs[t]) : hs[t][n] = gs[t][n]
    <3> SUFFICES ASSUME NEW n \in 1..Len(gs[t]) PROVE hs[t][n] = gs[t][n]
      BY <2>1
    <3>1. hs[t][n] = gs[t][n] \/ CalledAs(hs[t][n], gs[t][n], d, last)
      BY DEF Calls
    <3>2. CalledAs(hs[t][n], gs[t][n], d, last) => gs[t][n].inst = 0 /\ hs[t][n].inst # 0
      BY DEF CalledAs
    <3> QED
      BY <3>1, <3>2 DEF Progress
  <2> DEFINE g == gs[t]
             h == hs[t]
  <2>3. h \in Seq(SideGroups(t)) /\ g \in Seq(SideGroups(t)) /\ Len(g) = Len(h) /\ \A n \in 1..Len(h) : h[n] = g[n]
    BY <2>1, <2>2
  <2> HIDE DEF g, h
  <2>4. h = g
    BY <2>3, SameSeq
  <2> QED
    BY <2>4 DEF g, h
<1> QED
  BY <1>1 DEF Sides

\* What an update does to the numbers.
LEMMA NumberedCalls ==
    ASSUME NEW q \in Seq(ToQueue), NEW gs, Sides(gs), NEW hs, Sides(hs), NEW clk \in Nat, NEW last \in Nat, NEW more \in Nat,
           NEW u \in Uses, Numbered(q, gs, clk, last, u), Calls(gs, hs, clk + 1, more),
           more = last \/ (more = last + 1 /\ \A t \in Teams : Progress(gs, hs, t)),
           NEW clk1, clk1 = IF hs # gs THEN clk + 1 ELSE clk
    PROVE  Numbered(q, hs, clk1, more, u)
<1> DEFINE c(t) == Cardinality(Waiting(q, gs, t))
           c1(t) == Cardinality(Waiting(q, hs, t))
           total == u.alliance + u.horde
<1>1. Distinct(q, gs) /\ Bounded(q, gs, clk, last, total) /\ Room(q, gs, clk, last, u)
  BY DEF Numbered
<1>2. clk1 \in Nat /\ (hs # gs => clk1 = clk + 1) /\ (hs = gs => clk1 = clk) /\ last <= more
  OBVIOUS
<1>3. Distinct(q, hs)
  <2>1. \A t \in Teams : Len(hs[t]) = Len(gs[t]) /\ \A n \in 1..Len(gs[t]) : hs[t][n].id = gs[t][n].id
    BY CallsKeepAll
  <2> QED
    BY <1>1, <2>1 DEF Distinct
<1>4. Bounded(q, hs, clk1, more, total)
  <2> SUFFICES ASSUME NEW t \in Teams, NEW a \in 1..Len(hs[t])
               PROVE  hs[t][a].id <= total /\ hs[t][a].inst <= more /\ hs[t][a].due <= clk1
    BY <1>1 DEF Bounded
  <2>1. a \in 1..Len(gs[t])
    BY DEF Calls
  <2>2. gs[t][a].id <= total /\ gs[t][a].inst <= last /\ gs[t][a].due <= clk /\ gs[t][a] \in Groups
    BY <1>1, <2>1, WaitingIs DEF Bounded
  <2>3. gs[t][a].inst \in Int /\ gs[t][a].due \in Int
    <3> DEFINE g == gs[t][a]
    <3>1. g \in Groups
      BY <2>2
    <3> HIDE DEF g
    <3>2. g.inst \in Int /\ g.due \in Int
      BY <3>1, GroupNumbers
    <3> QED
      BY <3>2 DEF g
  <2>4. CASE hs[t][a] = gs[t][a]
    <3>1. gs[t][a].inst <= more
      BY <1>2, <2>2, <2>3
    <3>2. gs[t][a].due <= clk1
      BY <1>2, <2>2, <2>3
    <3> QED
      BY <2>2, <2>4, <3>1, <3>2
  <2>5. CASE CalledAs(hs[t][a], gs[t][a], clk + 1, more)
    <3>1. hs[t][a].id = gs[t][a].id /\ hs[t][a].inst \in 1..more /\ hs[t][a].due = clk + 1 /\ gs[t][a].inst = 0
      BY <2>5 DEF CalledAs
    <3>2. hs # gs
      BY <3>1
    <3> QED
      BY <1>2, <2>2, <3>1, <3>2
  <2> QED
    BY <2>1, <2>4, <2>5 DEF Calls
<1>5. \A t \in Teams : c(t) \in Nat /\ c1(t) \in Nat /\ c1(t) <= c(t) /\ (Progress(gs, hs, t) => c1(t) + 1 <= c(t))
  <2> SUFFICES ASSUME NEW t \in Teams
               PROVE  c(t) \in Nat /\ c1(t) \in Nat /\ c1(t) <= c(t) /\ (Progress(gs, hs, t) => c1(t) + 1 <= c(t))
    OBVIOUS
  <2> DEFINE w == Waiting(q, gs, t)
             w1 == Waiting(q, hs, t)
  <2>1. w1 \in SUBSET w /\ (Progress(gs, hs, t) => Cardinality(w1) + 1 <= Cardinality(w))
    BY <1>1, CallsShrink
  <2>2. IsFiniteSet(w) /\ Cardinality(w) \in Nat /\ Cardinality(w1) \in Nat
    BY WaitingIs
  <2> HIDE DEF w, w1
  <2>3. Cardinality(w1) <= Cardinality(w)
    BY <2>1, <2>2, FS_Subset
  <2> QED
    BY <2>1, <2>2, <2>3 DEF w, w1
<1>6. hs # gs => \E t \in Teams : Progress(gs, hs, t)
  BY NoProgress
<1>7. /\ \A t \in Teams : u[t] <= MaxJoins[t]
      /\ \A t \in Teams : last + c(t) <= u[t]
      /\ clk + c("alliance") + c("horde") <= u.alliance + u.horde
  BY <1>1 DEF Room
<1>8. u.alliance \in Nat /\ u.horde \in Nat /\ \A t \in Teams : u[t] \in Nat
  BY UseOf
<1> HIDE DEF c, c1
<1>9. ASSUME NEW t \in Teams PROVE more + c1(t) <= u[t]
  <2>1. CASE more = last
    BY <1>5, <1>7, <1>8, <2>1
  <2>2. CASE more = last + 1 /\ Progress(gs, hs, t)
    BY <1>5, <1>7, <1>8, <2>2
  <2> QED
    BY <2>1, <2>2
<1>10. clk1 + c1("alliance") + c1("horde") <= u.alliance + u.horde
  <2>1. c("alliance") \in Nat /\ c1("alliance") \in Nat /\ c1("alliance") <= c("alliance")
        /\ c("horde") \in Nat /\ c1("horde") \in Nat /\ c1("horde") <= c("horde")
    BY <1>5 DEF Teams
  <2>2. hs # gs => c1("alliance") + 1 <= c("alliance") \/ c1("horde") + 1 <= c("horde")
    BY <1>5, <1>6 DEF Teams
  <2> DEFINE a == c("alliance")
             a1 == c1("alliance")
             h == c("horde")
             h1 == c1("horde")
             sum == u.alliance + u.horde
  <2>3. a \in Nat /\ a1 \in Nat /\ h \in Nat /\ h1 \in Nat /\ a1 <= a /\ h1 <= h /\ sum \in Nat /\ clk + a + h <= sum
    BY <1>7, <1>8, <2>1
  <2>4. hs # gs => a1 + 1 <= a \/ h1 + 1 <= h
    BY <2>2
  <2> HIDE DEF a, a1, h, h1, sum
  <2>5. clk1 + a1 + h1 <= sum
    BY <1>2, <2>3, <2>4
  <2> QED
    BY <2>5 DEF a1, h1, sum
<1>11. Room(q, hs, clk1, more, u)
  BY <1>7, <1>9, <1>10 DEF Room, c1
<1> QED
  BY <1>3, <1>4, <1>11 DEF Numbered, total

LEMMA NumberedJoin ==
    ASSUME NEW q \in Seq(ToQueue), NEW gs, Sides(gs), NEW clk \in Nat, NEW last \in Nat, NEW u \in Uses,
           Numbered(q, gs, clk, last, u), NEW t \in Teams, u[t] < MaxJoins[t], NEW u1, u1 = [u EXCEPT ![t] = @ + 1],
           NEW m \in Joins, m.id = u1.alliance + u1.horde, m.team = t
    PROVE  Numbered(Append(q, m), gs, clk, last, u1)
<1> DEFINE r == Append(q, m)
           total == u.alliance + u.horde
           id == m.id
           c(s) == Cardinality(Waiting(q, gs, s))
           c1(s) == Cardinality(Waiting(r, gs, s))
<1>0. /\ u1 \in Uses /\ u1[t] = u[t] + 1 /\ \A s \in Teams : s # t => u1[s] = u[s]
      /\ u1.alliance + u1.horde = total + 1
      /\ u.alliance \in Nat /\ u.horde \in Nat /\ u1.alliance \in Nat /\ u1.horde \in Nat
  <2>1. t = "alliance" \/ t = "horde"
    BY DEF Teams
  <2>2. u.alliance \in Nat /\ u.horde \in Nat
    BY UseOf
  <2>3. CASE t = "alliance"
    BY <2>2, <2>3 DEF Teams, Uses
  <2>4. CASE t = "horde"
    BY <2>2, <2>4 DEF Teams, Uses
  <2> QED
    BY <2>1, <2>3, <2>4
<1>1. Distinct(q, gs) /\ Bounded(q, gs, clk, last, total) /\ Room(q, gs, clk, last, u)
  BY DEF Numbered
<1>2. /\ r \in Seq(ToQueue) /\ Len(r) = Len(q) + 1 /\ Len(q) \in Nat /\ r[Len(q) + 1] = m
      /\ \A k \in 1..Len(r) : (k \in 1..Len(q) /\ r[k] = q[k]) \/ (k = Len(q) + 1 /\ r[k] = m)
  <2>1. m \in ToQueue
    BY DEF ToQueue
  <2> QED
    BY <2>1
<1> HIDE DEF r
<1>3. id = total + 1 /\ total \in Nat
  BY <1>0
<1>4. \A k \in 1..Len(q) : IsJoin(q[k]) => q[k].id \in Nat /\ q[k].id <= total /\ q[k].id # id
  <2> SUFFICES ASSUME NEW k \in 1..Len(q), IsJoin(q[k]) PROVE q[k].id \in Nat /\ q[k].id <= total /\ q[k].id # id
    OBVIOUS
  <2>1. q[k] \in Joins
    BY Numbers, WaitingIs
  <2>2. q[k].id \in 1..Requests /\ q[k].id <= total
    BY <1>1, <2>1 DEF Joins, Bounded
  <2> QED
    BY <1>3, <2>2
<1>5. \A s \in Teams : \A a \in 1..Len(gs[s]) : gs[s][a].id \in Nat /\ gs[s][a].id <= total /\ gs[s][a].id # id
  <2> SUFFICES ASSUME NEW s \in Teams, NEW a \in 1..Len(gs[s])
               PROVE  gs[s][a].id \in Nat /\ gs[s][a].id <= total /\ gs[s][a].id # id
    OBVIOUS
  <2> DEFINE g == gs[s][a]
  <2>1. g \in Groups
    BY WaitingIs
  <2>2. g.id <= total
    BY <1>1 DEF Bounded
  <2> HIDE DEF g
  <2>3. g.id \in Nat
    BY <2>1, GroupNumbers
  <2>4. g.id # id
    BY <1>3, <2>2, <2>3
  <2> QED
    BY <2>2, <2>3, <2>4 DEF g
<1>6. Distinct(r, gs)
  <2>1. ASSUME NEW a \in 1..Len(r), NEW b \in 1..Len(r), IsJoin(r[a]), IsJoin(r[b]), r[a].id = r[b].id PROVE a = b
    <3>1. CASE a \in 1..Len(q) /\ r[a] = q[a] /\ b \in 1..Len(q) /\ r[b] = q[b]
      BY <1>1, <2>1, <3>1 DEF Distinct
    <3>2. CASE a \in 1..Len(q) /\ r[a] = q[a] /\ r[b] = m
      BY <1>4, <2>1, <3>2
    <3>3. CASE r[a] = m /\ b \in 1..Len(q) /\ r[b] = q[b]
      BY <1>4, <2>1, <3>3
    <3>4. CASE a = Len(q) + 1 /\ b = Len(q) + 1
      BY <3>4
    <3> QED
      BY <1>2, <3>1, <3>2, <3>3, <3>4
  <2>2. ASSUME NEW a \in 1..Len(r), NEW s \in Teams, NEW b \in 1..Len(gs[s]), IsJoin(r[a]) PROVE r[a].id # gs[s][b].id
    <3>1. CASE a \in 1..Len(q) /\ r[a] = q[a]
      BY <1>1, <2>2, <3>1 DEF Distinct
    <3>2. CASE r[a] = m
      BY <1>5, <3>2
    <3> QED
      BY <1>2, <3>1, <3>2
  <2> QED
    BY <1>1, <2>1, <2>2 DEF Distinct
<1>7. Bounded(r, gs, clk, last, u1.alliance + u1.horde)
  <2>1. \A k \in 1..Len(r) : IsJoin(r[k]) => r[k].id <= total + 1
    <3> SUFFICES ASSUME NEW k \in 1..Len(r), IsJoin(r[k]) PROVE r[k].id <= total + 1
      OBVIOUS
    <3>1. CASE k \in 1..Len(q) /\ r[k] = q[k]
      BY <1>3, <1>4, <3>1
    <3>2. CASE r[k] = m
      BY <1>3, <3>2
    <3> QED
      BY <1>2, <3>1, <3>2
  <2>2. \A s \in Teams : \A a \in 1..Len(gs[s]) : gs[s][a].id <= total + 1
    BY <1>3, <1>5
  <2>3. u1.alliance + u1.horde = total + 1
    BY <1>0
  <2> QED
    BY <1>1, <2>1, <2>2, <2>3 DEF Bounded
<1>8. ASSUME NEW s \in Teams
      PROVE  c(s) \in Nat /\ c1(s) \in Nat /\ (IF s = t THEN c1(s) <= c(s) + 1 ELSE c1(s) <= c(s))
  <2> DEFINE w == Waiting(q, gs, s)
             w1 == Waiting(r, gs, s)
             v == IF s = t THEN w \cup {id} ELSE w
  <2>1. w1 \subseteq v
    BY <1>2 DEF Waiting
  <2>2. IsFiniteSet(w) /\ Cardinality(w) \in Nat /\ Cardinality(w1) \in Nat
    BY <1>2, WaitingIs
  <2> HIDE DEF w, w1, id
  <2>6. IsFiniteSet(w \cup {id}) /\ Cardinality(w \cup {id}) = IF id \in w THEN Cardinality(w) ELSE Cardinality(w) + 1
    BY <2>2, FS_AddElement
  <2>3. IsFiniteSet(w \cup {id}) /\ Cardinality(w \cup {id}) <= Cardinality(w) + 1
    BY <2>2, <2>6
  <2>4. CASE s = t
    <3>1. w1 \in SUBSET (w \cup {id}) /\ Cardinality(w \cup {id}) \in Nat
      BY <2>1, <2>3, <2>4, FS_CardinalityType
    <3>2. Cardinality(w1) <= Cardinality(w \cup {id})
      BY <2>3, <3>1, FS_Subset
    <3> QED
      BY <2>2, <2>3, <2>4, <3>1, <3>2 DEF w, w1
  <2>5. CASE s # t
    <3>1. w1 \in SUBSET w
      BY <2>1, <2>5
    <3>2. Cardinality(w1) <= Cardinality(w)
      BY <2>2, <3>1, FS_Subset
    <3> QED
      BY <2>2, <2>5, <3>2 DEF w, w1
  <2> QED
    BY <2>4, <2>5
<1>9. /\ \A s \in Teams : u[s] <= MaxJoins[s]
      /\ \A s \in Teams : last + c(s) <= u[s]
      /\ clk + c("alliance") + c("horde") <= total
  BY <1>1 DEF Room
<1>10. \A s \in Teams : u[s] \in Nat /\ MaxJoins[s] \in Nat
  BY UseOf, Numbers
<1> HIDE DEF c, c1, total
<1>11. ASSUME NEW s \in Teams PROVE u1[s] <= MaxJoins[s] /\ last + c1(s) <= u1[s]
  <2> DEFINE n == u[s]
             n1 == u1[s]
             b == c(s)
             b1 == c1(s)
             k == MaxJoins[s]
  <2>3. n \in Nat /\ k \in Nat /\ n <= k /\ last + b <= n /\ b \in Nat /\ b1 \in Nat
    BY <1>8, <1>9, <1>10
  <2>1. CASE s = t
    <3>1. n1 = n + 1 /\ n < k /\ b1 <= b + 1
      BY <1>0, <1>8, <2>1
    <3> HIDE DEF n, n1, b, b1, k
    <3>2. n1 <= k /\ last + b1 <= n1
      BY <2>3, <3>1
    <3> QED
      BY <3>2 DEF n1, k, b1
  <2>2. CASE s # t
    <3>1. n1 = n /\ b1 <= b
      BY <1>0, <1>8, <2>2
    <3> HIDE DEF n, n1, b, b1, k
    <3>2. n1 <= k /\ last + b1 <= n1
      BY <2>3, <3>1
    <3> QED
      BY <3>2 DEF n1, k, b1
  <2> QED
    BY <2>1, <2>2
<1>12. clk + c1("alliance") + c1("horde") <= u1.alliance + u1.horde
  <2>1. "alliance" \in Teams /\ "horde" \in Teams /\ "alliance" # "horde" /\ (t = "alliance" \/ t = "horde")
    BY DEF Teams
  <2> DEFINE a == c("alliance")
             a1 == c1("alliance")
             h == c("horde")
             h1 == c1("horde")
  <2>2. /\ a \in Nat /\ a1 \in Nat /\ (IF "alliance" = t THEN a1 <= a + 1 ELSE a1 <= a)
        /\ h \in Nat /\ h1 \in Nat /\ (IF "horde" = t THEN h1 <= h + 1 ELSE h1 <= h)
    BY <1>8, <2>1
  <2>3. clk + a + h <= total /\ total \in Nat
    BY <1>3, <1>9
  <2> HIDE DEF a, a1, h, h1
  <2>4. a1 + h1 <= a + h + 1
    BY <2>1, <2>2
  <2>5. clk + a1 + h1 <= total + 1
    BY <2>2, <2>3, <2>4
  <2> QED
    BY <1>0, <2>5 DEF a1, h1
<1>13. Room(r, gs, clk, last, u1)
  BY <1>11, <1>12 DEF Room, c1
<1> QED
  BY <1>6, <1>7, <1>13 DEF Numbered, r

LEMMA NumberedAdd ==
    ASSUME NEW q \in Seq(ToQueue), q # <<>>, NEW gs, Sides(gs), NEW clk \in Nat, NEW last \in Nat, NEW u \in Uses,
           Numbered(q, gs, clk, last, u), NEW t \in Teams, Head(q) \in Joins, Head(q).team = t,
           NEW g \in SideGroups(t), g.id = Head(q).id, g.inst = 0, g.due = 0,
           NEW hs, hs = [gs EXCEPT ![t] = Append(@, g)]
    PROVE  Sides(hs) /\ Numbered(Tail(q), hs, clk, last, u)
<1> DEFINE r == Tail(q)
           old == gs[t]
           new == Append(old, g)
           total == u.alliance + u.horde
<1>1. /\ r \in Seq(ToQueue) /\ q[1] \in Joins /\ q[1].team = t /\ g.id = q[1].id /\ 1 \in 1..Len(q)
      /\ \A k \in 1..Len(r) : k \in Int /\ k + 1 \in 1..Len(q) /\ k + 1 # 1 /\ r[k] = q[k + 1]
  BY TailIs
<1>2. IsJoin(q[1])
  BY <1>1 DEF Joins, IsJoin
<1>3. old \in Seq(SideGroups(t)) /\ gs \in [Teams -> Seq(Groups)] /\ hs = [gs EXCEPT ![t] = new]
      /\ \A s \in Teams : gs[s] \in Seq(SideGroups(s))
  BY DEF Sides
<1>4. /\ new \in Seq(SideGroups(t))
      /\ \A k \in 1..Len(new) : (k \in 1..Len(old) /\ new[k] = old[k]) \/ (k = Len(old) + 1 /\ new[k] = g)
  BY <1>3
<1>5. hs[t] = new /\ \A s \in Teams : s # t => hs[s] = gs[s]
  BY <1>3
<1> HIDE DEF r, new, old
<1>6. Sides(hs)
  <2>1. SideGroups(t) \subseteq Groups
    BY DEF SideGroups
  <2>2. new \in Seq(Groups)
    BY <1>4, <2>1
  <2>3. hs \in [Teams -> Seq(Groups)]
    BY <1>3, <2>2
  <2>4. \A s \in Teams : hs[s] \in Seq(SideGroups(s))
    BY <1>3, <1>4, <1>5
  <2> QED
    BY <2>3, <2>4 DEF Sides
<1>7. Distinct(q, gs) /\ Bounded(q, gs, clk, last, total) /\ Room(q, gs, clk, last, u)
  BY DEF Numbered
<1>8. \A s \in Teams : \A k \in 1..Len(hs[s]) :
         (k \in 1..Len(gs[s]) /\ hs[s][k] = gs[s][k]) \/ (s = t /\ k = Len(old) + 1 /\ hs[s][k] = g)
  <2> SUFFICES ASSUME NEW s \in Teams, NEW k \in 1..Len(hs[s])
               PROVE  (k \in 1..Len(gs[s]) /\ hs[s][k] = gs[s][k]) \/ (s = t /\ k = Len(old) + 1 /\ hs[s][k] = g)
    OBVIOUS
  <2>1. CASE s = t
    BY <1>4, <1>5, <2>1 DEF old
  <2>2. CASE s # t
    BY <1>5, <2>2
  <2> QED
    BY <2>1, <2>2
<1>9. \A s \in Teams : \A a \in 1..Len(gs[s]) : gs[s][a].id # g.id
  BY <1>1, <1>2, <1>7 DEF Distinct
<1>10. \A k \in 1..Len(r) : IsJoin(r[k]) => r[k].id # g.id
  BY <1>1, <1>2, <1>7 DEF Distinct
<1>11. Distinct(r, hs)
  <2>1. ASSUME NEW a \in 1..Len(r), NEW b \in 1..Len(r), IsJoin(r[a]), IsJoin(r[b]), r[a].id = r[b].id PROVE a = b
    <3>1. a + 1 = b + 1
      BY <1>1, <1>7, <2>1 DEF Distinct
    <3> QED
      BY <1>1, <3>1
  <2>2. ASSUME NEW s \in Teams, NEW v \in Teams, NEW a \in 1..Len(hs[s]), NEW b \in 1..Len(hs[v]),
               hs[s][a].id = hs[v][b].id
        PROVE  s = v /\ a = b
    <3>1. CASE a \in 1..Len(gs[s]) /\ hs[s][a] = gs[s][a] /\ b \in 1..Len(gs[v]) /\ hs[v][b] = gs[v][b]
      BY <1>7, <2>2, <3>1 DEF Distinct
    <3>2. CASE a \in 1..Len(gs[s]) /\ hs[s][a] = gs[s][a] /\ hs[v][b] = g
      BY <1>9, <2>2, <3>2
    <3>3. CASE hs[s][a] = g /\ b \in 1..Len(gs[v]) /\ hs[v][b] = gs[v][b]
      BY <1>9, <2>2, <3>3
    <3>4. CASE s = t /\ v = t /\ a = Len(old) + 1 /\ b = Len(old) + 1
      BY <3>4
    <3> QED
      BY <1>8, <3>1, <3>2, <3>3, <3>4
  <2>3. ASSUME NEW a \in 1..Len(r), NEW s \in Teams, NEW b \in 1..Len(hs[s]), IsJoin(r[a]) PROVE r[a].id # hs[s][b].id
    <3>1. CASE hs[s][b] = g
      BY <1>10, <2>3, <3>1
    <3>2. CASE b \in 1..Len(gs[s]) /\ hs[s][b] = gs[s][b]
      <4>1. a + 1 \in 1..Len(q) /\ r[a] = q[a + 1] /\ IsJoin(q[a + 1])
        BY <1>1, <2>3
      <4>2. q[a + 1].id # gs[s][b].id
        BY <1>7, <3>2, <4>1 DEF Distinct
      <4> QED
        BY <3>2, <4>1, <4>2
    <3> QED
      BY <1>8, <3>1, <3>2
  <2> QED
    BY <2>1, <2>2, <2>3 DEF Distinct
<1>12. Bounded(r, hs, clk, last, total)
  <2>1. \A k \in 1..Len(r) : IsJoin(r[k]) => r[k].id <= total
    BY <1>1, <1>7 DEF Bounded
  <2>2. g.id <= total /\ g.inst <= last /\ g.due <= clk
    BY <1>1, <1>2, <1>7 DEF Bounded
  <2>3. \A s \in Teams : \A a \in 1..Len(hs[s]) : hs[s][a].id <= total /\ hs[s][a].inst <= last /\ hs[s][a].due <= clk
    <3> SUFFICES ASSUME NEW s \in Teams, NEW a \in 1..Len(hs[s])
                 PROVE  hs[s][a].id <= total /\ hs[s][a].inst <= last /\ hs[s][a].due <= clk
      OBVIOUS
    <3>1. CASE hs[s][a] = g
      BY <2>2, <3>1
    <3>2. CASE a \in 1..Len(gs[s]) /\ hs[s][a] = gs[s][a]
      BY <1>7, <3>2 DEF Bounded
    <3> QED
      BY <1>8, <3>1, <3>2
  <2> QED
    BY <2>1, <2>3 DEF Bounded
<1>13. Fewest(q, gs, r, hs)
  <2> SUFFICES ASSUME NEW s \in Teams, NEW i \in Waiting(r, hs, s) PROVE i \in Waiting(q, gs, s)
    BY DEF Fewest
  <2>1. CASE \E k \in 1..Len(r) : IsJoin(r[k]) /\ r[k].team = s /\ i = r[k].id
    <3>1. PICK k \in 1..Len(r) : IsJoin(r[k]) /\ r[k].team = s /\ i = r[k].id
      BY <2>1
    <3>2. k + 1 \in 1..Len(q) /\ IsJoin(q[k + 1]) /\ q[k + 1].team = s /\ i = q[k + 1].id
      BY <1>1, <3>1
    <3> QED
      BY <3>2 DEF Waiting
  <2>2. CASE \E k \in 1..Len(hs[s]) : hs[s][k].inst = 0 /\ i = hs[s][k].id
    <3>1. PICK k \in 1..Len(hs[s]) : hs[s][k].inst = 0 /\ i = hs[s][k].id
      BY <2>2
    <3>2. CASE s = t /\ hs[s][k] = g
      BY <1>1, <1>2, <3>1, <3>2 DEF Waiting
    <3>3. CASE k \in 1..Len(gs[s]) /\ hs[s][k] = gs[s][k]
      BY <3>1, <3>3 DEF Waiting
    <3> QED
      BY <1>8, <3>2, <3>3
  <2> QED
    BY <2>1, <2>2 DEF Waiting
<1>14. Room(r, hs, clk, last, u)
  BY <1>1, <1>6, <1>7, <1>13, RoomLess
<1> QED
  BY <1>6, <1>11, <1>12, <1>14 DEF Numbered, r, total

LEMMA RoomLeft ==
    ASSUME Typed, Numbered(toQueue, groups, clock, lastInstance, used)
    PROVE  Timely(groups) /\ Spare(groups)
<1> DEFINE c(t) == Cardinality(Waiting(toQueue, groups, t))
<1>1. toQueue \in Seq(ToQueue) /\ Sides(groups) /\ clock \in Nat /\ lastInstance \in Nat /\ used \in Uses
  BY DEF Typed, Sides, Uses
<1>2. \A t \in Teams : c(t) \in Nat /\ (Open(groups[t]) # {} => c(t) >= 1)
  <2> SUFFICES ASSUME NEW t \in Teams PROVE c(t) \in Nat /\ (Open(groups[t]) # {} => c(t) >= 1)
    OBVIOUS
  <2> DEFINE w == Waiting(toQueue, groups, t)
  <2>1. IsFiniteSet(w) /\ Cardinality(w) \in Nat
    BY <1>1, WaitingIs
  <2>2. Open(groups[t]) # {} => w # {}
    BY DEF Open, Waiting
  <2> HIDE DEF w
  <2>3. w # {} => Cardinality(w) # 0
    BY <2>1, FS_EmptySet
  <2> QED
    BY <2>1, <2>2, <2>3 DEF w
<1>3. /\ \A t \in Teams : used[t] <= MaxJoins[t]
      /\ \A t \in Teams : lastInstance + c(t) <= used[t]
      /\ clock + c("alliance") + c("horde") <= used.alliance + used.horde
  BY DEF Numbered, Room
<1>4. used.alliance = used["alliance"] /\ used.horde = used["horde"] /\ \A t \in Teams : used[t] \in Nat
  BY <1>1, UseOf
<1> HIDE DEF c
<1>5. Timely(groups)
  <2> SUFFICES ASSUME NEW t \in Teams, Open(groups[t]) # {} PROVE clock + 1 \in 1..Requests
    BY DEF Timely
  <2> DEFINE a == c("alliance")
             h == c("horde")
             ua == used["alliance"]
             uh == used["horde"]
             ma == MaxJoins["alliance"]
             mh == MaxJoins["horde"]
  <2>1. a \in Nat /\ h \in Nat /\ a + h >= 1 /\ clock + a + h <= ua + uh /\ ua <= ma /\ uh <= mh
        /\ ua \in Nat /\ uh \in Nat /\ ma \in Nat /\ mh \in Nat /\ Requests = ma + mh
    BY <1>2, <1>3, <1>4, Numbers DEF Teams
  <2> HIDE DEF a, h, ua, uh, ma, mh
  <2> QED
    BY <1>1, <2>1
<1>6. Spare(groups)
  <2> SUFFICES ASSUME \A t \in Teams : Open(groups[t]) # {} PROVE lastInstance + 1 \in Instances
    BY DEF Spare
  <2>1. \A t \in Teams : lastInstance + 1 <= MaxJoins[t]
    <3> SUFFICES ASSUME NEW t \in Teams PROVE lastInstance + 1 <= MaxJoins[t]
      OBVIOUS
    <3>1. c(t) \in Nat /\ c(t) >= 1 /\ lastInstance + c(t) <= used[t] /\ used[t] <= MaxJoins[t]
          /\ used[t] \in Nat /\ MaxJoins[t] \in Nat
      BY <1>2, <1>3, <1>4, Numbers
    <3> QED
      BY <1>1, <3>1
  <2> QED
    BY <1>1, <2>1, InstancesAre
<1> QED
  BY <1>5, <1>6

-----------------------------------------------------------------------------
\* A message that is done, and a message that is sent.

LEMMA Popped ==
    ASSUME NEW q \in Seq(ToQueue), q # <<>>, NEW clk, NEW last,
           PastQueue(q, clk), Announced(q, last)
    PROVE  PastQueue(Tail(q), clk) /\ Announced(Tail(q), last)
<1> DEFINE r == Tail(q)
<1>1. \A k \in 1..Len(r) : k + 1 \in 1..Len(q) /\ r[k] = q[k + 1]
  BY TailIs
<1> HIDE DEF r
<1>2. PastQueue(r, clk) /\ Announced(r, last)
  BY <1>1 DEF PastQueue, Announced
<1> QED
  BY <1>2 DEF r

LEMMA Pushed ==
    ASSUME NEW q \in Seq(ToQueue), NEW m, NEW clk, NEW last,
           PastQueue(q, clk), Announced(q, last),
           m.type = "expire" => m.due <= clk, m.type = "add" => m.entry.inst <= last
    PROVE  PastQueue(Append(q, m), clk) /\ Announced(Append(q, m), last)
<1> DEFINE r == Append(q, m)
<1>1. \A k \in 1..Len(r) : (k \in 1..Len(q) /\ r[k] = q[k]) \/ r[k] = m
  OBVIOUS
<1> HIDE DEF r
<1>2. PastQueue(r, clk) /\ Announced(r, last)
  BY <1>1 DEF PastQueue, Announced
<1> QED
  BY <1>2 DEF r

LEMMA WorldPopped ==
    ASSUME NEW w \in Seq(ToWorld), w # <<>>, NEW clk, NEW bs, NEW last, PastWorld(w, clk), Making(w, bs, last)
    PROVE  PastWorld(Tail(w), clk) /\ Making(Tail(w), bs, last)
<1> DEFINE r == Tail(w)
<1>1. \A k \in 1..Len(r) : k \in Int /\ k + 1 \in 1..Len(w) /\ r[k] = w[k + 1]
  BY TailIs
<1> HIDE DEF r
<1>2. PastWorld(r, clk)
  BY <1>1 DEF PastWorld
<1>3. ASSUME NEW n \in 1..Len(r), r[n].type = "create"
      PROVE  /\ r[n].inst <= last /\ bs[r[n].inst].status = "none"
             /\ \A a \in 1..Len(r) : r[a].type = "create" /\ r[a].inst = r[n].inst => a = n
  <2>1. n + 1 \in 1..Len(w) /\ r[n] = w[n + 1]
    BY <1>1
  <2>2. r[n].inst <= last /\ bs[r[n].inst].status = "none"
    BY <1>3, <2>1 DEF Making
  <2>3. ASSUME NEW a \in 1..Len(r), r[a].type = "create", r[a].inst = r[n].inst PROVE a = n
    <3>1. a + 1 \in 1..Len(w) /\ r[a] = w[a + 1]
      BY <1>1
    <3>2. a + 1 = n + 1
      BY <1>3, <2>1, <2>3, <3>1 DEF Making
    <3> QED
      BY <1>1, <3>2
  <2> QED
    BY <2>2, <2>3
<1> QED
  BY <1>2, <1>3 DEF Making, r

\* Messages about the players are added.
LEMMA WorldTold ==
    ASSUME NEW w \in Seq(ToWorld), NEW news \in Seq(ToWorld), NEW w1, w1 = w \o news,
           NEW clk \in Nat, NEW clk1 \in Nat, clk <= clk1, NEW bs, NEW last \in Nat, NEW last1 \in Nat, last <= last1,
           PastWorld(w, clk), PastWorld(news, clk1), Making(w, bs, last), \A k \in 1..Len(news) : news[k].type # "create"
    PROVE  w1 \in Seq(ToWorld) /\ PastWorld(w1, clk1) /\ Making(w1, bs, last1)
<1>1. w1 \in Seq(ToWorld) /\ Joined(w1, w, news)
  BY Joining
<1>2. ASSUME NEW n \in 1..Len(w1), w1[n].type \in {"expired", "invite"} PROVE w1[n].due <= clk1
  <2>1. CASE n \in 1..Len(w)
    <3>1. w1[n] = w[n] /\ w[n].due <= clk
      BY <1>1, <1>2, <2>1 DEF Joined, PastWorld
    <3>2. w[n] \in ToWorld
      BY <2>1
    <3>3. w[n].due \in Nat
      BY <1>2, <3>1, <3>2, WorldKinds, Numbers DEF Invites, Expired
    <3> QED
      BY <3>1, <3>3
  <2>2. CASE n \notin 1..Len(w)
    <3>1. n - Len(w) \in 1..Len(news) /\ w1[n] = news[n - Len(w)]
      BY <1>1, <2>2 DEF Joined
    <3> QED
      BY <1>2, <3>1 DEF PastWorld
  <2> QED
    BY <2>1, <2>2
<1>3. \A n \in 1..Len(w1) : w1[n].type = "create" => n \in 1..Len(w) /\ w1[n] = w[n]
  <2> SUFFICES ASSUME NEW n \in 1..Len(w1), w1[n].type = "create" PROVE n \in 1..Len(w) /\ w1[n] = w[n]
    OBVIOUS
  <2>1. n \in 1..Len(w) \/ (n - Len(w) \in 1..Len(news) /\ w1[n] = news[n - Len(w)])
    BY <1>1 DEF Joined
  <2>2. n \in 1..Len(w)
    BY <2>1
  <2> QED
    BY <1>1, <2>2 DEF Joined
<1>4. ASSUME NEW n \in 1..Len(w1), w1[n].type = "create"
      PROVE  /\ w1[n].inst <= last1 /\ bs[w1[n].inst].status = "none"
             /\ \A a \in 1..Len(w1) : w1[a].type = "create" /\ w1[a].inst = w1[n].inst => a = n
  <2>1. n \in 1..Len(w) /\ w1[n] = w[n]
    BY <1>3, <1>4
  <2>2. w[n].inst <= last /\ bs[w[n].inst].status = "none"
        /\ \A a \in 1..Len(w) : w[a].type = "create" /\ w[a].inst = w[n].inst => a = n
    BY <1>4, <2>1 DEF Making
  <2>3. w[n] \in Creations
    <3>1. w[n] \in ToWorld
      BY <2>1
    <3> QED
      BY <1>4, <2>1, <3>1, WorldKinds
  <2>4. w[n].inst \in Nat
    BY <2>3, InstancesAre DEF Creations
  <2>5. w[n].inst <= last1
    BY <2>2, <2>4
  <2> QED
    BY <1>3, <2>1, <2>2, <2>5
<1> QED
  BY <1>1, <1>2, <1>4 DEF PastWorld, Making

LEMMA WorldHeard ==
    ASSUME NEW w \in Seq(ToWorld), NEW w1, Tells(w, w1), NEW clk \in Nat, NEW bs, NEW last \in Nat,
           PastWorld(w, clk), Making(w, bs, last)
    PROVE  w1 \in Seq(ToWorld) /\ PastWorld(w1, clk) /\ Making(w1, bs, last) /\ Len(w) <= Len(w1)
<1>1. PICK news \in Seq(ToWorld) : w1 = w \o news /\ \A k \in 1..Len(news) : Harmless(news[k])
  BY DEF Tells
<1>2. PastWorld(news, clk)
  BY <1>1 DEF PastWorld, Harmless
<1>3. \A k \in 1..Len(news) : news[k].type # "create"
  BY <1>1 DEF Harmless
<1>4. clk <= clk /\ last <= last
  OBVIOUS
<1>5. w1 \in Seq(ToWorld) /\ PastWorld(w1, clk) /\ Making(w1, bs, last)
  BY <1>1, <1>2, <1>3, <1>4, WorldTold
<1>6. Len(w) <= Len(w1)
  BY <1>1
<1> QED
  BY <1>5, <1>6

-----------------------------------------------------------------------------
\* The queue thread takes a message.

LEMMA Taken ==
    ASSUME Basis, NEW type, Take(type)
    PROVE  /\ toQueue \in Seq(ToQueue) /\ toQueue # <<>> /\ toQueue' = Tail(toQueue) /\ Tail(toQueue) \in Seq(ToQueue)
           /\ Head(toQueue) \in ToQueue /\ Head(toQueue).type = type
           /\ tick = 0 /\ tick' = 0 /\ batch' \in 0..Len(Tail(toQueue))
<1>1. toQueue \in Seq(ToQueue) /\ batch \in 0..Len(toQueue)
  BY DEF Basis, Typed
<1>2. /\ toQueue # <<>> /\ toQueue' = Tail(toQueue) /\ Head(toQueue).type = type /\ tick = 0 /\ tick' = tick
      /\ (batch > 0 /\ batch' = batch - 1) \/ (batch = 0 /\ batch' = Len(toQueue) - 1)
  BY DEF Take
<1>3. /\ Tail(toQueue) \in Seq(ToQueue) /\ Len(toQueue) \in Nat /\ Len(toQueue) > 0 /\ Len(Tail(toQueue)) = Len(toQueue) - 1
      /\ Head(toQueue) \in ToQueue
  BY <1>1, <1>2, TailIs
<1>4. batch' \in 0..Len(Tail(toQueue))
  BY <1>1, <1>2, <1>3
<1> QED
  BY <1>1, <1>2, <1>3, <1>4

\* What a message does to the list of battlegrounds with free places.
Moves(m, fr, fr1) == \A i \in Instances :
    /\ Adding(m, i) /\ Once(fr, i) => Twice(fr1, i)
    /\ Removing(m, i) /\ Twice(fr, i) => Once(fr1, i)
    /\ ~Adding(m, i) /\ ~Removing(m, i) /\ Once(fr, i) => Once(fr1, i)
    /\ ~Adding(m, i) /\ ~Removing(m, i) /\ Twice(fr, i) => Twice(fr1, i)

LEMMA MovesNothing ==
    ASSUME NEW m, m.type \notin {"add", "remove"}, NEW fr, NEW fr1, SameInstances(fr, fr1)
    PROVE  Moves(m, fr, fr1)
<1> SUFFICES ASSUME NEW i \in Instances
             PROVE  /\ Adding(m, i) /\ Once(fr, i) => Twice(fr1, i)
                    /\ Removing(m, i) /\ Twice(fr, i) => Once(fr1, i)
                    /\ ~Adding(m, i) /\ ~Removing(m, i) /\ Once(fr, i) => Once(fr1, i)
                    /\ ~Adding(m, i) /\ ~Removing(m, i) /\ Twice(fr, i) => Twice(fr1, i)
  BY DEF Moves
<1>1. (Once(fr, i) => Once(fr1, i)) /\ (Twice(fr, i) => Twice(fr1, i))
  BY SameInstancesList
<1>2. ~Adding(m, i) /\ ~Removing(m, i)
  BY DEF Adding, Removing
<1> QED
  BY <1>1, <1>2

LEMMA ListsPop ==
    ASSUME NEW q \in Seq(ToQueue), q # <<>>, NEW fr, NEW fr1, NEW l, NEW last \in Nat, Lists(q, fr, l, last),
           Moves(Head(q), fr, fr1)
    PROVE  Lists(Tail(q), fr1, l, last)
<1> SUFFICES ASSUME NEW i \in Instances PROVE IsListed(Tail(q), fr1, i, l[i], last)
  BY DEF Lists
<1>1. i \in Nat
  BY InstancesAre
<1>2. IsListed(q, fr, i, l[i], last)
  BY DEF Lists
<1>3. /\ Adding(Head(q), i) /\ Once(fr, i) => Twice(fr1, i)
      /\ Removing(Head(q), i) /\ Twice(fr, i) => Once(fr1, i)
      /\ ~Adding(Head(q), i) /\ ~Removing(Head(q), i) /\ Once(fr, i) => Once(fr1, i)
      /\ ~Adding(Head(q), i) /\ ~Removing(Head(q), i) /\ Twice(fr, i) => Twice(fr1, i)
  BY DEF Moves
<1> DEFINE k == l[i]
<1> HIDE DEF k
<1>4. IsListed(q, fr, i, k, last)
  BY <1>2 DEF k
<1>5. IsListed(Tail(q), fr1, i, k, last)
  BY <1>1, <1>3, <1>4, ListedPop
<1> QED
  BY <1>5 DEF k

LEMMA QueueStep ==
    ASSUME Basis, toQueue # <<>>, toQueue' = Tail(toQueue), tick = 0, tick' = 0, batch' \in 0..Len(Tail(toQueue)),
           UNCHANGED <<clock, lastInstance, player, bgs, used>>, scheduled' \in BOOLEAN, queued' \in [Players -> Nat],
           Sides(groups'), Enlisted(queued', groups'), Numbered(Tail(toQueue), groups', clock, lastInstance, used),
           free' \in Seq(Entries), UpTo(free', lastInstance), Moves(Head(toQueue), free, free'), Tells(toWorld, toWorld')
    PROVE  Basis'
<1>1. /\ toQueue \in Seq(ToQueue) /\ clock \in Nat /\ lastInstance \in Nat /\ toWorld \in Seq(ToWorld)
      /\ player \in [Players -> Records] /\ bgs \in [Instances -> Grounds] /\ used \in Uses
  BY DEF Basis, Typed
<1>2. Tail(toQueue) \in Seq(ToQueue)
  BY <1>1, TailIs
<1>3. PastQueue(Tail(toQueue), clock) /\ Announced(Tail(toQueue), lastInstance)
  BY <1>1, Popped DEF Basis
<1>4. toWorld' \in Seq(ToWorld) /\ PastWorld(toWorld', clock) /\ Making(toWorld', bgs, lastInstance)
  BY <1>1, WorldHeard DEF Basis
<1>5. Len(toWorld') \in Nat
  BY <1>4
<1>6. Lists(Tail(toQueue), free', Listed, lastInstance)
  BY <1>1, ListsPop DEF Basis
<1>7. Listed' = Listed
  BY DEF Listed
<1>8. Typed'
  BY <1>1, <1>2, <1>4, <1>5 DEF Typed, Sides
<1>9. Crowd'
  BY DEF Crowd
<1>10. PastTimers(player, clock) /\ Born(bgs, lastInstance)
  BY DEF Basis
<1>11. /\ PastQueue(toQueue', clock') /\ Announced(toQueue', lastInstance') /\ PastWorld(toWorld', clock')
       /\ Making(toWorld', bgs', lastInstance') /\ PastTimers(player', clock') /\ Born(bgs', lastInstance')
       /\ UpTo(free', lastInstance') /\ Lists(toQueue', free', Listed', lastInstance')
  BY <1>3, <1>4, <1>6, <1>7, <1>10
<1> QED
  BY <1>8, <1>9, <1>11 DEF Basis

Rest == <<clock, lastInstance, player, bgs, used>>

LEMMA GroupsAre ==
    ASSUME Basis
    PROVE  /\ Sides(groups) /\ Enlisted(queued, groups) /\ queued \in [Players -> Nat]
           /\ Numbered(toQueue, groups, clock, lastInstance, used)
           /\ clock \in Nat /\ lastInstance \in Nat /\ used \in Uses /\ free \in Seq(Entries)
           /\ UpTo(free, lastInstance) /\ scheduled \in BOOLEAN
BY DEF Basis, Typed, Crowd, Sides

\* A message that concerns the list of battlegrounds only.
LEMMA ListStep ==
    ASSUME Basis, NEW type, Take(type), UNCHANGED <<Rest, queued, groups>>, scheduled' \in BOOLEAN,
           free' \in Seq(Entries), UpTo(free', lastInstance), Moves(Head(toQueue), free, free'), Tells(toWorld, toWorld')
    PROVE  Basis'
<1>1. /\ toQueue \in Seq(ToQueue) /\ toQueue # <<>> /\ toQueue' = Tail(toQueue) /\ tick = 0 /\ tick' = 0
      /\ batch' \in 0..Len(Tail(toQueue))
  BY Taken
<1>2. /\ Sides(groups) /\ Enlisted(queued, groups) /\ queued \in [Players -> Nat]
      /\ Numbered(toQueue, groups, clock, lastInstance, used)
      /\ clock \in Nat /\ lastInstance \in Nat /\ used \in Uses
  BY GroupsAre
<1>3. Numbered(Tail(toQueue), groups, clock, lastInstance, used)
  BY <1>1, <1>2, NumberedPop
<1>4. Sides(groups') /\ Enlisted(queued', groups') /\ queued' \in [Players -> Nat] /\ UNCHANGED Rest
      /\ Numbered(Tail(toQueue), groups', clock, lastInstance, used)
  BY <1>2, <1>3
<1> QED
  BY <1>1, <1>4, QueueStep DEF Rest

\* A message that takes a player out of the queue.
LEMMA RemoveStep ==
    ASSUME Basis, NEW type, type \notin {"add", "remove"}, Take(type), UNCHANGED Rest, scheduled' \in BOOLEAN,
           NEW p \in Players, queued[p] # 0, NEW dec \in BOOLEAN,
           NEW answer \in Seq(ToWorld), \A k \in 1..Len(answer) : Harmless(answer[k]),
           RemovePlayer(p, dec, answer)
    PROVE  Basis'
<1>1. /\ toQueue \in Seq(ToQueue) /\ toQueue # <<>> /\ toQueue' = Tail(toQueue) /\ tick = 0 /\ tick' = 0
      /\ batch' \in 0..Len(Tail(toQueue)) /\ Head(toQueue).type = type /\ Tail(toQueue) \in Seq(ToQueue)
  BY Taken
<1>2. /\ Sides(groups) /\ Numbered(toQueue, groups, clock, lastInstance, used)
      /\ clock \in Nat /\ lastInstance \in Nat /\ used \in Uses
  BY GroupsAre
<1>3. Typed /\ Crowd
  BY DEF Basis
<1>4. /\ groups' \in [Teams -> Seq(Groups)] /\ \A t \in Teams : groups'[t] \in Seq(SideGroups(t))
      /\ queued' \in [Players -> Nat]
      /\ Fewer(groups, groups') /\ Enlisted(queued', groups')
      /\ free' \in Seq(Entries) /\ SameInstances(free, free')
      /\ Tells(toWorld, toWorld')
  BY <1>3, RemovedPlayer
<1>5. Sides(groups')
  BY <1>4 DEF Sides
<1>6. Numbered(Tail(toQueue), groups, clock, lastInstance, used)
  BY <1>1, <1>2, NumberedPop
<1>7. Numbered(Tail(toQueue), groups', clock, lastInstance, used)
  BY <1>1, <1>2, <1>4, <1>5, <1>6, NumberedFewer
<1>8. Moves(Head(toQueue), free, free')
  BY <1>1, <1>4, MovesNothing
<1>9. UpTo(free, lastInstance)
  BY DEF Basis
<1>10. UpTo(free', lastInstance)
  BY <1>4, <1>9 DEF UpTo, SameInstances
<1> QED
  BY <1>1, <1>4, <1>5, <1>7, <1>8, <1>10, QueueStep DEF Rest

LEMMA TellsThese ==
    ASSUME NEW w, NEW news \in Seq(ToWorld), \A k \in 1..Len(news) : Harmless(news[k]), NEW w1, w1 = w \o news
    PROVE  Tells(w, w1)
BY DEF Tells

LEMMA TellsNothing ==
    ASSUME NEW w \in Seq(ToWorld)
    PROVE  Tells(w, w)
<1> DEFINE news == <<>>
<1>1. w = w \o news /\ news \in Seq(ToWorld) /\ \A k \in 1..Len(news) : Harmless(news[k])
  OBVIOUS
<1> HIDE DEF news
<1> QED
  BY <1>1, TellsThese

LEMMA TellsOne ==
    ASSUME NEW w \in Seq(ToWorld), NEW m \in ToWorld, Harmless(m)
    PROVE  Tells(w, Append(w, m))
<1> DEFINE news == <<m>>
           w1 == Append(w, m)
<1>1. w1 = w \o news /\ news \in Seq(ToWorld) /\ Len(news) = 1 /\ news[1] = m
  BY AppendedOne
<1> HIDE DEF news, w1
<1>2. \A k \in 1..Len(news) : Harmless(news[k])
  BY <1>1
<1>3. Tells(w, w1)
  BY <1>1, <1>2, TellsThese
<1> QED
  BY <1>3 DEF w1

LEMMA AnswerIs ==
    ASSUME NEW m \in ToWorld, Harmless(m), NEW w, w = <<m>>
    PROVE  w \in Seq(ToWorld) /\ \A k \in 1..Len(w) : Harmless(w[k])
OBVIOUS

LEMMA SameInstancesSelf ==
    ASSUME NEW fr
    PROVE  SameInstances(fr, fr)
BY DEF SameInstances

LEMMA NewGroup ==
    ASSUME NEW m \in Joins, NEW g, g = [id |-> m.id, team |-> m.team, players |-> m.party, inst |-> 0, due |-> 0]
    PROVE  /\ m.team \in Teams /\ m.id \in Nat /\ m.party \subseteq Players /\ \A p \in m.party : TeamOf[p] = m.team
           /\ g \in SideGroups(m.team) /\ g.id = m.id /\ g.inst = 0 /\ g.due = 0 /\ g.players = m.party
<1>1. /\ m.id \in 1..Requests /\ m.party \in (SUBSET Players) \ {{}} /\ m.team \in Teams
      /\ \A p \in m.party : TeamOf[p] = m.team
  BY DEF Joins
<1>2. Requests \in Nat
  BY Numbers
<1>3. 0 \in 0..Requests /\ 0 \in Instances \cup {0} /\ m.id \in Nat
  BY <1>1, <1>2
<1>4. g.id = m.id /\ g.inst = 0 /\ g.due = 0 /\ g.players = m.party /\ g.team = m.team
  OBVIOUS
<1>5. g \in Groups
  BY <1>1, <1>3 DEF Groups
<1> QED
  BY <1>1, <1>3, <1>4, <1>5 DEF SideGroups

Enlists(qd, gs, g, t, qd1, hs) ==
    /\ \A p \in g.players : TeamOf[p] = t
    /\ hs = [gs EXCEPT ![t] = Append(@, g)]
    /\ qd1 = [p \in Players |-> IF p \in g.players THEN g.id ELSE qd[p]]

LEMMA EnlistedMore ==
    ASSUME NEW gs, Sides(gs), NEW qd, Enlisted(qd, gs), NEW t \in Teams, NEW g \in SideGroups(t),
           NEW hs, NEW qd1, Enlists(qd, gs, g, t, qd1, hs)
    PROVE  Enlisted(qd1, hs)
<1> USE DEF Enlists
<1> SUFFICES ASSUME NEW p \in Players, qd1[p] # 0
             PROVE  \E n \in 1..Len(hs[TeamOf[p]]) : hs[TeamOf[p]][n].id = qd1[p] /\ p \in hs[TeamOf[p]][n].players
  BY DEF Enlisted
<1>1. gs \in [Teams -> Seq(Groups)] /\ gs[t] \in Seq(SideGroups(t))
  BY DEF Sides
<1>2. hs[t] = Append(gs[t], g) /\ \A s \in Teams : s # t => hs[s] = gs[s]
  BY <1>1
<1>3. Len(gs[t]) \in Nat /\ Len(hs[t]) = Len(gs[t]) + 1 /\ hs[t][Len(gs[t]) + 1] = g
      /\ \A n \in 1..Len(gs[t]) : hs[t][n] = gs[t][n]
  BY <1>1, <1>2
<1>4. CASE p \in g.players
  <2>1. qd1[p] = g.id /\ TeamOf[p] = t
    BY <1>4
  <2>2. Len(gs[t]) + 1 \in 1..Len(hs[t])
    BY <1>3
  <2> QED
    BY <1>3, <1>4, <2>1, <2>2
<1>5. CASE p \notin g.players
  <2>1. qd1[p] = qd[p]
    BY <1>5
  <2>2. PICK n \in 1..Len(gs[TeamOf[p]]) : gs[TeamOf[p]][n].id = qd[p] /\ p \in gs[TeamOf[p]][n].players
    BY <2>1 DEF Enlisted
  <2>3. TeamOf[p] \in Teams
    BY QueueAssumption
  <2>4. CASE TeamOf[p] = t
    <3>1. n \in 1..Len(hs[t]) /\ hs[t][n] = gs[t][n]
      BY <1>3, <2>2, <2>4
    <3> QED
      BY <2>1, <2>2, <2>4, <3>1
  <2>5. CASE TeamOf[p] # t
    <3>1. hs[TeamOf[p]] = gs[TeamOf[p]]
      BY <1>2, <2>3, <2>5
    <3> QED
      BY <2>1, <2>2, <3>1
  <2> QED
    BY <2>4, <2>5
<1> QED
  BY <1>4, <1>5

LEMMA AddGroupKeeps ==
    ASSUME Basis, AddGroup
    PROVE  Basis'
<1> DEFINE m == Head(toQueue)
           g == [id |-> m.id, team |-> m.team, players |-> m.party, inst |-> 0, due |-> 0]
           told == [type |-> "joined", party |-> m.party]
           t == m.team
<1>1. Take("join")
  BY DEF AddGroup
<1>2. /\ groups' = [groups EXCEPT ![t] = Append(@, g)]
      /\ queued' = [p \in Players |-> IF p \in m.party THEN m.id ELSE queued[p]]
      /\ toWorld' = Append(toWorld, told)
      /\ scheduled' = TRUE /\ free' = free /\ UNCHANGED Rest
  BY DEF AddGroup, Rest, worldVars, history
<1>3. /\ toQueue \in Seq(ToQueue) /\ toQueue # <<>> /\ toQueue' = Tail(toQueue) /\ tick = 0 /\ tick' = 0
      /\ batch' \in 0..Len(Tail(toQueue)) /\ Head(toQueue).type = "join" /\ Head(toQueue) \in ToQueue
  BY <1>1, Taken
<1>4. m \in Joins
  BY <1>3, QueueKinds
<1>5. /\ t \in Teams /\ m.id \in Nat /\ m.party \subseteq Players /\ \A p \in m.party : TeamOf[p] = t
      /\ g \in SideGroups(t) /\ g.id = m.id /\ g.inst = 0 /\ g.due = 0 /\ g.players = m.party
  BY <1>4, NewGroup
<1>6. told \in ToWorld /\ Harmless(told)
  BY <1>5 DEF ToWorld, Registered, Harmless
<1>7. /\ Sides(groups) /\ Enlisted(queued, groups) /\ queued \in [Players -> Nat]
      /\ Numbered(toQueue, groups, clock, lastInstance, used)
      /\ clock \in Nat /\ lastInstance \in Nat /\ used \in Uses /\ free \in Seq(Entries) /\ UpTo(free, lastInstance)
  BY GroupsAre
<1>8. toWorld \in Seq(ToWorld)
  BY DEF Basis, Typed
<1>9. queued' \in [Players -> Nat]
  BY <1>2, <1>5, <1>7
<1> HIDE DEF g, told
<1>10. Head(toQueue) \in Joins /\ Head(toQueue).team = t /\ g.id = Head(toQueue).id
  BY <1>4, <1>5
<1> HIDE DEF t
<1>11. Sides(groups') /\ Numbered(Tail(toQueue), groups', clock, lastInstance, used)
  BY <1>2, <1>3, <1>5, <1>7, <1>10, NumberedAdd
<1>12. queued' = [p \in Players |-> IF p \in g.players THEN g.id ELSE queued[p]]
  BY <1>2, <1>5
<1>13. \A p \in g.players : TeamOf[p] = t
  BY <1>5
<1> HIDE DEF m
<1>14. Enlists(queued, groups, g, t, queued', groups')
  BY <1>2, <1>12, <1>13 DEF Enlists
<1>15. Enlisted(queued', groups')
  BY <1>5, <1>7, <1>14, EnlistedMore
<1>16. Tells(toWorld, toWorld')
  BY <1>2, <1>6, <1>8, TellsOne
<1>17. Moves(Head(toQueue), free, free')
  BY <1>2, <1>3, MovesNothing, SameInstancesSelf
<1>18. scheduled' \in BOOLEAN /\ free' \in Seq(Entries) /\ UpTo(free', lastInstance)
  BY <1>2, <1>7
<1> QED
  BY <1>2, <1>3, <1>9, <1>11, <1>15, <1>16, <1>17, <1>18, QueueStep DEF Rest

LEMMA CalledAlready ==
    ASSUME Basis, NEW p \in Players
    PROVE  /\ CalledTo(p) \in Nat /\ CalledTo(p) <= lastInstance
           /\ CalledTo(p) # 0 => queued[p] # 0 /\ CalledTo(p) \in Instances
<1>1. Typed /\ Crowd /\ lastInstance \in Nat
  BY DEF Basis, Typed
<1>2. CASE queued[p] = 0
  <2>1. CalledTo(p) = 0
    BY <1>2 DEF CalledTo
  <2> QED
    BY <1>1, <2>1
<1>3. CASE queued[p] # 0
  <2> DEFINE g == GroupOf(p)
             k == PlaceOf(g)
             t == TeamOf[p]
  <2>1. t \in Teams /\ k \in 1..Len(groups[t]) /\ groups[t][k] = g /\ g \in SideGroups(t)
    BY <1>1, <1>3, GroupFound
  <2>2. CalledTo(p) = g.inst
    BY <1>3 DEF CalledTo
  <2> HIDE DEF g, k, t
  <2>3. g.inst \in Instances \cup {0} /\ g.inst \in Nat
    BY <2>1, GroupNumbers DEF SideGroups, Groups
  <2>4. Bounded(toQueue, groups, clock, lastInstance, used.alliance + used.horde)
    BY <1>1 DEF Crowd, Numbered
  <2>5. groups[t][k].inst <= lastInstance
    BY <2>1, <2>4 DEF Bounded
  <2> QED
    BY <1>3, <2>1, <2>2, <2>3, <2>5
<1> QED
  BY <1>2, <1>3

LEMMA QueueKept ==
    ASSUME Basis
    PROVE  free \in Seq(Entries) /\ UpTo(free, lastInstance) /\ Tells(toWorld, toWorld) /\ scheduled \in BOOLEAN
<1>1. toWorld \in Seq(ToWorld)
  BY DEF Basis, Typed
<1> QED
  BY <1>1, GroupsAre, TellsNothing

LEMMA PortKeeps ==
    ASSUME Basis, Port
    PROVE  Basis'
<1> DEFINE m == Head(toQueue)
           p == m.player
           sent == [type |-> "port", player |-> p, inst |-> CalledTo(p)]
           left == [type |-> "left", player |-> p]
<1>1. Take("answer")
  BY DEF Port
<1>2. /\ UNCHANGED Rest
      /\ \/ UNCHANGED <<toWorld, scheduled, queued, groups, free>>
         \/ m.enter /\ CalledTo(p) # 0 /\ RemovePlayer(p, FALSE, <<sent>>) /\ UNCHANGED scheduled
         \/ queued[p] # 0 /\ RemovePlayer(p, TRUE, <<left>>) /\ scheduled' = TRUE
  BY DEF Port, Rest, worldVars, history
<1>3. m \in ToQueue /\ m.type = "answer"
  BY <1>1, Taken
<1>4. m \in Answers
  BY <1>3, QueueKinds
<1>5. p \in Players
  BY <1>4 DEF Answers
<1>6. free \in Seq(Entries) /\ UpTo(free, lastInstance) /\ Tells(toWorld, toWorld) /\ scheduled \in BOOLEAN
  BY QueueKept
<1>7. CASE UNCHANGED <<toWorld, scheduled, queued, groups, free>>
  <2>1. Moves(m, free, free)
    BY <1>3, MovesNothing, SameInstancesSelf
  <2>2. /\ free' \in Seq(Entries) /\ UpTo(free', lastInstance) /\ Moves(Head(toQueue), free, free') /\ Tells(toWorld, toWorld')
        /\ UNCHANGED <<Rest, queued, groups>> /\ scheduled' \in BOOLEAN
    BY <1>2, <1>6, <1>7, <2>1
  <2> QED
    BY <1>1, <2>2, ListStep
<1>8. CASE CalledTo(p) # 0 /\ RemovePlayer(p, FALSE, <<sent>>) /\ UNCHANGED scheduled
  <2>1. queued[p] # 0 /\ CalledTo(p) \in Instances
    BY <1>5, <1>8, CalledAlready
  <2>2. sent \in ToWorld /\ Harmless(sent)
    BY <1>5, <2>1 DEF ToWorld, Ports, Harmless
  <2>3. <<sent>> \in Seq(ToWorld) /\ \A k \in 1..Len(<<sent>>) : Harmless(<<sent>>[k])
    BY <2>2
  <2> DEFINE news == <<sent>>
  <2>4. news \in Seq(ToWorld) /\ (\A k \in 1..Len(news) : Harmless(news[k])) /\ RemovePlayer(p, FALSE, news)
    BY <1>8, <2>3
  <2>5. scheduled' \in BOOLEAN
    BY <1>6, <1>8
  <2> HIDE DEF news, p, m
  <2> QED
    BY <1>1, <1>2, <1>5, <2>1, <2>4, <2>5, RemoveStep
<1>9. CASE queued[p] # 0 /\ RemovePlayer(p, TRUE, <<left>>) /\ scheduled' = TRUE
  <2>1. left \in ToWorld /\ Harmless(left)
    BY <1>5 DEF ToWorld, Lefts, Harmless
  <2>2. <<left>> \in Seq(ToWorld) /\ \A k \in 1..Len(<<left>>) : Harmless(<<left>>[k])
    BY <2>1
  <2> DEFINE news == <<left>>
  <2>3. news \in Seq(ToWorld) /\ (\A k \in 1..Len(news) : Harmless(news[k])) /\ RemovePlayer(p, TRUE, news)
    BY <1>9, <2>2
  <2>4. scheduled' \in BOOLEAN
    BY <1>9
  <2> HIDE DEF news, p, m
  <2> QED
    BY <1>1, <1>2, <1>5, <1>9, <2>3, <2>4, RemoveStep
<1> QED
  BY <1>2, <1>7, <1>8, <1>9

LEMMA LoggedOutKeeps ==
    ASSUME Basis, LoggedOut
    PROVE  Basis'
<1> DEFINE m == Head(toQueue)
           p == m.player
<1>1. Take("gone")
  BY DEF LoggedOut
<1>2. /\ UNCHANGED Rest /\ UNCHANGED scheduled
      /\ IF queued[p] = 0 THEN UNCHANGED <<toWorld, queued, groups, free>> ELSE RemovePlayer(p, TRUE, <<>>)
  BY DEF LoggedOut, Rest, worldVars, history
<1>3. m \in ToQueue /\ m.type = "gone"
  BY <1>1, Taken
<1>4. m \in Gone
  BY <1>3, QueueKinds
<1>5. p \in Players
  BY <1>4 DEF Gone
<1>6. free \in Seq(Entries) /\ UpTo(free, lastInstance) /\ Tells(toWorld, toWorld) /\ scheduled' \in BOOLEAN
  BY <1>2, QueueKept
<1>7. CASE queued[p] = 0
  <2>1. Moves(m, free, free)
    BY <1>3, MovesNothing, SameInstancesSelf
  <2>2. /\ free' \in Seq(Entries) /\ UpTo(free', lastInstance) /\ Moves(Head(toQueue), free, free') /\ Tells(toWorld, toWorld')
        /\ UNCHANGED <<Rest, queued, groups>>
    BY <1>2, <1>6, <1>7, <2>1
  <2> QED
    BY <1>1, <1>6, <2>2, ListStep
<1>8. CASE queued[p] # 0
  <2> DEFINE news == <<>>
  <2>1. news \in Seq(ToWorld) /\ (\A k \in 1..Len(news) : Harmless(news[k]))
    OBVIOUS
  <2>2. RemovePlayer(p, TRUE, news)
    BY <1>2, <1>8
  <2> HIDE DEF news, p, m
  <2> QED
    BY <1>1, <1>2, <1>5, <1>6, <1>8, <2>1, <2>2, RemoveStep
<1> QED
  BY <1>7, <1>8

LEMMA TimedOutKeeps ==
    ASSUME Basis, TimedOut
    PROVE  Basis'
<1> DEFINE m == Head(toQueue)
           p == m.player
           left == [type |-> "left", player |-> p]
<1>1. Take("expire")
  BY DEF TimedOut
<1>2. /\ UNCHANGED Rest
      /\ \/ UNCHANGED <<toWorld, scheduled, queued, groups, free>>
         \/ IsPlayerInvited(m) /\ RemovePlayer(p, TRUE, <<left>>) /\ scheduled' = (scheduled \/ m.running)
  BY DEF TimedOut, Rest, worldVars, history
<1>3. m \in ToQueue /\ m.type = "expire"
  BY <1>1, Taken
<1>4. m \in Expiries
  BY <1>3, QueueKinds
<1>5. p \in Players /\ m.running \in BOOLEAN
  BY <1>4 DEF Expiries
<1>6. free \in Seq(Entries) /\ UpTo(free, lastInstance) /\ Tells(toWorld, toWorld) /\ scheduled \in BOOLEAN
  BY QueueKept
<1>7. CASE UNCHANGED <<toWorld, scheduled, queued, groups, free>>
  <2>1. Moves(m, free, free)
    BY <1>3, MovesNothing, SameInstancesSelf
  <2>2. /\ free' \in Seq(Entries) /\ UpTo(free', lastInstance) /\ Moves(Head(toQueue), free, free') /\ Tells(toWorld, toWorld')
        /\ UNCHANGED <<Rest, queued, groups>> /\ scheduled' \in BOOLEAN
    BY <1>2, <1>6, <1>7, <2>1
  <2> QED
    BY <1>1, <2>2, ListStep
<1>8. CASE IsPlayerInvited(m) /\ RemovePlayer(p, TRUE, <<left>>) /\ scheduled' = (scheduled \/ m.running)
  <2>1. left \in ToWorld /\ Harmless(left)
    BY <1>5 DEF ToWorld, Lefts, Harmless
  <2>2. <<left>> \in Seq(ToWorld) /\ \A k \in 1..Len(<<left>>) : Harmless(<<left>>[k])
    BY <2>1
  <2> DEFINE news == <<left>>
  <2>3. news \in Seq(ToWorld) /\ (\A k \in 1..Len(news) : Harmless(news[k])) /\ RemovePlayer(p, TRUE, news)
    BY <1>8, <2>2
  <2>4. queued[p] # 0
    BY <1>8 DEF IsPlayerInvited
  <2>5. scheduled' \in BOOLEAN
    BY <1>8
  <2> HIDE DEF news, p, m
  <2> QED
    BY <1>1, <1>2, <1>5, <2>3, <2>4, <2>5, RemoveStep
<1> QED
  BY <1>2, <1>7, <1>8

LEMMA SlotFound ==
    ASSUME Basis, NEW i
    PROVE  /\ GetFreeSlotInstance(i) # 0 => /\ GetFreeSlotInstance(i) \in 1..Len(free)
                                            /\ free[GetFreeSlotInstance(i)].inst = i
           /\ Once(free, i) => GetFreeSlotInstance(i) # 0
           /\ free \in Seq(Entries) /\ Len(free) \in Nat
           /\ \A a \in 1..Len(free) : free[a] \in Entries
<1>1. free \in Seq(Entries)
  BY GroupsAre
<1> QED
  BY <1>1, SlotIs

LEMMA UpToSame ==
    ASSUME NEW fr, NEW fr1, NEW last, UpTo(fr, last), SameInstances(fr, fr1)
    PROVE  UpTo(fr1, last)
BY DEF UpTo, SameInstances

\* A message that leaves the instances of the list as they are.
LEMMA SameListStep ==
    ASSUME Basis, NEW type, type \notin {"add", "remove"}, Take(type), UNCHANGED <<Rest, queued, groups>>,
           scheduled' \in BOOLEAN, free' \in Seq(Entries), SameInstances(free, free'), Tells(toWorld, toWorld')
    PROVE  Basis'
<1>1. Head(toQueue).type = type
  BY Taken
<1>2. Moves(Head(toQueue), free, free')
  BY <1>1, MovesNothing
<1>3. UpTo(free', lastInstance)
  BY GroupsAre, UpToSame
<1> QED
  BY <1>2, <1>3, ListStep

LEMMA StatusEntry ==
    ASSUME free \in Seq(Entries), NEW k \in 1..Len(free), NEW status \in Statuses
    PROVE  /\ [free EXCEPT ![k].status = status] \in Seq(Entries)
           /\ SameInstances(free, [free EXCEPT ![k].status = status])
<1> DEFINE e == free[k]
           e1 == [e EXCEPT !.status = status]
           fr == [free EXCEPT ![k] = e1]
<1>1. e \in Entries
  OBVIOUS
<1>2. e1 \in Entries /\ e1.inst = e.inst
  BY <1>1 DEF Entries
<1>3. fr = [free EXCEPT ![k].status = status]
  OBVIOUS
<1> HIDE DEF e1
<1>4. fr \in Seq(Entries) /\ Len(fr) = Len(free) /\ \A a \in 1..Len(free) : fr[a] = IF a = k THEN e1 ELSE free[a]
  BY <1>2
<1>5. SameInstances(free, fr)
  BY <1>2, <1>4 DEF SameInstances
<1> HIDE DEF fr
<1> QED
  BY <1>3, <1>4, <1>5

LEMMA StatusChangedKeeps ==
    ASSUME Basis, StatusChanged
    PROVE  Basis'
<1> DEFINE m == Head(toQueue)
           k == GetFreeSlotInstance(m.inst)
<1>1. Take("status")
  BY DEF StatusChanged
<1>2. /\ UNCHANGED <<Rest, queued, groups>> /\ UNCHANGED <<toWorld, scheduled>>
      /\ free' = IF k = 0 THEN free ELSE [free EXCEPT ![k].status = m.status]
  BY DEF StatusChanged, Rest, worldVars, history
<1>3. m \in ToQueue /\ m.type = "status"
  BY <1>1, Taken
<1>4. m \in NewStatuses
  BY <1>3, QueueKinds
<1>5. m.status \in Statuses
  BY <1>4 DEF NewStatuses
<1>6. free \in Seq(Entries) /\ Tells(toWorld, toWorld') /\ scheduled' \in BOOLEAN
  BY <1>2, QueueKept
<1>7. k # 0 => k \in 1..Len(free)
  BY SlotFound
<1> HIDE DEF k, m
<1>8. CASE k = 0
  <2>1. free' = free
    BY <1>2, <1>8
  <2> QED
    BY <1>1, <1>2, <1>6, <2>1, SameListStep, SameInstancesSelf
<1>9. CASE k # 0
  <2>1. free' \in Seq(Entries) /\ SameInstances(free, free')
    BY <1>2, <1>5, <1>6, <1>7, <1>9, StatusEntry
  <2> QED
    BY <1>1, <1>2, <1>6, <2>1, SameListStep
<1> QED
  BY <1>8, <1>9

LEMMA PlayerLeftKeeps ==
    ASSUME Basis, PlayerLeft
    PROVE  Basis'
<1> DEFINE m == Head(toQueue)
           k == GetFreeSlotInstance(m.inst)
           count == Less(free[k].invited[m.team])
           told == Invited(m.inst, m.team, count)
<1>1. Take("decrease")
  BY DEF PlayerLeft
<1>2. /\ UNCHANGED <<Rest, queued, groups>> /\ UNCHANGED scheduled
      /\ IF k = 0 THEN UNCHANGED <<free, toWorld>>
         ELSE free' = CountIn(free, k, m.team, count) /\ toWorld' = Append(toWorld, told)
  BY DEF PlayerLeft, Rest, worldVars, history, CountIn
<1>3. m \in ToQueue /\ m.type = "decrease"
  BY <1>1, Taken
<1>4. m \in Decreases
  BY <1>3, QueueKinds
<1>5. m.team \in Teams /\ m.inst \in Instances
  BY <1>4 DEF Decreases
<1>6. free \in Seq(Entries) /\ Tells(toWorld, toWorld) /\ scheduled' \in BOOLEAN
  BY <1>2, QueueKept
<1>7. k # 0 => k \in 1..Len(free)
  BY SlotFound
<1>8. CASE k = 0
  <2>1. free' = free /\ toWorld' = toWorld
    BY <1>2, <1>8
  <2> QED
    BY <1>1, <1>2, <1>6, <2>1, SameListStep, SameInstancesSelf
<1>9. CASE k # 0
  <2> HIDE DEF k
  <2>1. count \in 0..(CountMod - 1) /\ CountIn(free, k, m.team, count) \in Seq(Entries)
        /\ SameInstances(free, CountIn(free, k, m.team, count))
    BY <1>5, <1>6, <1>7, <1>9, CountChanged
  <2> HIDE DEF count
  <2>2. told \in ToWorld /\ Harmless(told)
    BY <1>5, <2>1 DEF ToWorld, NewCounts, Harmless, Invited
  <2>3. toWorld \in Seq(ToWorld)
    BY DEF Basis, Typed
  <2> HIDE DEF told
  <2>4. Tells(toWorld, toWorld')
    BY <1>2, <1>9, <2>2, <2>3, TellsOne
  <2>5. free' \in Seq(Entries) /\ SameInstances(free, free')
    BY <1>2, <1>9, <2>1
  <2> QED
    BY <1>1, <1>2, <1>6, <2>4, <2>5, SameListStep
<1> QED
  BY <1>8, <1>9

LEMMA ScheduleKeeps ==
    ASSUME Basis, ScheduleQueueUpdate
    PROVE  Basis'
<1>1. Take("schedule") /\ UNCHANGED <<Rest, queued, groups>> /\ UNCHANGED <<toWorld, free>> /\ scheduled' = TRUE
  BY DEF ScheduleQueueUpdate, Rest, worldVars, history
<1>2. free \in Seq(Entries) /\ Tells(toWorld, toWorld') /\ scheduled' \in BOOLEAN
  BY <1>1, QueueKept
<1>3. free' \in Seq(Entries) /\ SameInstances(free, free')
  BY <1>1, <1>2, SameInstancesSelf
<1> QED
  BY <1>1, <1>2, <1>3, SameListStep

LEMMA Prepended ==
    ASSUME NEW fr \in Seq(Entries), NEW e \in Entries, NEW fr1, fr1 = <<e>> \o fr
    PROVE  /\ fr1 \in Seq(Entries) /\ Len(fr) \in Nat /\ Len(fr1) = Len(fr) + 1 /\ fr1[1] = e
           /\ \A a \in 1..Len(fr) : a + 1 \in 1..Len(fr1) /\ fr1[a + 1] = fr[a]
           /\ \A a \in 1..Len(fr1) : a = 1 \/ (a - 1 \in 1..Len(fr) /\ fr1[a] = fr[a - 1])
<1>1. fr1 \in Seq(Entries) /\ Len(fr) \in Nat /\ Len(fr1) = Len(fr) + 1 /\ fr1[1] = e
  OBVIOUS
<1>2. \A a \in 1..Len(fr) : a + 1 \in 1..Len(fr1) /\ fr1[a + 1] = fr[a]
  OBVIOUS
<1>3. ASSUME NEW a \in 1..Len(fr1), a # 1 PROVE a - 1 \in 1..Len(fr) /\ fr1[a] = fr[a - 1]
  <2>1. a - 1 \in 1..Len(fr) /\ (a - 1) + 1 = a
    BY <1>1, <1>3
  <2> QED
    BY <1>2, <2>1
<1> QED
  BY <1>1, <1>2, <1>3

LEMMA PrependedLists ==
    ASSUME NEW fr \in Seq(Entries), NEW e \in Entries, NEW fr1, fr1 = <<e>> \o fr, NEW i
    PROVE  /\ Once(fr, i) => Once(fr1, i)
           /\ Twice(fr, i) => Twice(fr1, i)
           /\ i = e.inst => Once(fr1, i)
           /\ i = e.inst /\ Once(fr, i) => Twice(fr1, i)
<1>1. /\ Len(fr) \in Nat /\ Len(fr1) = Len(fr) + 1 /\ fr1[1] = e
      /\ \A a \in 1..Len(fr) : a + 1 \in 1..Len(fr1) /\ fr1[a + 1] = fr[a]
  BY Prepended
<1>2. Once(fr, i) => Once(fr1, i)
  BY <1>1 DEF Once
<1>3. ASSUME Twice(fr, i) PROVE Twice(fr1, i)
  <2>1. PICK a, b \in 1..Len(fr) : a # b /\ fr[a].inst = i /\ fr[b].inst = i
    BY <1>3 DEF Twice
  <2>2. a + 1 \in 1..Len(fr1) /\ b + 1 \in 1..Len(fr1) /\ a + 1 # b + 1 /\ fr1[a + 1].inst = i /\ fr1[b + 1].inst = i
    BY <1>1, <2>1
  <2> QED
    BY <2>2 DEF Twice
<1>4. 1 \in 1..Len(fr1)
  BY <1>1
<1>5. i = e.inst => Once(fr1, i)
  BY <1>1, <1>4 DEF Once
<1>6. ASSUME i = e.inst, Once(fr, i) PROVE Twice(fr1, i)
  <2>1. PICK a \in 1..Len(fr) : fr[a].inst = i
    BY <1>6 DEF Once
  <2>2. a + 1 \in 1..Len(fr1) /\ a + 1 # 1 /\ fr1[a + 1].inst = i /\ fr1[1].inst = i
    BY <1>1, <1>6, <2>1
  <2> QED
    BY <1>4, <2>2 DEF Twice
<1> QED
  BY <1>2, <1>3, <1>5, <1>6

LEMMA AddBgKeeps ==
    ASSUME Basis, AddBgToFreeSlots
    PROVE  Basis'
<1> DEFINE m == Head(toQueue)
           e == m.entry
<1>1. Take("add")
  BY DEF AddBgToFreeSlots
<1>2. UNCHANGED <<Rest, queued, groups>> /\ UNCHANGED <<toWorld, scheduled>> /\ free' = <<e>> \o free
  BY DEF AddBgToFreeSlots, Rest, worldVars, history
<1>3. m \in ToQueue /\ m.type = "add" /\ toQueue \in Seq(ToQueue) /\ toQueue # <<>>
  BY <1>1, Taken
<1>4. m \in Adds
  BY <1>3, QueueKinds
<1>5. e \in Entries
  BY <1>4 DEF Adds
<1>6. free \in Seq(Entries) /\ UpTo(free, lastInstance) /\ Tells(toWorld, toWorld') /\ scheduled' \in BOOLEAN
  BY <1>2, QueueKept
<1>7. e.inst <= lastInstance
  <2>1. Announced(toQueue, lastInstance)
    BY DEF Basis
  <2>2. 1 \in 1..Len(toQueue) /\ toQueue[1] = m
    BY <1>3
  <2> QED
    BY <1>3, <2>1, <2>2 DEF Announced
<1>8. /\ free' \in Seq(Entries) /\ free'[1] = e
      /\ \A a \in 1..Len(free') : a = 1 \/ (a - 1 \in 1..Len(free) /\ free'[a] = free[a - 1])
  BY <1>2, <1>5, <1>6, Prepended
<1>9. UpTo(free', lastInstance)
  BY <1>6, <1>7, <1>8 DEF UpTo
<1>10. Moves(m, free, free')
  <2> SUFFICES ASSUME NEW i \in Instances
               PROVE  /\ Adding(m, i) /\ Once(free, i) => Twice(free', i)
                      /\ Removing(m, i) /\ Twice(free, i) => Once(free', i)
                      /\ ~Adding(m, i) /\ ~Removing(m, i) /\ Once(free, i) => Once(free', i)
                      /\ ~Adding(m, i) /\ ~Removing(m, i) /\ Twice(free, i) => Twice(free', i)
    BY DEF Moves
  <2>1. (Adding(m, i) => i = e.inst) /\ ~Removing(m, i)
    BY <1>3 DEF Adding, Removing
  <2> HIDE DEF e
  <2>2. /\ Once(free, i) => Once(free', i)
        /\ Twice(free, i) => Twice(free', i)
        /\ i = e.inst /\ Once(free, i) => Twice(free', i)
    BY <1>2, <1>5, <1>6, PrependedLists
  <2> QED
    BY <2>1, <2>2
<1> QED
  BY <1>1, <1>2, <1>6, <1>8, <1>9, <1>10, ListStep

LEMMA RemovedLists ==
    ASSUME NEW fr \in Seq(Entries), NEW k \in 1..Len(fr), NEW fr1, fr1 = RemoveAt(fr, k)
    PROVE  /\ fr1 \in Seq(Entries)
           /\ \A last : UpTo(fr, last) => UpTo(fr1, last)
           /\ \A i : Twice(fr, i) => Once(fr1, i)
           /\ \A i : i # fr[k].inst => (Once(fr, i) => Once(fr1, i)) /\ (Twice(fr, i) => Twice(fr1, i))
<1>1. /\ fr1 \in Seq(Entries) /\ Len(fr1) = Len(fr) - 1 /\ Len(fr) \in Nat
      /\ \A n \in 1..(Len(fr) - 1) : fr1[n] = fr[IF n < k THEN n ELSE n + 1]
  BY RemovedAt
<1>2. ASSUME NEW a \in 1..Len(fr), a # k
      PROVE  \E n \in 1..Len(fr1) : n = (IF a < k THEN a ELSE a - 1) /\ fr1[n] = fr[a]
  <2>1. CASE a < k
    BY <1>1, <2>1
  <2>2. CASE a > k
    <3>1. a - 1 \in 1..(Len(fr) - 1) /\ ~(a - 1 < k) /\ (a - 1) + 1 = a /\ ~(a < k)
      BY <1>1, <2>2
    <3> QED
      BY <1>1, <3>1
  <2> QED
    BY <1>2, <2>1, <2>2
<1>3. ASSUME NEW last, UpTo(fr, last) PROVE UpTo(fr1, last)
  <2> SUFFICES ASSUME NEW n \in 1..Len(fr1) PROVE fr1[n].inst <= last
    BY DEF UpTo
  <2>1. fr1[n] = fr[IF n < k THEN n ELSE n + 1] /\ (IF n < k THEN n ELSE n + 1) \in 1..Len(fr)
    BY <1>1
  <2> QED
    BY <1>3, <2>1 DEF UpTo
<1>4. ASSUME NEW i, Twice(fr, i) PROVE Once(fr1, i)
  <2>1. PICK a, b \in 1..Len(fr) : a # b /\ fr[a].inst = i /\ fr[b].inst = i
    BY <1>4 DEF Twice
  <2>2. PICK c \in 1..Len(fr) : c # k /\ fr[c].inst = i
    BY <2>1
  <2> QED
    BY <1>2, <2>2 DEF Once
<1>5. ASSUME NEW i, i # fr[k].inst, Once(fr, i) PROVE Once(fr1, i)
  <2>1. PICK a \in 1..Len(fr) : fr[a].inst = i
    BY <1>5 DEF Once
  <2> QED
    BY <1>2, <1>5, <2>1 DEF Once
<1>6. ASSUME NEW i, i # fr[k].inst, Twice(fr, i) PROVE Twice(fr1, i)
  <2>1. PICK a, b \in 1..Len(fr) : a # b /\ fr[a].inst = i /\ fr[b].inst = i
    BY <1>6 DEF Twice
  <2>2. a # k /\ b # k
    BY <1>6, <2>1
  <2>3. PICK n \in 1..Len(fr1) : n = (IF a < k THEN a ELSE a - 1) /\ fr1[n] = fr[a]
    BY <1>2, <2>2
  <2>4. PICK j \in 1..Len(fr1) : j = (IF b < k THEN b ELSE b - 1) /\ fr1[j] = fr[b]
    BY <1>2, <2>2
  <2>5. n # j
    BY <1>1, <2>1, <2>2, <2>3, <2>4
  <2> QED
    BY <2>1, <2>3, <2>4, <2>5 DEF Twice
<1> QED
  BY <1>1, <1>3, <1>4, <1>5, <1>6

LEMMA RemoveBgKeeps ==
    ASSUME Basis, RemoveBgFromFreeSlots
    PROVE  Basis'
<1> DEFINE m == Head(toQueue)
           k == GetFreeSlotInstance(m.inst)
<1>1. Take("remove")
  BY DEF RemoveBgFromFreeSlots
<1>2. /\ UNCHANGED <<Rest, queued, groups>> /\ UNCHANGED <<toWorld, scheduled>>
      /\ free' = IF k = 0 THEN free ELSE RemoveAt(free, k)
  BY DEF RemoveBgFromFreeSlots, Rest, worldVars, history
<1>3. m \in ToQueue /\ m.type = "remove"
  BY <1>1, Taken
<1>6. free \in Seq(Entries) /\ UpTo(free, lastInstance) /\ Tells(toWorld, toWorld') /\ scheduled' \in BOOLEAN
  BY <1>2, QueueKept
<1>7. (k # 0 => k \in 1..Len(free) /\ free[k].inst = m.inst) /\ (Once(free, m.inst) => k # 0)
  BY SlotFound
<1>8. Twice(free, m.inst) => Once(free, m.inst)
  BY DEF Twice, Once
<1>9. /\ free' \in Seq(Entries) /\ UpTo(free', lastInstance)
      /\ Twice(free, m.inst) => Once(free', m.inst)
      /\ \A i : i # m.inst => (Once(free, i) => Once(free', i)) /\ (Twice(free, i) => Twice(free', i))
  <2> HIDE DEF k, m
  <2>1. CASE k = 0
    BY <1>2, <1>6, <1>7, <1>8, <2>1
  <2>2. CASE k # 0
    BY <1>2, <1>6, <1>7, <2>2, RemovedLists
  <2> QED
    BY <2>1, <2>2
<1>10. Moves(m, free, free')
  <2> SUFFICES ASSUME NEW i \in Instances
               PROVE  /\ Adding(m, i) /\ Once(free, i) => Twice(free', i)
                      /\ Removing(m, i) /\ Twice(free, i) => Once(free', i)
                      /\ ~Adding(m, i) /\ ~Removing(m, i) /\ Once(free, i) => Once(free', i)
                      /\ ~Adding(m, i) /\ ~Removing(m, i) /\ Twice(free, i) => Twice(free', i)
    BY DEF Moves
  <2>1. ~Adding(m, i) /\ (Removing(m, i) <=> i = m.inst)
    BY <1>3 DEF Adding, Removing
  <2> HIDE DEF m
  <2> QED
    BY <1>9, <2>1
<1> QED
  BY <1>1, <1>2, <1>6, <1>9, <1>10, ListStep

-----------------------------------------------------------------------------
\* The queue thread fills the battlegrounds.

LEMMA EnlistedCalls ==
    ASSUME NEW gs, NEW hs, NEW d, NEW last, Calls(gs, hs, d, last), NEW qd, Enlisted(qd, gs)
    PROVE  Enlisted(qd, hs)
<1> SUFFICES ASSUME NEW p \in Players, qd[p] # 0
             PROVE  \E n \in 1..Len(hs[TeamOf[p]]) : hs[TeamOf[p]][n].id = qd[p] /\ p \in hs[TeamOf[p]][n].players
  BY DEF Enlisted
<1>1. PICK n \in 1..Len(gs[TeamOf[p]]) : gs[TeamOf[p]][n].id = qd[p] /\ p \in gs[TeamOf[p]][n].players
  BY DEF Enlisted
<1>2. TeamOf[p] \in Teams
  BY QueueAssumption
<1> DEFINE t == TeamOf[p]
<1>3. /\ n \in 1..Len(hs[t])
      /\ hs[t][n].players = gs[t][n].players /\ hs[t][n].id = gs[t][n].id
  BY <1>1, <1>2, CallsKeep
<1> QED
  BY <1>1, <1>3

\* Those who are told are told of now.
LEMMA ToldNow ==
    ASSUME NEW gs, Sides(gs), NEW hs, NEW out, NEW last, Inviting(gs, hs, out, last),
           NEW clk1, clk1 = IF hs # gs THEN clock + 1 ELSE clock, clock \in Nat
    PROVE  PastWorld(out, clk1) /\ \A k \in 1..Len(out) : out[k].type # "create"
<1>1. Tellings(gs, hs, out) /\ Calls(gs, hs, clock + 1, last)
  BY DEF Inviting
<1>2. \A k \in 1..Len(out) : out[k].type \in {"invite", "invited"}
  BY <1>1 DEF Tellings
<1>3. ASSUME NEW k \in 1..Len(out), out[k].type \in {"expired", "invite"} PROVE out[k].due <= clk1
  <2>1. out[k].type = "invite"
    BY <1>2, <1>3
  <2>2. PICK t \in Teams : \E n \in 1..Len(gs[t]) : gs[t][n].inst = 0 /\ hs[t][n].due = out[k].due /\ hs[t][n].inst # 0
    BY <1>1, <2>1 DEF Tellings
  <2>3. PICK n \in 1..Len(gs[t]) : gs[t][n].inst = 0 /\ hs[t][n].due = out[k].due /\ hs[t][n].inst # 0
    BY <2>2
  <2>4. hs[t][n] # gs[t][n] /\ hs # gs
    BY <2>3
  <2>5. CalledAs(hs[t][n], gs[t][n], clock + 1, last)
    BY <1>1, <2>4 DEF Calls
  <2>6. hs[t][n].due = clock + 1
    BY <2>5 DEF CalledAs
  <2> QED
    BY <2>3, <2>4, <2>6
<1> QED
  BY <1>2, <1>3 DEF PastWorld

LEMMA WorldMade ==
    ASSUME NEW w \in Seq(ToWorld), NEW clk, NEW bs, NEW last \in Nat, PastWorld(w, clk), Making(w, bs, last),
           NEW e \in Entries, e.inst = last + 1, Born(bs, last), NEW w1, w1 = WithCreation(w, e)
    PROVE  w1 \in Seq(ToWorld) /\ PastWorld(w1, clk) /\ Making(w1, bs, last + 1)
<1> DEFINE m == [type |-> "create", inst |-> e.inst, invited |-> e.invited]
<1>1. e.inst \in Instances /\ e.invited \in Counts
  BY DEF Entries
<1>2. m \in ToWorld /\ m.type = "create" /\ m.inst = last + 1
  BY <1>1 DEF ToWorld, Creations
<1>3. w1 = Append(w, m)
  BY DEF WithCreation
<1> HIDE DEF m
<1>4. /\ w1 \in Seq(ToWorld) /\ Len(w) \in Nat /\ Len(w1) = Len(w) + 1 /\ w1[Len(w) + 1] = m
      /\ \A k \in 1..Len(w) : w1[k] = w[k]
  BY <1>2, <1>3
<1>5. \A k \in 1..Len(w1) : k \in 1..Len(w) \/ k = Len(w) + 1
  BY <1>4
<1>6. PastWorld(w1, clk)
  BY <1>2, <1>4, <1>5 DEF PastWorld
<1>7. bs[last + 1].status = "none"
  BY <1>1 DEF Born
<1>8. \A k \in 1..Len(w) : w[k].type = "create" => w[k].inst <= last /\ bs[w[k].inst].status = "none"
  BY DEF Making
<1>9. \A k \in 1..Len(w) : w[k].type = "create" => w[k].inst \in Nat
  <2> SUFFICES ASSUME NEW k \in 1..Len(w), w[k].type = "create" PROVE w[k].inst \in Nat
    OBVIOUS
  <2>1. w[k] \in ToWorld
    OBVIOUS
  <2>2. w[k] \in Creations
    BY <2>1, WorldKinds
  <2> QED
    BY <2>2, InstancesAre DEF Creations
<1>10. ASSUME NEW n \in 1..Len(w1), w1[n].type = "create"
       PROVE  /\ w1[n].inst <= last + 1 /\ bs[w1[n].inst].status = "none"
              /\ \A a \in 1..Len(w1) : w1[a].type = "create" /\ w1[a].inst = w1[n].inst => a = n
  <2>1. CASE n = Len(w) + 1
    <3>1. w1[n].inst = last + 1
      BY <1>2, <1>4, <2>1
    <3>2. \A a \in 1..Len(w) : w1[a].type = "create" => w1[a].inst # last + 1
      <4> SUFFICES ASSUME NEW a \in 1..Len(w), w1[a].type = "create" PROVE w1[a].inst # last + 1
        OBVIOUS
      <4>1. w1[a] = w[a]
        BY <1>4
      <4>2. w[a].inst \in Nat /\ w[a].inst <= last
        BY <1>8, <1>9, <4>1
      <4> QED
        BY <4>1, <4>2
    <3> QED
      BY <1>5, <1>7, <2>1, <3>1, <3>2
  <2>2. CASE n \in 1..Len(w)
    <3>1. w1[n] = w[n]
      BY <1>4, <2>2
    <3>2. w[n].inst \in Nat /\ w[n].inst <= last /\ bs[w[n].inst].status = "none"
      BY <1>8, <1>9, <1>10, <2>2, <3>1
    <3>3. w[n].inst <= last + 1 /\ w[n].inst # last + 1
      BY <3>2
    <3>4. \A a \in 1..Len(w) : w[a].type = "create" /\ w[a].inst = w[n].inst => a = n
      BY <1>10, <2>2, <3>1 DEF Making
    <3>5. \A a \in 1..Len(w) : w1[a] = w[a]
      BY <1>4
    <3>6. w1[Len(w) + 1].inst = last + 1
      BY <1>2, <1>4
    <3> QED
      BY <1>5, <3>1, <3>2, <3>3, <3>4, <3>5, <3>6
  <2> QED
    BY <1>5, <2>1, <2>2
<1>11. Making(w1, bs, last + 1)
  BY <1>10 DEF Making
<1> QED
  BY <1>4, <1>6, <1>11

LEMMA Later ==
    ASSUME NEW q \in Seq(ToQueue), NEW pl \in [Players -> Records], NEW bs,
           NEW clk \in Nat, NEW clk1 \in Nat, clk <= clk1, NEW last \in Nat, NEW last1 \in Nat, last <= last1,
           PastQueue(q, clk), PastTimers(pl, clk), Announced(q, last), Born(bs, last)
    PROVE  PastQueue(q, clk1) /\ PastTimers(pl, clk1) /\ Announced(q, last1) /\ Born(bs, last1)
<1>1. ASSUME NEW n \in 1..Len(q), q[n].type = "expire" PROVE q[n].due <= clk1
  <2>1. q[n] \in ToQueue
    OBVIOUS
  <2>2. q[n] \in Expiries
    BY <1>1, <2>1, QueueKinds
  <2>3. q[n].due \in 1..Requests /\ q[n].due <= clk
    BY <1>1, <2>2 DEF Expiries, PastQueue
  <2> HIDE DEF Requests
  <2>4. q[n].due \in Nat
    BY <2>3, Numbers
  <2> QED
    BY <2>3, <2>4
<1>2. ASSUME NEW n \in 1..Len(q), q[n].type = "add" PROVE q[n].entry.inst <= last1
  <2>1. q[n] \in ToQueue
    OBVIOUS
  <2>2. q[n] \in Adds
    BY <1>2, <2>1, QueueKinds
  <2>3. q[n].entry.inst \in Nat /\ q[n].entry.inst <= last
    BY <1>2, <2>2, InstancesAre DEF Adds, Entries, Announced
  <2> QED
    BY <2>3
<1>3. ASSUME NEW p \in Players, NEW n \in 1..Len(pl[p].timers) PROVE pl[p].timers[n].due <= clk1
  <2>1. pl[p].timers \in Seq(Events)
    BY DEF Records
  <2>2. pl[p].timers[n] \in Events /\ pl[p].timers[n].due <= clk
    BY <2>1 DEF PastTimers
  <2>3. pl[p].timers[n].due \in Nat
    BY <2>2, Numbers DEF Events
  <2> QED
    BY <2>2, <2>3
<1>4. Born(bs, last1)
  <2> SUFFICES ASSUME NEW i \in Instances, i > last1 PROVE bs[i].status = "none"
    BY DEF Born
  <2>1. i > last
    BY InstancesAre
  <2> QED
    BY <2>1 DEF Born
<1> QED
  BY <1>1, <1>2, <1>3, <1>4 DEF PastQueue, Announced, PastTimers

LEMMA ListsMore ==
    ASSUME NEW q \in Seq(ToQueue), NEW fr, NEW fr1, NEW l, NEW last \in Nat, NEW last1 \in Nat, last <= last1, Lists(q, fr, l, last),
           \A i \in Instances : (Once(fr, i) => Once(fr1, i)) /\ (Twice(fr, i) => Twice(fr1, i)),
           \A i \in Instances : i > last /\ i <= last1 => Once(fr1, i)
    PROVE  Lists(q, fr1, l, last1)
<1> SUFFICES ASSUME NEW i \in Instances PROVE IsListed(q, fr1, i, l[i], last1)
  BY DEF Lists
<1> DEFINE k == l[i]
<1>1. i \in Nat /\ Len(q) \in Nat
  BY InstancesAre
<1>2. IsListed(q, fr, i, k, last)
  BY DEF Lists
<1>3. (Once(fr, i) => Once(fr1, i)) /\ (Twice(fr, i) => Twice(fr1, i)) /\ (i > last /\ i <= last1 => Once(fr1, i))
  OBVIOUS
<1> HIDE DEF k
<1>4. IsListed(q, fr1, i, k, last1)
  BY ONLY <1>1, <1>2, <1>3, last \in Nat, last1 \in Nat, last <= last1, ListedMore
<1> QED
  BY <1>4 DEF k

\* What the list of battlegrounds is after an update.
LEMMA FreeMore ==
    ASSUME free \in Seq(Entries), UpTo(free, lastInstance), lastInstance \in Nat, NEW fr, NEW last,
           \/ fr \in Seq(Entries) /\ SameInstances(free, fr) /\ last = lastInstance
           \/ \E e, old : /\ e \in Entries /\ e.inst = last /\ last = lastInstance + 1
                          /\ old \in Seq(Entries) /\ SameInstances(free, old) /\ fr = <<e>> \o old
    PROVE  /\ fr \in Seq(Entries) /\ UpTo(fr, last) /\ last \in Nat /\ lastInstance <= last
           /\ \A i \in Instances : (Once(free, i) => Once(fr, i)) /\ (Twice(free, i) => Twice(fr, i))
           /\ \A i \in Instances : i > lastInstance /\ i <= last => Once(fr, i)
<1>0. \A i \in Instances : i \in Nat
  BY InstancesAre
<1>1. CASE fr \in Seq(Entries) /\ SameInstances(free, fr) /\ last = lastInstance
  <2>1. UpTo(fr, last)
    BY <1>1, UpToSame
  <2>2. \A i \in Instances : (Once(free, i) => Once(fr, i)) /\ (Twice(free, i) => Twice(fr, i))
    BY <1>1, SameInstancesList
  <2>3. \A i \in Instances : ~(i > lastInstance /\ i <= last)
    BY <1>0, <1>1
  <2> QED
    BY <1>1, <2>1, <2>2, <2>3
<1>2. CASE \E e, old : /\ e \in Entries /\ e.inst = last /\ last = lastInstance + 1
                       /\ old \in Seq(Entries) /\ SameInstances(free, old) /\ fr = <<e>> \o old
  <2>1. PICK e, old : /\ e \in Entries /\ e.inst = last /\ last = lastInstance + 1
                      /\ old \in Seq(Entries) /\ SameInstances(free, old) /\ fr = <<e>> \o old
    BY <1>2
  <2>2. UpTo(old, lastInstance)
    BY <2>1, UpToSame
  <2>3. /\ fr \in Seq(Entries) /\ fr[1] = e
        /\ \A a \in 1..Len(fr) : a = 1 \/ (a - 1 \in 1..Len(old) /\ fr[a] = old[a - 1])
    BY <2>1, Prepended
  <2>4. ASSUME NEW a \in 1..Len(fr) PROVE fr[a].inst <= last
    <3>1. CASE a = 1
      BY <2>1, <2>3, <3>1
    <3>2. CASE a # 1
      <4>1. a - 1 \in 1..Len(old) /\ fr[a] = old[a - 1]
        BY <2>3, <3>2
      <4>2. fr[a].inst <= lastInstance
        BY <2>2, <4>1 DEF UpTo
      <4>3. fr[a] \in Entries
        BY <2>3
      <4>4. fr[a].inst \in Nat
        BY <1>0, <4>3 DEF Entries
      <4> QED
        BY <2>1, <4>2, <4>4
    <3> QED
      BY <3>1, <3>2
  <2>5. ASSUME NEW i \in Instances
        PROVE  /\ (Once(free, i) => Once(fr, i)) /\ (Twice(free, i) => Twice(fr, i))
               /\ i > lastInstance /\ i <= last => Once(fr, i)
    <3>1. (Once(free, i) => Once(old, i)) /\ (Twice(free, i) => Twice(old, i))
      BY <2>1, SameInstancesList
    <3>2. (Once(old, i) => Once(fr, i)) /\ (Twice(old, i) => Twice(fr, i)) /\ (i = e.inst => Once(fr, i))
      BY <2>1, PrependedLists
    <3>3. i > lastInstance /\ i <= last => i = e.inst
      BY <1>0, <2>1
    <3> QED
      BY <3>1, <3>2, <3>3
  <2>6. last \in Nat /\ lastInstance <= last
    BY <2>1
  <2> QED
    BY <2>3, <2>4, <2>5, <2>6 DEF UpTo
<1> QED
  BY <1>1, <1>2

LEMMA UpdateKeeps ==
    ASSUME Basis, Update
    PROVE  Basis'
<1>1. /\ Typed /\ Crowd /\ clock \in Nat /\ lastInstance \in Nat /\ used \in Uses /\ Sides(groups)
      /\ Enlisted(queued, groups) /\ Numbered(toQueue, groups, clock, lastInstance, used)
      /\ free \in Seq(Entries) /\ UpTo(free, lastInstance) /\ toQueue \in Seq(ToQueue) /\ toWorld \in Seq(ToWorld)
      /\ player \in [Players -> Records]
  BY GroupsAre DEF Basis, Typed
<1>2. /\ PastQueue(toQueue, clock) /\ PastTimers(player, clock) /\ Announced(toQueue, lastInstance)
      /\ Born(bgs, lastInstance) /\ PastWorld(toWorld, clock) /\ Making(toWorld, bgs, lastInstance)
      /\ Lists(toQueue, free, Listed, lastInstance)
  BY DEF Basis
<1>3. UNCHANGED <<toQueue, tick, batch, queued, player, bgs, used>> /\ scheduled' = FALSE
  BY DEF Update, worldVars, history
<1>4. Timely(groups) /\ Spare(groups)
  BY <1>1, RoomLeft
<1>5. clock' = IF groups' # groups THEN clock + 1 ELSE clock
  BY <1>1, <1>4, UpdateIs
<1>6. PICK w : /\ toWorld' = toWorld \o w
               /\ Filled(groups', free', w, lastInstance') \/ Made(groups', free', w, lastInstance')
  BY <1>1, <1>4, UpdateIs
<1>7. /\ \/ free' \in Seq(Entries) /\ SameInstances(free, free') /\ lastInstance' = lastInstance
         \/ \E e, old : /\ e \in Entries /\ e.inst = lastInstance' /\ lastInstance' = lastInstance + 1
                        /\ old \in Seq(Entries) /\ SameInstances(free, old) /\ free' = <<e>> \o old
  BY <1>6 DEF Filled, Made
<1>8. /\ free' \in Seq(Entries) /\ UpTo(free', lastInstance') /\ lastInstance' \in Nat /\ lastInstance <= lastInstance'
      /\ \A i \in Instances : (Once(free, i) => Once(free', i)) /\ (Twice(free, i) => Twice(free', i))
      /\ \A i \in Instances : i > lastInstance /\ i <= lastInstance' => Once(free', i)
  BY <1>1, <1>7, FreeMore
<1>9. Lists(toQueue, free', Listed, lastInstance')
  BY <1>1, <1>2, <1>8, ListsMore
<1>10. PICK out : /\ Inviting(groups, groups', out, lastInstance')
                  /\ \/ w = out /\ lastInstance' = lastInstance
                     \/ /\ lastInstance' = lastInstance + 1 /\ \A t \in Teams : Progress(groups, groups', t)
                        /\ \E e : e \in Entries /\ e.inst = lastInstance' /\ w = WithCreation(out, e)
  BY <1>6 DEF Filled, Made
<1>11. Sides(groups') /\ Calls(groups, groups', clock + 1, lastInstance') /\ out \in Seq(ToWorld)
  BY <1>10 DEF Inviting
<1>12. Enlisted(queued, groups')
  BY <1>1, <1>11, EnlistedCalls
<1>13. clock' \in Nat /\ clock <= clock'
  BY <1>1, <1>5
<1>14. Numbered(toQueue, groups', clock', lastInstance', used)
  <2>1. lastInstance' = lastInstance \/ (lastInstance' = lastInstance + 1 /\ \A t \in Teams : Progress(groups, groups', t))
    BY <1>10
  <2> QED
    BY <1>1, <1>5, <1>8, <1>11, <2>1, NumberedCalls
<1>15. PastWorld(out, clock') /\ \A k \in 1..Len(out) : out[k].type # "create"
  BY <1>1, <1>5, <1>10, ToldNow
<1>16. /\ PastQueue(toQueue, clock') /\ PastTimers(player, clock') /\ Announced(toQueue, lastInstance')
       /\ Born(bgs, lastInstance')
  BY <1>1, <1>2, <1>8, <1>13, Later
<1> DEFINE w0 == toWorld \o out
<1>17. w0 \in Seq(ToWorld) /\ PastWorld(w0, clock') /\ Making(w0, bgs, lastInstance)
  <2>1. lastInstance <= lastInstance
    BY <1>1
  <2> QED
    BY <1>1, <1>2, <1>11, <1>13, <1>15, <2>1, WorldTold
<1>18. toWorld' \in Seq(ToWorld) /\ PastWorld(toWorld', clock') /\ Making(toWorld', bgs, lastInstance') /\ Len(toWorld) <= Len(toWorld')
  <2>1. CASE w = out /\ lastInstance' = lastInstance
    <3>1. toWorld' = w0
      BY <1>6, <2>1
    <3>2. Len(toWorld) <= Len(toWorld')
      BY <1>1, <1>11, <3>1
    <3> HIDE DEF w0
    <3> QED
      BY <1>17, <2>1, <3>1, <3>2
  <2>2. CASE lastInstance' = lastInstance + 1 /\ \E e : e \in Entries /\ e.inst = lastInstance' /\ w = WithCreation(out, e)
    <3>1. PICK e : e \in Entries /\ e.inst = lastInstance + 1 /\ w = WithCreation(out, e)
      BY <2>2
    <3> DEFINE m == [type |-> "create", inst |-> e.inst, invited |-> e.invited]
    <3>2. m \in ToWorld
      BY <3>1 DEF ToWorld, Creations, Entries
    <3>3. w = Append(out, m)
      BY <3>1 DEF WithCreation
    <3> HIDE DEF m
    <3>4. Append(out, m) = out \o <<m>> /\ <<m>> \in Seq(ToWorld)
      BY <1>11, <3>2, AppendedOne
    <3>5. Append(w0, m) = w0 \o <<m>>
      BY <1>17, <3>2, AppendedOne
    <3>6. (toWorld \o out) \o <<m>> = toWorld \o (out \o <<m>>)
      <4> DEFINE news == <<m>>
      <4>1. news \in Seq(ToWorld)
        BY <3>4
      <4> HIDE DEF news
      <4>2. (toWorld \o out) \o news = toWorld \o (out \o news)
        BY <1>1, <1>11, <4>1, JoinThree
      <4> QED
        BY <4>2 DEF news
    <3>7. toWorld' = Append(w0, m)
      BY <1>6, <3>3, <3>4, <3>5, <3>6
    <3>8. toWorld' = WithCreation(w0, e)
      BY <3>7 DEF WithCreation, m
    <3>9. Len(toWorld) <= Len(toWorld')
      BY <1>1, <1>11, <3>2, <3>7
    <3> HIDE DEF w0
    <3>10. toWorld' \in Seq(ToWorld) /\ PastWorld(toWorld', clock') /\ Making(toWorld', bgs, lastInstance + 1)
      BY <1>1, <1>2, <1>17, <3>1, <3>8, WorldMade
    <3> QED
      BY <2>2, <3>9, <3>10
  <2> QED
    BY <1>10, <2>1, <2>2
<1>19. Typed'
  <2>1. tick \in 0..Len(toWorld) /\ Len(toWorld) \in Nat /\ Len(toWorld') \in Nat
    BY <1>1, <1>18 DEF Typed
  <2>2. tick' \in 0..Len(toWorld')
    BY <1>3, <1>18, <2>1
  <2>3. groups' \in [Teams -> Seq(Groups)] /\ \A t \in Teams : groups'[t] \in Seq(SideGroups(t))
    BY <1>11 DEF Sides
  <2> QED
    BY <1>1, <1>3, <1>8, <1>13, <1>18, <2>2, <2>3 DEF Typed
<1>20. Crowd'
  BY <1>3, <1>12, <1>14 DEF Crowd
<1>21. Listed' = Listed
  BY <1>3 DEF Listed
<1>22. /\ PastQueue(toQueue', clock') /\ PastWorld(toWorld', clock') /\ PastTimers(player', clock')
       /\ UpTo(free', lastInstance') /\ Announced(toQueue', lastInstance')
       /\ Lists(toQueue', free', Listed', lastInstance')
       /\ Born(bgs', lastInstance') /\ Making(toWorld', bgs', lastInstance')
  BY <1>3, <1>8, <1>9, <1>16, <1>18, <1>21
<1> QED
  BY <1>19, <1>20, <1>22 DEF Basis

-----------------------------------------------------------------------------
\* The world thread.

SoundQueue(q, l, u) ==
    /\ q \in Seq(ToQueue) /\ Numbered(q, groups, clock, lastInstance, u)
    /\ PastQueue(q, clock) /\ Announced(q, lastInstance) /\ Lists(q, free, l, lastInstance)
SoundWorld(w, bs) == w \in Seq(ToWorld) /\ PastWorld(w, clock) /\ Making(w, bs, lastInstance)
SoundGrounds(bs) == bs \in [Instances -> Grounds] /\ Born(bs, lastInstance)
SoundPlayers(pl) == pl \in [Players -> Records] /\ PastTimers(pl, clock)

LEMMA Parts ==
    ASSUME Basis
    PROVE  /\ SoundQueue(toQueue, Listed, used) /\ SoundWorld(toWorld, bgs) /\ SoundGrounds(bgs) /\ SoundPlayers(player)
           /\ used \in Uses /\ Sides(groups) /\ lastInstance \in Nat /\ clock \in Nat
           /\ tick \in 0..Len(toWorld) /\ Len(toWorld) \in Nat /\ batch \in 0..Len(toQueue) /\ Len(toQueue) \in Nat
BY DEF Basis, Typed, Crowd, Sides, SoundQueue, SoundWorld, SoundGrounds, SoundPlayers

Longer(q, q1) == Len(q) <= Len(q1)

LEMMA WorldStep ==
    ASSUME Basis, UNCHANGED queueVars, SoundQueue(toQueue', Listed', used'), Longer(toQueue, toQueue'),
           SoundWorld(toWorld', bgs'), tick' \in 0..Len(toWorld'), SoundGrounds(bgs'), SoundPlayers(player'), used' \in Uses
    PROVE  Basis'
<1>1. UNCHANGED <<batch, scheduled, queued, groups, free, clock, lastInstance>>
  BY DEF queueVars
<1>2. /\ batch \in 0..Len(toQueue) /\ scheduled \in BOOLEAN /\ queued \in [Players -> Nat]
      /\ groups \in [Teams -> Seq(Groups)] /\ (\A t \in Teams : groups[t] \in Seq(SideGroups(t)))
      /\ free \in Seq(Entries) /\ clock \in Nat /\ lastInstance \in Nat /\ toQueue \in Seq(ToQueue)
      /\ Enlisted(queued, groups) /\ UpTo(free, lastInstance)
  BY DEF Basis, Typed, Crowd
<1>3. /\ toQueue' \in Seq(ToQueue) /\ Numbered(toQueue', groups, clock, lastInstance, used')
      /\ PastQueue(toQueue', clock) /\ Announced(toQueue', lastInstance) /\ Lists(toQueue', free, Listed', lastInstance)
  BY DEF SoundQueue
<1>4. toWorld' \in Seq(ToWorld) /\ PastWorld(toWorld', clock) /\ Making(toWorld', bgs', lastInstance)
  BY DEF SoundWorld
<1>5. bgs' \in [Instances -> Grounds] /\ Born(bgs', lastInstance) /\ player' \in [Players -> Records] /\ PastTimers(player', clock)
  BY DEF SoundGrounds, SoundPlayers
<1>6. batch' \in 0..Len(toQueue')
  BY <1>1, <1>2, <1>3 DEF Longer
<1>7. Typed'
  BY <1>1, <1>2, <1>3, <1>4, <1>5, <1>6 DEF Typed
<1>8. Crowd'
  BY <1>1, <1>2, <1>3 DEF Crowd
<1>9. /\ PastQueue(toQueue', clock') /\ PastWorld(toWorld', clock') /\ PastTimers(player', clock')
      /\ UpTo(free', lastInstance') /\ Announced(toQueue', lastInstance')
      /\ Lists(toQueue', free', Listed', lastInstance')
      /\ Born(bgs', lastInstance') /\ Making(toWorld', bgs', lastInstance')
  BY <1>1, <1>2, <1>3, <1>4, <1>5
<1> QED
  BY <1>7, <1>8, <1>9 DEF Basis

LEMMA Delivered ==
    ASSUME Basis, NEW type, Deliver(type)
    PROVE  /\ toWorld # <<>> /\ Head(toWorld) \in ToWorld /\ Head(toWorld).type = type /\ toWorld' = Tail(toWorld)
           /\ toWorld[1] = Head(toWorld) /\ 1 \in 1..Len(toWorld)
           /\ tick' \in 0..Len(toWorld') /\ SoundWorld(toWorld', bgs)
<1>1. /\ toWorld # <<>> /\ toWorld' = Tail(toWorld) /\ Head(toWorld).type = type
      /\ tick' = IF tick > 0 THEN tick - 1 ELSE Len(toWorld) - 1
  BY DEF Deliver
<1>2. toWorld \in Seq(ToWorld) /\ tick \in 0..Len(toWorld) /\ lastInstance \in Nat
  BY DEF Basis, Typed
<1>3. /\ Tail(toWorld) \in Seq(ToWorld) /\ Len(toWorld) \in Nat /\ Len(toWorld) > 0 /\ Len(Tail(toWorld)) = Len(toWorld) - 1
      /\ Head(toWorld) \in ToWorld /\ Head(toWorld) = toWorld[1]
  BY <1>1, <1>2, TailIs
<1>4. tick' \in 0..Len(toWorld')
  BY <1>1, <1>2, <1>3
<1>5. PastWorld(Tail(toWorld), clock) /\ Making(Tail(toWorld), bgs, lastInstance)
  BY <1>1, <1>2, WorldPopped DEF Basis
<1> QED
  BY <1>1, <1>3, <1>4, <1>5 DEF SoundWorld

\* A message for the queue other than a request to join.
LEMMA SendQueue ==
    ASSUME Basis, NEW q, NEW l, NEW u \in Uses, SoundQueue(q, l, u), NEW m \in ToQueue, m.type # "join",
           m.type = "expire" => m.due <= clock, m.type = "add" => m.entry.inst <= lastInstance,
           NEW l1, \A i \in Instances : l1[i] \in BOOLEAN /\ Switches(l[i], l1[i], m, i) /\ (l1[i] => i <= lastInstance)
    PROVE  SoundQueue(Append(q, m), l1, u) /\ Longer(q, Append(q, m))
<1>1. /\ q \in Seq(ToQueue) /\ Numbered(q, groups, clock, lastInstance, u)
      /\ PastQueue(q, clock) /\ Announced(q, lastInstance) /\ Lists(q, free, l, lastInstance)
  BY DEF SoundQueue
<1>2. Sides(groups) /\ lastInstance \in Nat /\ clock \in Nat
  BY Parts
<1>3. ~IsJoin(m)
  BY DEF IsJoin
<1>4. Numbered(Append(q, m), groups, clock, lastInstance, u)
  BY <1>1, <1>2, <1>3, NumberedPush
<1>5. PastQueue(Append(q, m), clock) /\ Announced(Append(q, m), lastInstance)
  BY <1>1, Pushed
<1>6. ASSUME NEW i \in Instances PROVE IsListed(Append(q, m), free, i, l1[i], lastInstance)
  <2> DEFINE a == l[i]
             b == l1[i]
  <2>1. i \in Nat
    BY InstancesAre
  <2>2. IsListed(q, free, i, a, lastInstance)
    BY <1>1 DEF Lists
  <2>3. b \in BOOLEAN /\ Switches(a, b, m, i) /\ (b => i <= lastInstance)
    OBVIOUS
  <2> HIDE DEF a, b
  <2>4. IsListed(Append(q, m), free, i, b, lastInstance)
    BY <1>1, <1>2, <2>1, <2>2, <2>3, ListedPush
  <2> QED
    BY <2>4 DEF b
<1>7. Lists(Append(q, m), free, l1, lastInstance)
  BY <1>6 DEF Lists
<1>8. Append(q, m) \in Seq(ToQueue) /\ Longer(q, Append(q, m))
  BY <1>1 DEF Longer
<1> QED
  BY <1>4, <1>5, <1>7, <1>8 DEF SoundQueue

LEMMA SameListing ==
    ASSUME NEW m, m.type \notin {"add", "remove"}, NEW x, NEW i
    PROVE  Switches(x, x, m, i)
BY DEF Switches, Adding, Removing

LEMMA ListedIs ==
    ASSUME Basis
    PROVE  \A i \in Instances : Listed[i] = bgs[i].listed /\ Listed[i] \in BOOLEAN /\ (Listed[i] => i <= lastInstance)
<1> SUFFICES ASSUME NEW i \in Instances
             PROVE  Listed[i] = bgs[i].listed /\ Listed[i] \in BOOLEAN /\ (Listed[i] => i <= lastInstance)
  OBVIOUS
<1>1. bgs \in [Instances -> Grounds] /\ Born(bgs, lastInstance) /\ lastInstance \in Nat /\ i \in Nat
  BY InstancesAre DEF Basis, Typed
<1>2. bgs[i].listed \in BOOLEAN
  BY <1>1 DEF Grounds
<1>3. bgs[i].listed => ~(i > lastInstance)
  BY <1>1 DEF Born
<1>4. Listed[i] = bgs[i].listed
  BY DEF Listed
<1> QED
  BY <1>1, <1>2, <1>3, <1>4

\* A message that has nothing to do with the list.
LEMMA SendOther ==
    ASSUME Basis, NEW m \in ToQueue, m.type \notin {"join", "add", "remove"}, m.type = "expire" => m.due <= clock
    PROVE  SoundQueue(Append(toQueue, m), Listed, used) /\ Longer(toQueue, Append(toQueue, m))
<1>1. SoundQueue(toQueue, Listed, used) /\ used \in Uses
  BY Parts
<1>2. \A i \in Instances : Listed[i] \in BOOLEAN /\ Switches(Listed[i], Listed[i], m, i) /\ (Listed[i] => i <= lastInstance)
  BY ListedIs, SameListing
<1> QED
  BY <1>1, <1>2, SendQueue

LEMMA SameQueue ==
    ASSUME Basis
    PROVE  SoundQueue(toQueue, Listed, used) /\ Longer(toQueue, toQueue)
<1>1. Len(toQueue) \in Nat
  BY Parts
<1> QED
  BY <1>1, Parts DEF Longer

LEMMA SameTimers ==
    ASSUME Basis, NEW pl \in [Players -> Records], \A p \in Players : pl[p].timers = player[p].timers
    PROVE  SoundPlayers(pl)
<1>1. PastTimers(player, clock)
  BY DEF Basis
<1> QED
  BY <1>1 DEF SoundPlayers, PastTimers

LEMMA RecordIs ==
    ASSUME NEW r \in Records
    PROVE  /\ r.timers \in Seq(Events) /\ r.reg \in BOOLEAN /\ r.invited \in Instances \cup {0} /\ r.at \in Instances \cup {0}
           /\ r.online \in BOOLEAN /\ r.going \in BOOLEAN
BY DEF Records

LEMMA RegRecord ==
    ASSUME NEW r \in Records, NEW reg \in BOOLEAN, NEW invited \in Instances \cup {0},
           NEW r1, r1 = [r EXCEPT !.reg = reg, !.invited = invited]
    PROVE  r1 \in Records /\ r1.timers = r.timers
BY DEF Records

LEMMA PlayersAre ==
    ASSUME Basis
    PROVE  /\ player \in [Players -> Records] /\ \A p \in Players : player[p] \in Records
           /\ 0 \in Instances \cup {0} /\ \A i \in Instances : i \in Instances \cup {0}
           /\ SoundPlayers(player)
BY DEF Basis, Typed, SoundPlayers

\* One player's record changes, and his events with it.
LEMMA OnePlayer ==
    ASSUME Basis, NEW p \in Players, NEW r \in Records, \A n \in 1..Len(r.timers) : r.timers[n].due <= clock,
           NEW pl, pl = [player EXCEPT ![p] = r]
    PROVE  SoundPlayers(pl)
<1>1. player \in [Players -> Records] /\ PastTimers(player, clock)
  BY DEF Basis, Typed
<1>2. pl \in [Players -> Records] /\ \A q \in Players : pl[q] = IF q = p THEN r ELSE player[q]
  BY <1>1
<1> QED
  BY <1>1, <1>2 DEF SoundPlayers, PastTimers

LEMMA OnePlayerSameTimers ==
    ASSUME Basis, NEW p \in Players, NEW r \in Records, r.timers = player[p].timers,
           NEW pl, pl = [player EXCEPT ![p] = r]
    PROVE  SoundPlayers(pl)
<1>1. PastTimers(player, clock)
  BY DEF Basis
<1>2. \A n \in 1..Len(r.timers) : r.timers[n].due <= clock
  BY <1>1 DEF PastTimers
<1> QED
  BY <1>2, OnePlayer

LEMMA RegisteredKeeps ==
    ASSUME Basis, PlayersRegistered
    PROVE  Basis'
<1> DEFINE m == Head(toWorld)
<1>1. /\ Deliver("joined") /\ UNCHANGED <<toQueue, bgs, used>> /\ UNCHANGED queueVars
      /\ player' = [p \in Players |-> IF p \in m.party /\ player[p].online
                                     THEN [player[p] EXCEPT !.reg = TRUE, !.invited = 0] ELSE player[p]]
  BY DEF PlayersRegistered, history
<1>2. tick' \in 0..Len(toWorld') /\ SoundWorld(toWorld', bgs)
  BY <1>1, Delivered
<1>3. ASSUME NEW p \in Players PROVE player'[p] \in Records /\ player'[p].timers = player[p].timers
  <2> DEFINE old == player[p]
  <2>1. old \in Records /\ 0 \in Instances \cup {0}
    BY PlayersAre
  <2> DEFINE r == [old EXCEPT !.reg = TRUE, !.invited = 0]
  <2> HIDE DEF old
  <2>2. r \in Records /\ r.timers = old.timers
    BY <2>1, RegRecord
  <2>3. player'[p] = IF p \in m.party /\ player[p].online THEN r ELSE player[p]
    BY <1>1 DEF old
  <2> HIDE DEF r
  <2> QED
    BY <2>1, <2>2, <2>3 DEF old
<1>4. player' = [p \in Players |-> player'[p]]
  BY <1>1
<1>5. player' \in [Players -> Records]
  BY <1>3, <1>4
<1>6. SoundPlayers(player')
  BY <1>3, <1>5, SameTimers
<1>7. Listed' = Listed
  BY <1>1 DEF Listed
<1> QED
  BY <1>1, <1>2, <1>6, <1>7, Parts, SameQueue, WorldStep

\* A message that changes one player's record.
LEMMA PlayerTold ==
    ASSUME Basis, NEW type, Deliver(type), UNCHANGED <<toQueue, bgs, used>>, UNCHANGED queueVars, SoundPlayers(player')
    PROVE  Basis'
<1>1. tick' \in 0..Len(toWorld') /\ SoundWorld(toWorld', bgs)
  BY Delivered
<1>2. Listed' = Listed
  BY DEF Listed
<1> QED
  BY <1>1, <1>2, Parts, SameQueue, WorldStep

LEMMA LeftQueueKeeps ==
    ASSUME Basis, PlayerLeftQueue
    PROVE  Basis'
<1> DEFINE p == Head(toWorld).player
           old == player[p]
           r == [old EXCEPT !.reg = FALSE, !.invited = 0]
<1>1. /\ Deliver("left") /\ UNCHANGED <<toQueue, bgs, used>> /\ UNCHANGED queueVars
      /\ player' = IF ~player[p].online THEN player ELSE [player EXCEPT ![p].reg = FALSE, ![p].invited = 0]
  BY DEF PlayerLeftQueue, history
<1>2. Head(toWorld) \in ToWorld /\ Head(toWorld).type = "left"
  BY <1>1, Delivered
<1>3. p \in Players
  BY <1>2, WorldKinds DEF Lefts
<1>4. player \in [Players -> Records] /\ old \in Records /\ 0 \in Instances \cup {0} /\ SoundPlayers(player)
  BY <1>3, PlayersAre
<1>5. [player EXCEPT ![p].reg = FALSE, ![p].invited = 0] = [player EXCEPT ![p] = r]
  BY <1>3, <1>4
<1> HIDE DEF old
<1>6. r \in Records /\ r.timers = old.timers
  BY <1>4, RegRecord
<1> HIDE DEF r, p
<1>7. SoundPlayers([player EXCEPT ![p] = r])
  BY <1>3, <1>6, OnePlayerSameTimers DEF old
<1>8. SoundPlayers(player')
  BY <1>1, <1>4, <1>5, <1>7
<1> QED
  BY <1>1, <1>8, PlayerTold

LEMMA SendKeeps ==
    ASSUME Basis, SendToBattleGround
    PROVE  Basis'
<1> DEFINE m == Head(toWorld)
           p == m.player
           at == m.inst
           going == Exists(m.inst)
           old == player[p]
           r == [old EXCEPT !.at = at, !.going = going]
<1>1. /\ Deliver("port") /\ UNCHANGED <<toQueue, bgs, used>> /\ UNCHANGED queueVars
      /\ player' = IF ~player[p].online THEN player ELSE [player EXCEPT ![p].at = at, ![p].going = going]
  BY DEF SendToBattleGround, history
<1>2. Head(toWorld) \in ToWorld /\ Head(toWorld).type = "port"
  BY <1>1, Delivered
<1>3. p \in Players /\ at \in Instances
  BY <1>2, WorldKinds DEF Ports
<1>4. player \in [Players -> Records] /\ old \in Records /\ at \in Instances \cup {0} /\ SoundPlayers(player)
  BY <1>3, PlayersAre
<1>5. going \in BOOLEAN
  BY DEF Exists
<1> HIDE DEF at, going
<1>6. [player EXCEPT ![p].at = at, ![p].going = going] = [player EXCEPT ![p] = r]
  BY <1>3, <1>4
<1> HIDE DEF old
<1>7. r \in Records /\ r.timers = old.timers
  BY <1>4, <1>5 DEF Records
<1> HIDE DEF r, p
<1>8. SoundPlayers([player EXCEPT ![p] = r])
  BY <1>3, <1>7, OnePlayerSameTimers DEF old
<1>9. SoundPlayers(player')
  BY <1>1, <1>4, <1>6, <1>8
<1> QED
  BY <1>1, <1>9, PlayerTold

LEMMA InvitedKeeps ==
    ASSUME Basis, PlayerInvited
    PROVE  Basis'
<1> DEFINE m == Head(toWorld)
           p == m.player
           old == player[p]
           inst == IF old.reg THEN m.inst ELSE old.invited
           e == [inst |-> m.inst, due |-> m.due]
           timers == Append(old.timers, e)
           r == [old EXCEPT !.invited = inst, !.timers = timers]
<1>1. /\ Deliver("invite") /\ UNCHANGED <<toQueue, bgs, used>> /\ UNCHANGED queueVars
      /\ player' = IF ~player[p].online THEN player
                   ELSE [player EXCEPT ![p].invited = IF player[p].reg THEN m.inst ELSE @,
                                       ![p].timers = Append(@, e)]
  BY DEF PlayerInvited, history
<1>2. /\ Head(toWorld) \in ToWorld /\ Head(toWorld).type = "invite" /\ toWorld[1] = Head(toWorld) /\ 1 \in 1..Len(toWorld)
  BY <1>1, Delivered
<1>3. p \in Players /\ m.inst \in Instances /\ m.due \in 1..Requests
  BY <1>2, WorldKinds DEF Invites
<1>4. m.due <= clock
  BY <1>2 DEF Basis, PastWorld
<1>5. player \in [Players -> Records] /\ old \in Records /\ m.inst \in Instances \cup {0} /\ SoundPlayers(player)
  BY <1>3, PlayersAre
<1>6. old.timers \in Seq(Events) /\ old.invited \in Instances \cup {0}
  BY <1>5, RecordIs
<1>7. e \in Events /\ e.due = m.due
  BY <1>3 DEF Events
<1>8. inst \in Instances \cup {0}
  BY <1>5, <1>6
<1> HIDE DEF e
<1>9. /\ timers \in Seq(Events) /\ Len(old.timers) \in Nat /\ Len(timers) = Len(old.timers) + 1
      /\ timers[Len(old.timers) + 1] = e /\ \A n \in 1..Len(old.timers) : timers[n] = old.timers[n]
  BY <1>6, <1>7
<1>10. [player EXCEPT ![p].invited = IF player[p].reg THEN m.inst ELSE @, ![p].timers = Append(@, e)]
       = [player EXCEPT ![p] = r]
  BY <1>3, <1>5
<1>11. \A n \in 1..Len(old.timers) : old.timers[n].due <= clock
  BY <1>3 DEF Basis, PastTimers
<1> HIDE DEF inst, timers
<1>12. \A n \in 1..Len(timers) : timers[n].due <= clock
  <2>1. \A n \in 1..Len(timers) : n = Len(old.timers) + 1 \/ n \in 1..Len(old.timers)
    BY <1>9
  <2> QED
    BY <1>4, <1>7, <1>9, <1>11, <2>1
<1> HIDE DEF old
<1>13. r \in Records /\ r.timers = timers
  BY <1>5, <1>8, <1>9 DEF Records
<1> HIDE DEF r, p
<1>14. SoundPlayers([player EXCEPT ![p] = r])
  BY <1>3, <1>12, <1>13, OnePlayer
<1>15. SoundPlayers(player')
  BY <1>1, <1>5, <1>10, <1>14
<1> QED
  BY <1>1, <1>15, PlayerTold

LEMMA ExpiredKeeps ==
    ASSUME Basis, RemoveEventExecute
    PROVE  Basis'
<1> DEFINE m == Head(toWorld)
           running == Exists(m.inst) /\ ~Ended(m.inst)
           e == [type |-> "expire", player |-> m.player, inst |-> m.inst, due |-> m.due, running |-> running]
<1>1. /\ Deliver("expired") /\ UNCHANGED <<player, bgs, used>> /\ UNCHANGED queueVars
      /\ toQueue' = IF ~player[m.player].online \/ ~player[m.player].reg THEN toQueue ELSE Append(toQueue, e)
  BY DEF RemoveEventExecute, history
<1>2. /\ Head(toWorld) \in ToWorld /\ Head(toWorld).type = "expired" /\ toWorld[1] = Head(toWorld) /\ 1 \in 1..Len(toWorld)
      /\ tick' \in 0..Len(toWorld') /\ SoundWorld(toWorld', bgs)
  BY <1>1, Delivered
<1>3. m.player \in Players /\ m.inst \in Instances /\ m.due \in 1..Requests
  BY <1>2, WorldKinds DEF Expired
<1>4. m.due <= clock
  BY <1>2 DEF Basis, PastWorld
<1>5. running \in BOOLEAN
  BY DEF Exists, Ended
<1> HIDE DEF running
<1>6. e \in ToQueue /\ e.type = "expire" /\ e.due = m.due
  BY <1>3, <1>5 DEF ToQueue, Expiries
<1> HIDE DEF e
<1>7. SoundQueue(Append(toQueue, e), Listed, used) /\ Longer(toQueue, Append(toQueue, e))
  BY <1>4, <1>6, SendOther
<1>8. SoundQueue(toQueue', Listed, used) /\ Longer(toQueue, toQueue')
  BY <1>1, <1>7, SameQueue
<1>9. Listed' = Listed
  BY <1>1 DEF Listed
<1> QED
  BY <1>1, <1>2, <1>8, <1>9, Parts, WorldStep

-----------------------------------------------------------------------------
\* The world thread: battlegrounds.

LEMMA GroundsAre ==
    ASSUME Basis, NEW i \in Instances
    PROVE  /\ bgs \in [Instances -> Grounds] /\ bgs[i] \in Grounds /\ i \in Nat
           /\ bgs[i].status = "none" => bgs[i].players = {} /\ ~bgs[i].listed
           /\ bgs[i].status # "none" => i <= lastInstance
           /\ Exists(i) <=> bgs[i].status # "none"
<1>1. bgs \in [Instances -> Grounds] /\ Born(bgs, lastInstance) /\ lastInstance \in Nat /\ i \in Nat
  BY InstancesAre DEF Basis, Typed
<1>2. bgs[i].status # "none" => ~(i > lastInstance)
  BY <1>1 DEF Born
<1>3. bgs[i].status = "none" => bgs[i].players = {} /\ ~bgs[i].listed
  BY <1>1 DEF Born
<1> QED
  BY <1>1, <1>2, <1>3 DEF Exists

LEMMA MakingStays ==
    ASSUME NEW w \in Seq(ToWorld), NEW bs, NEW bs1, NEW last, Making(w, bs, last),
           \A i \in Instances : bs[i].status = "none" => bs1[i].status = "none"
    PROVE  Making(w, bs1, last)
<1> SUFFICES ASSUME NEW n \in 1..Len(w), w[n].type = "create"
             PROVE  /\ w[n].inst <= last /\ bs1[w[n].inst].status = "none"
                    /\ \A a \in 1..Len(w) : w[a].type = "create" /\ w[a].inst = w[n].inst => a = n
  BY DEF Making
<1>1. w[n] \in ToWorld
  OBVIOUS
<1>2. w[n].inst \in Instances
  BY <1>1, WorldKinds DEF Creations
<1>3. /\ w[n].inst <= last /\ bs[w[n].inst].status = "none"
      /\ \A a \in 1..Len(w) : w[a].type = "create" /\ w[a].inst = w[n].inst => a = n
  BY DEF Making
<1> QED
  BY <1>2, <1>3

\* A battleground changes, but is not listed or taken off the list.
Sound(b) == b \in Grounds /\ (b.status = "none" => b.players = {} /\ ~b.listed)

Relisted(bs, i, listed) == \A j \in Instances : bs[j].listed = IF j = i THEN listed ELSE bgs[j].listed

LEMMA GroundChanged ==
    ASSUME Basis, NEW i \in Instances, NEW b, Sound(b), bgs[i].status # "none",
           NEW bs, bs = [bgs EXCEPT ![i] = b], NEW w, SoundWorld(w, bgs)
    PROVE  /\ SoundGrounds(bs) /\ SoundWorld(w, bs) /\ i <= lastInstance
           /\ Relisted(bs, i, b.listed)
<1>1. bgs \in [Instances -> Grounds] /\ Born(bgs, lastInstance) /\ lastInstance \in Nat
  BY DEF Basis, Typed
<1>2. i \in Nat /\ i <= lastInstance
  BY GroundsAre
<1>3. bs \in [Instances -> Grounds] /\ \A j \in Instances : bs[j] = IF j = i THEN b ELSE bgs[j]
  BY <1>1 DEF Sound
<1>4. Born(bs, lastInstance)
  <2> SUFFICES ASSUME NEW j \in Instances
               PROVE  /\ bs[j].status = "none" => bs[j].players = {} /\ ~bs[j].listed
                      /\ j > lastInstance => bs[j].status = "none"
    BY DEF Born
  <2>1. CASE j = i
    BY <1>1, <1>2, <1>3, <2>1 DEF Sound
  <2>2. CASE j # i
    BY <1>1, <1>3, <2>2 DEF Born
  <2> QED
    BY <2>1, <2>2
<1>5. w \in Seq(ToWorld) /\ PastWorld(w, clock) /\ Making(w, bgs, lastInstance)
  BY DEF SoundWorld
<1>6. \A j \in Instances : bgs[j].status = "none" => bs[j].status = "none"
  BY <1>3
<1>7. Making(w, bs, lastInstance)
  BY <1>5, <1>6, MakingStays
<1> QED
  BY <1>2, <1>3, <1>4, <1>5, <1>7 DEF SoundGrounds, SoundWorld, Relisted

LEMMA ListedStays ==
    ASSUME Basis, \A j \in Instances : bgs'[j].listed = bgs[j].listed
    PROVE  Listed' = Listed
BY DEF Listed

LEMMA GroundStep ==
    ASSUME Basis, NEW i \in Instances, NEW b, Sound(b), bgs[i].status # "none", b.listed = bgs[i].listed,
           NEW bs, bs = [bgs EXCEPT ![i] = b], bgs' = bs, NEW w, SoundWorld(w, bgs)
    PROVE  SoundGrounds(bgs') /\ SoundWorld(w, bgs') /\ Listed' = Listed
<1>1. SoundGrounds(bs) /\ SoundWorld(w, bs) /\ Relisted(bs, i, b.listed)
  BY GroundChanged
<1>2. \A j \in Instances : bgs'[j].listed = bgs[j].listed
  BY <1>1 DEF Relisted
<1> QED
  BY <1>1, <1>2, ListedStays

LEMMA CountedGround ==
    ASSUME NEW b \in Grounds, Sound(b), NEW t \in Teams, NEW count \in 0..(CountMod - 1),
           NEW b1, b1 = [b EXCEPT !.invited[t] = count]
    PROVE  Sound(b1) /\ b1.listed = b.listed /\ b1.status = b.status /\ b1.players = b.players
<1> DEFINE c == b.invited
           c1 == [c EXCEPT ![t] = count]
<1>1. c \in Counts
  BY DEF Grounds
<1>2. c1 \in Counts
  BY <1>1 DEF Counts
<1>3. b1 = [b EXCEPT !.invited = c1]
  OBVIOUS
<1> HIDE DEF c1
<1>4. b1 \in Grounds /\ b1.listed = b.listed /\ b1.status = b.status /\ b1.players = b.players
  BY <1>2, <1>3 DEF Grounds
<1> QED
  BY <1>4 DEF Sound

LEMMA SetCountKeeps ==
    ASSUME Basis, SetInvitedCount
    PROVE  Basis'
<1> DEFINE m == Head(toWorld)
           i == m.inst
           old == bgs[i]
           b == [old EXCEPT !.invited[m.team] = m.count]
<1>1. /\ Deliver("invited") /\ UNCHANGED <<toQueue, player, used>> /\ UNCHANGED queueVars
      /\ bgs' = IF Exists(i) THEN [bgs EXCEPT ![i].invited[m.team] = m.count] ELSE bgs
  BY DEF SetInvitedCount, history
<1>2. Head(toWorld) \in ToWorld /\ Head(toWorld).type = "invited" /\ tick' \in 0..Len(toWorld') /\ SoundWorld(toWorld', bgs)
  BY <1>1, Delivered
<1>3. i \in Instances /\ m.team \in Teams /\ m.count \in 0..(CountMod - 1)
  BY <1>2, WorldKinds DEF NewCounts
<1>4. /\ bgs \in [Instances -> Grounds] /\ old \in Grounds /\ (Exists(i) <=> old.status # "none")
      /\ old.status = "none" => old.players = {} /\ ~old.listed
  BY <1>3, GroundsAre
<1>5. [bgs EXCEPT ![i].invited[m.team] = m.count] = [bgs EXCEPT ![i] = b]
  BY <1>3, <1>4
<1>6. Sound(old)
  BY <1>4 DEF Sound
<1>7. SoundGrounds(bgs') /\ SoundWorld(toWorld', bgs') /\ Listed' = Listed
  <2>1. CASE ~Exists(i)
    <3>1. bgs' = bgs
      BY <1>1, <2>1
    <3> QED
      BY <1>2, <3>1, Parts DEF Listed
  <2>2. CASE Exists(i)
    <3>1. bgs' = [bgs EXCEPT ![i] = b]
      BY <1>1, <1>5, <2>2
    <3> HIDE DEF old, i, m
    <3>2. Sound(b) /\ b.listed = old.listed
      BY <1>3, <1>4, <1>6, CountedGround DEF m
    <3>3. bgs[i].status # "none" /\ b.listed = bgs[i].listed
      BY <1>4, <2>2, <3>2 DEF old
    <3> HIDE DEF b
    <3> QED
      BY <1>2, <1>3, <3>1, <3>2, <3>3, GroundStep
  <2> QED
    BY <2>1, <2>2
<1> QED
  BY <1>1, <1>2, <1>7, Parts, SameQueue, WorldStep

LEMMA NoBgIs == NoBg \in Grounds /\ Sound(NoBg) /\ ~NoBg.listed
<1>1. 0 \in 0..(CountMod - 1)
  BY Numbers
<1>2. [t \in Teams |-> 0] \in Counts
  BY <1>1 DEF Counts
<1>3. NoBg \in Grounds
  BY <1>2 DEF NoBg, Grounds, Statuses
<1> QED
  BY <1>3 DEF Sound, NoBg

LEMMA CreateKeeps ==
    ASSUME Basis, CreateNewBattleGround
    PROVE  Basis'
<1> DEFINE m == Head(toWorld)
           i == m.inst
           b == [NoBg EXCEPT !.status = "join", !.invited = m.invited]
           bs == [bgs EXCEPT ![i] = b]
           told == StatusMessage(i, "join")
<1>1. /\ Deliver("create") /\ UNCHANGED <<player, used>> /\ UNCHANGED queueVars
      /\ bgs' = bs /\ toQueue' = Append(toQueue, told)
  BY DEF CreateNewBattleGround, history
<1>2. /\ Head(toWorld) \in ToWorld /\ Head(toWorld).type = "create" /\ toWorld[1] = Head(toWorld) /\ 1 \in 1..Len(toWorld)
      /\ tick' \in 0..Len(toWorld') /\ SoundWorld(toWorld', bgs) /\ toWorld' = Tail(toWorld) /\ toWorld # <<>>
  BY <1>1, Delivered
<1>3. m \in Creations
  BY <1>2, WorldKinds
<1>4. i \in Instances /\ m.invited \in Counts
  BY <1>3 DEF Creations
<1>5. /\ i <= lastInstance /\ bgs[i].status = "none"
      /\ \A a \in 1..Len(toWorld) : toWorld[a].type = "create" /\ toWorld[a].inst = i => a = 1
  BY <1>2 DEF Basis, Making
<1>6. bgs \in [Instances -> Grounds] /\ ~bgs[i].listed /\ Born(bgs, lastInstance) /\ lastInstance \in Nat /\ i \in Nat
  BY <1>4, <1>5, GroundsAre DEF Basis, Typed
<1>7. b \in Grounds /\ b.status = "join" /\ ~b.listed
  BY <1>4, NoBgIs DEF Grounds, Statuses
<1>8. told \in ToQueue /\ told.type = "status"
  BY <1>4 DEF StatusMessage, ToQueue, NewStatuses, Statuses
<1> HIDE DEF told, b
<1>9. bs \in [Instances -> Grounds] /\ \A j \in Instances : bs[j] = IF j = i THEN b ELSE bgs[j]
  BY <1>4, <1>6, <1>7
<1>10. Born(bs, lastInstance)
  <2> SUFFICES ASSUME NEW j \in Instances
               PROVE  /\ bs[j].status = "none" => bs[j].players = {} /\ ~bs[j].listed
                      /\ j > lastInstance => bs[j].status = "none"
    BY DEF Born
  <2>1. CASE j = i
    BY <1>5, <1>6, <1>7, <1>9, <2>1
  <2>2. CASE j # i
    BY <1>6, <1>9, <2>2 DEF Born
  <2> QED
    BY <2>1, <2>2
<1>11. SoundGrounds(bs)
  BY <1>9, <1>10 DEF SoundGrounds
<1>12. toWorld' \in Seq(ToWorld) /\ PastWorld(toWorld', clock) /\ Making(toWorld', bgs, lastInstance)
  BY <1>2 DEF SoundWorld
<1>13. \A k \in 1..Len(Tail(toWorld)) : k + 1 \in 1..Len(toWorld) /\ Tail(toWorld)[k] = toWorld[k + 1]
  <2>1. toWorld \in Seq(ToWorld)
    BY DEF Basis, Typed
  <2> QED
    BY <1>2, <2>1, TailIs
<1>14. Making(toWorld', bs, lastInstance)
  <2> SUFFICES ASSUME NEW n \in 1..Len(toWorld'), toWorld'[n].type = "create"
               PROVE  /\ toWorld'[n].inst <= lastInstance /\ bs[toWorld'[n].inst].status = "none"
                      /\ \A a \in 1..Len(toWorld') : toWorld'[a].type = "create" /\ toWorld'[a].inst = toWorld'[n].inst => a = n
    BY DEF Making
  <2>1. n + 1 \in 1..Len(toWorld) /\ toWorld'[n] = toWorld[n + 1] /\ n + 1 # 1
    BY <1>2, <1>13
  <2>2. toWorld'[n].inst # i
    BY <1>5, <2>1
  <2>3. toWorld'[n] \in ToWorld
    BY <1>12
  <2>4. toWorld'[n].inst \in Instances
    BY <2>3, WorldKinds DEF Creations
  <2>5. /\ toWorld'[n].inst <= lastInstance /\ bgs[toWorld'[n].inst].status = "none"
        /\ \A a \in 1..Len(toWorld') : toWorld'[a].type = "create" /\ toWorld'[a].inst = toWorld'[n].inst => a = n
    BY <1>12 DEF Making
  <2> QED
    BY <1>9, <2>2, <2>4, <2>5
<1>15. SoundWorld(toWorld', bs)
  BY <1>12, <1>14 DEF SoundWorld
<1>16. Listed' = Listed
  <2>1. \A j \in Instances : bgs'[j].listed = bgs[j].listed
    BY <1>1, <1>6, <1>7, <1>9, GroundsAre DEF Grounds
  <2> QED
    BY <2>1, ListedStays
<1>17. SoundQueue(Append(toQueue, told), Listed, used) /\ Longer(toQueue, Append(toQueue, told))
  BY <1>8, SendOther
<1>18. /\ SoundQueue(toQueue', Listed', used') /\ Longer(toQueue, toQueue') /\ SoundWorld(toWorld', bgs')
       /\ SoundGrounds(bgs') /\ SoundPlayers(player') /\ used' \in Uses
  BY <1>1, <1>11, <1>15, <1>16, <1>17, Parts
<1> QED
  BY <1>1, <1>2, <1>18, WorldStep

LEMMA LocalTick ==
    ASSUME Basis, InTick
    PROVE  tick' = tick /\ tick' \in 0..Len(toWorld) /\ SoundWorld(toWorld, bgs)
BY Parts DEF InTick

LEMMA StartMatchKeeps ==
    ASSUME Basis, NEW i \in Instances, StartMatch(i)
    PROVE  Basis'
<1> DEFINE old == bgs[i]
           b == [old EXCEPT !.status = "progress"]
           told == StatusMessage(i, "progress")
<1>1. /\ InTick /\ old.status = "join" /\ bgs' = [bgs EXCEPT ![i].status = "progress"]
      /\ toQueue' = Append(toQueue, told) /\ UNCHANGED <<toWorld, player, used>> /\ UNCHANGED queueVars
  BY DEF StartMatch, history
<1>2. bgs \in [Instances -> Grounds] /\ old \in Grounds
  BY GroundsAre
<1>3. bgs' = [bgs EXCEPT ![i] = b]
  BY <1>1, <1>2
<1>4. told \in ToQueue /\ told.type = "status"
  BY DEF StatusMessage, ToQueue, NewStatuses, Statuses
<1>5. b \in Grounds /\ b.status = "progress" /\ b.listed = bgs[i].listed
  BY <1>2 DEF Grounds, Statuses
<1>6. Sound(b) /\ bgs[i].status # "none"
  BY <1>1, <1>5 DEF Sound
<1> HIDE DEF told, b
<1>7. tick' \in 0..Len(toWorld) /\ SoundWorld(toWorld, bgs)
  BY <1>1, LocalTick
<1>8. SoundGrounds(bgs') /\ SoundWorld(toWorld, bgs') /\ Listed' = Listed
  BY <1>3, <1>5, <1>6, <1>7, GroundStep
<1>9. SoundQueue(Append(toQueue, told), Listed, used) /\ Longer(toQueue, Append(toQueue, told))
  BY <1>4, SendOther
<1> QED
  BY <1>1, <1>7, <1>8, <1>9, Parts, WorldStep

LEMMA ArriveKeeps ==
    ASSUME Basis, NEW p \in Players, Arrive(p)
    PROVE  Basis'
<1> DEFINE i == player[p].at
           old == player[p]
           at == IF Exists(i) THEN i ELSE 0
           r == [old EXCEPT !.going = FALSE, !.at = at]
           ground == bgs[i]
           b == [ground EXCEPT !.players = @ \cup {p}]
<1>1. /\ InTick /\ player' = [player EXCEPT ![p].going = FALSE, ![p].at = IF Exists(@) THEN @ ELSE 0]
      /\ bgs' = IF Exists(i) /\ player[p].invited = i THEN [bgs EXCEPT ![i].players = @ \cup {p}] ELSE bgs
      /\ UNCHANGED <<toQueue, toWorld, used>> /\ UNCHANGED queueVars
  BY DEF Arrive, history
<1>2. player \in [Players -> Records] /\ old \in Records /\ 0 \in Instances \cup {0}
  BY PlayersAre
<1>3. at \in Instances \cup {0}
  BY <1>2 DEF Records
<1>4. player' = [player EXCEPT ![p] = r]
  BY <1>1, <1>2
<1> HIDE DEF at
<1>5. r \in Records /\ r.timers = player[p].timers
  <2> HIDE DEF old
  <2>1. r \in Records /\ r.timers = old.timers
    BY <1>2, <1>3 DEF Records
  <2> QED
    BY <2>1 DEF old
<1> HIDE DEF r
<1>6. SoundPlayers(player')
  BY <1>4, <1>5, OnePlayerSameTimers
<1>7. tick' \in 0..Len(toWorld) /\ SoundWorld(toWorld, bgs)
  BY <1>1, LocalTick
<1>8. SoundGrounds(bgs') /\ SoundWorld(toWorld, bgs') /\ Listed' = Listed
  <2>1. CASE bgs' = bgs
    BY <1>7, <2>1, Parts DEF Listed
  <2>2. CASE Exists(i) /\ bgs' = [bgs EXCEPT ![i].players = @ \cup {p}]
    <3>1. i \in Instances /\ ground.status # "none"
      BY <2>2 DEF Exists
    <3>2. bgs \in [Instances -> Grounds] /\ ground \in Grounds
      BY <3>1, GroundsAre
    <3>3. bgs' = [bgs EXCEPT ![i] = b]
      BY <2>2, <3>1, <3>2
    <3>4. b \in Grounds /\ b.status = ground.status /\ b.listed = bgs[i].listed
      BY <3>2 DEF Grounds
    <3>5. Sound(b)
      BY <3>1, <3>4 DEF Sound
    <3> HIDE DEF b, i
    <3> QED
      BY <1>7, <3>1, <3>3, <3>4, <3>5, GroundStep
  <2> QED
    BY <1>1, <2>1, <2>2
<1> QED
  BY <1>1, <1>6, <1>7, <1>8, Parts, SameQueue, WorldStep

ListedIn(bs) == [j \in Instances |-> bs[j].listed]

LEMMA ListedInIs ==
    /\ \A bs : \A j \in Instances : ListedIn(bs)[j] = bs[j].listed
    /\ ListedIn(bgs) = Listed /\ Listed' = ListedIn(bgs')
BY DEF ListedIn, Listed

\* The battleground is taken off the list when it is on it.
LEMMA Unlisted ==
    ASSUME Basis, NEW i \in Instances, NEW bs, Relisted(bs, i, FALSE), NEW q, q = toQueue \o Unlist(i)
    PROVE  SoundQueue(q, ListedIn(bs), used) /\ Longer(toQueue, q)
<1>1. \A j \in Instances : Listed[j] = bgs[j].listed /\ Listed[j] \in BOOLEAN /\ (Listed[j] => j <= lastInstance)
  BY ListedIs
<1>2. \A j \in Instances : ListedIn(bs)[j] = IF j = i THEN FALSE ELSE Listed[j]
  BY <1>1, ListedInIs DEF Relisted
<1>3. SoundQueue(toQueue, Listed, used) /\ used \in Uses /\ toQueue \in Seq(ToQueue)
  BY Parts DEF SoundQueue
<1>4. CASE bgs[i].listed
  <2> DEFINE m == [type |-> "remove", inst |-> i]
             l1 == ListedIn(bs)
  <2>1. m \in ToQueue /\ m.type = "remove" /\ m.inst = i
    BY DEF ToQueue, Removes
  <2>2. q = toQueue \o <<m>>
    BY <1>4 DEF Unlist
  <2> HIDE DEF m
  <2>3. q = Append(toQueue, m)
    BY <1>3, <2>1, <2>2, AppendedOne
  <2>4. \A j \in Instances : l1[j] \in BOOLEAN /\ Switches(Listed[j], l1[j], m, j) /\ (l1[j] => j <= lastInstance)
    <3> SUFFICES ASSUME NEW j \in Instances
                 PROVE  l1[j] \in BOOLEAN /\ Switches(Listed[j], l1[j], m, j) /\ (l1[j] => j <= lastInstance)
      OBVIOUS
    <3>1. ~Adding(m, j) /\ (Removing(m, j) <=> j = i)
      BY <2>1 DEF Adding, Removing
    <3> QED
      BY <1>1, <1>2, <1>4, <3>1 DEF Switches
  <2> HIDE DEF l1
  <2>5. SoundQueue(Append(toQueue, m), l1, used) /\ Longer(toQueue, Append(toQueue, m))
    BY <1>3, <2>1, <2>4, SendQueue
  <2> QED
    BY <2>3, <2>5 DEF l1
<1>5. CASE ~bgs[i].listed
  <2>1. q = toQueue
    BY <1>3, <1>5 DEF Unlist
  <2>2. \A j \in Instances : ListedIn(bs)[j] = Listed[j]
    BY <1>1, <1>2, <1>5
  <2>3. ListedIn(bs) = Listed
    BY <2>2 DEF ListedIn, Listed
  <2> QED
    BY <2>1, <2>3, SameQueue
<1> QED
  BY <1>4, <1>5

LEMMA EndKeeps ==
    ASSUME Basis, NEW i \in Instances, EndBattleGround(i)
    PROVE  Basis'
<1> DEFINE old == bgs[i]
           b == [old EXCEPT !.listed = FALSE, !.status = "leave"]
           told == StatusMessage(i, "leave")
           q == toQueue \o Unlist(i)
<1>1. /\ InTick /\ old.status = "progress" /\ bgs' = [bgs EXCEPT ![i].listed = FALSE, ![i].status = "leave"]
      /\ toQueue' = Append(q, told) /\ UNCHANGED <<toWorld, player, used>> /\ UNCHANGED queueVars
  BY DEF EndBattleGround, history
<1>2. bgs \in [Instances -> Grounds] /\ old \in Grounds
  BY GroundsAre
<1>3. bgs' = [bgs EXCEPT ![i] = b]
  BY <1>1, <1>2
<1>4. told \in ToQueue /\ told.type = "status"
  BY DEF StatusMessage, ToQueue, NewStatuses, Statuses
<1>5. b \in Grounds /\ b.status = "leave" /\ ~b.listed /\ b.listed \in BOOLEAN
  BY <1>2 DEF Grounds, Statuses
<1>6. Sound(b) /\ bgs[i].status # "none"
  BY <1>1, <1>5 DEF Sound
<1> HIDE DEF told, b, q
<1>7. tick' \in 0..Len(toWorld) /\ SoundWorld(toWorld, bgs)
  BY <1>1, LocalTick
<1>8. SoundGrounds(bgs') /\ SoundWorld(toWorld, bgs') /\ Relisted(bgs', i, b.listed)
  BY <1>3, <1>6, <1>7, GroundChanged
<1>9. Relisted(bgs', i, FALSE)
  BY <1>5, <1>8 DEF Relisted
<1> DEFINE l == ListedIn(bgs')
<1>10. SoundQueue(q, l, used) /\ Longer(toQueue, q)
  BY <1>9, Unlisted DEF q
<1>11. \A j \in Instances : l[j] \in BOOLEAN /\ Switches(l[j], l[j], told, j) /\ (l[j] => j <= lastInstance)
  <2> SUFFICES ASSUME NEW j \in Instances PROVE l[j] \in BOOLEAN /\ Switches(l[j], l[j], told, j) /\ (l[j] => j <= lastInstance)
    OBVIOUS
  <2>1. l[j] = IF j = i THEN FALSE ELSE bgs[j].listed
    BY <1>9, ListedInIs DEF Relisted
  <2>2. Listed[j] = bgs[j].listed /\ Listed[j] \in BOOLEAN /\ (Listed[j] => j <= lastInstance)
    BY ListedIs
  <2>3. Switches(l[j], l[j], told, j)
    BY <1>4, SameListing
  <2> QED
    BY <2>1, <2>2, <2>3
<1> HIDE DEF l
<1>12. SoundQueue(Append(q, told), l, used) /\ Longer(q, Append(q, told))
  BY <1>4, <1>10, <1>11, Parts, SendQueue
<1>13. Longer(toQueue, toQueue')
  <2>1. toQueue \in Seq(ToQueue) /\ q \in Seq(ToQueue) /\ toQueue' \in Seq(ToQueue)
    BY <1>1, <1>10, <1>12, Parts DEF SoundQueue
  <2>2. Len(toQueue) \in Nat /\ Len(q) \in Nat /\ Len(toQueue') \in Nat
    BY <2>1
  <2> QED
    BY <1>1, <1>10, <1>12, <2>2 DEF Longer
<1>14. SoundQueue(toQueue', Listed', used')
  BY <1>1, <1>12, ListedInIs DEF l
<1> QED
  BY <1>1, <1>7, <1>8, <1>13, <1>14, Parts, WorldStep

LEMMA RemoveGroundKeeps ==
    ASSUME Basis, NEW i \in Instances, RemoveBattleGround(i)
    PROVE  Basis'
<1>1. /\ InTick /\ Exists(i) /\ bgs' = [bgs EXCEPT ![i] = NoBg]
      /\ toQueue' = toQueue \o Unlist(i) /\ UNCHANGED <<toWorld, player, used>> /\ UNCHANGED queueVars
  BY DEF RemoveBattleGround
<1>2. bgs[i].status # "none"
  BY <1>1 DEF Exists
<1>3. tick' \in 0..Len(toWorld) /\ SoundWorld(toWorld, bgs)
  BY <1>1, LocalTick
<1>4. SoundGrounds(bgs') /\ SoundWorld(toWorld, bgs') /\ Relisted(bgs', i, NoBg.listed)
  BY <1>1, <1>2, <1>3, NoBgIs, GroundChanged
<1>5. Relisted(bgs', i, FALSE)
  BY <1>4 DEF Relisted, NoBg
<1>6. SoundQueue(toQueue', ListedIn(bgs'), used) /\ Longer(toQueue, toQueue')
  BY <1>1, <1>5, Unlisted
<1>7. SoundQueue(toQueue', Listed', used')
  BY <1>1, <1>6, ListedInIs
<1> QED
  BY <1>1, <1>3, <1>4, <1>6, <1>7, Parts, WorldStep

LEMMA LongerTwice ==
    ASSUME NEW q, NEW q1, NEW q2, Len(q) \in Nat, Len(q1) \in Nat, Len(q2) \in Nat, Longer(q, q1), Longer(q1, q2)
    PROVE  Longer(q, q2)
BY DEF Longer

LEMMA SoundLength ==
    ASSUME NEW q, NEW l, NEW u, SoundQueue(q, l, u)
    PROVE  Len(q) \in Nat /\ q \in Seq(ToQueue)
BY DEF SoundQueue

LEMMA AppendedTwo ==
    ASSUME NEW R, NEW q \in Seq(R), NEW m \in R, NEW x \in R
    PROVE  q \o <<m, x>> = Append(Append(q, m), x)
<1> DEFINE a == q \o <<m, x>>
           b == Append(Append(q, m), x)
<1>1. a \in Seq(R) /\ Len(a) = Len(q) + 2 /\ Len(q) \in Nat /\ a[Len(q) + 1] = m /\ a[Len(q) + 2] = x
      /\ \A k \in 1..Len(q) : a[k] = q[k]
  OBVIOUS
<1>2. b \in Seq(R) /\ Len(b) = Len(q) + 2 /\ b[Len(q) + 1] = m /\ b[Len(q) + 2] = x
      /\ \A k \in 1..Len(q) : b[k] = q[k]
  OBVIOUS
<1>3. \A k \in 1..Len(a) : k \in 1..Len(q) \/ k = Len(q) + 1 \/ k = Len(q) + 2
  BY <1>1
<1> HIDE DEF a, b
<1>4. a = b
  BY <1>1, <1>2, <1>3, SameSeq
<1> QED
  BY <1>4 DEF a, b

\* The player's place is given back.
LEMMA VacatedGround ==
    ASSUME NEW b \in Grounds, NEW p, NEW t \in Teams,
           NEW b1, b1 = [b EXCEPT !.players = @ \ {p}, !.offline = @ \ {p}, !.invited[t] = Less(@)]
    PROVE  /\ b1 \in Grounds /\ b1.listed = b.listed /\ b1.status = b.status /\ b1.invited \in Counts
           /\ b.listed \in BOOLEAN /\ b.status \in Statuses
<1> DEFINE count == Less(b.invited[t])
           c == [b.invited EXCEPT ![t] = count]
<1>1. b.invited \in Counts /\ b.players \subseteq Players /\ b.offline \subseteq Players /\ b.listed \in BOOLEAN /\ b.status \in Statuses
  BY DEF Grounds
<1>2. b.invited[t] \in Int /\ CountMod \in Nat /\ CountMod > 1
  BY <1>1, Numbers DEF Counts
<1>3. count \in 0..(CountMod - 1)
  <2> DEFINE x == b.invited[t]
  <2>1. x \in Int
    BY <1>2
  <2> HIDE DEF x
  <2>2. (x - 1) % CountMod \in 0..(CountMod - 1)
    BY <1>2, <2>1
  <2> QED
    BY <2>2 DEF x, Less
<1>4. b1 = [b EXCEPT !.players = b.players \ {p}, !.offline = b.offline \ {p}, !.invited = c]
  OBVIOUS
<1> HIDE DEF count
<1>5. c \in Counts
  BY <1>1, <1>3 DEF Counts
<1> HIDE DEF c
<1> QED
  BY <1>1, <1>4, <1>5 DEF Grounds

LEMMA VacateIs ==
    ASSUME Basis, NEW p \in Players, NEW i \in Instances, bgs[i].status # "none", Vacate(p, i)
    PROVE  /\ SoundGrounds(bgs') /\ SoundWorld(toWorld, bgs') /\ SoundQueue(toQueue', Listed', used)
           /\ Longer(toQueue, toQueue') /\ used' = used
<1> DEFINE t == TeamOf[p]
           old == bgs[i]
           bg == [old EXCEPT !.players = @ \ {p}, !.offline = @ \ {p}, !.invited[t] = Less(@)]
           b == [bg EXCEPT !.listed = @ \/ ~Ended(i)]
           e == [inst |-> i, status |-> bg.status, invited |-> bg.invited]
           decrease == [type |-> "decrease", inst |-> i, team |-> t]
           add == [type |-> "add", entry |-> e]
           m == IF bg.listed THEN decrease ELSE add
           x == [type |-> "schedule"]
<1>1. /\ bgs' = [bgs EXCEPT ![i] = b] /\ used' = used
      /\ toQueue' = toQueue \o (IF Ended(i) THEN <<>> ELSE <<m, x>>)
  BY DEF Vacate
<1>2. bgs \in [Instances -> Grounds] /\ old \in Grounds /\ i <= lastInstance /\ t \in Teams
  BY GroundsAre, QueueAssumption
<1>3. /\ bg \in Grounds /\ bg.listed = old.listed /\ bg.status = old.status /\ bg.invited \in Counts
      /\ old.listed \in BOOLEAN /\ old.status \in Statuses
  <2> HIDE DEF old, t
  <2> QED
    BY <1>2, VacatedGround
<1>4. Ended(i) \in BOOLEAN
  BY DEF Ended
<1>5. /\ e \in Entries /\ e.inst = i
  BY <1>3 DEF Entries
<1> HIDE DEF e, bg
<1>6. b \in Grounds /\ b.listed = (old.listed \/ ~Ended(i)) /\ b.status = old.status
  <2> DEFINE x1 == bg.listed \/ ~Ended(i)
  <2>1. x1 \in BOOLEAN
    BY <1>3, <1>4
  <2>2. b = [bg EXCEPT !.listed = x1]
    OBVIOUS
  <2> HIDE DEF x1
  <2>3. b \in Grounds /\ b.listed = x1 /\ b.status = bg.status
    BY <1>3, <2>1, <2>2 DEF Grounds
  <2> QED
    BY <1>3, <2>3 DEF x1
<1>7. Sound(b)
  BY <1>6 DEF Sound
<1> HIDE DEF b
<1>8. SoundWorld(toWorld, bgs)
  BY Parts
<1>9. SoundGrounds(bgs') /\ SoundWorld(toWorld, bgs') /\ Relisted(bgs', i, b.listed)
  BY <1>1, <1>7, <1>8, GroundChanged
<1> DEFINE l == ListedIn(bgs')
<1>10. \A j \in Instances : l[j] = IF j = i THEN b.listed ELSE Listed[j]
  BY <1>9, ListedInIs, ListedIs DEF Relisted
<1>11. \A j \in Instances : Listed[j] \in BOOLEAN /\ (Listed[j] => j <= lastInstance) /\ Listed[j] = bgs[j].listed
  BY ListedIs
<1>12. \A j \in Instances : l[j] \in BOOLEAN /\ (l[j] => j <= lastInstance)
  <2>1. b.listed \in BOOLEAN
    BY <1>3, <1>4, <1>6
  <2> HIDE DEF l
  <2> QED
    BY <1>2, <1>10, <1>11, <2>1
<1>13. SoundQueue(toQueue, Listed, used) /\ used \in Uses /\ toQueue \in Seq(ToQueue)
  BY Parts DEF SoundQueue
<1>14. CASE Ended(i)
  <2>1. toQueue' = toQueue
    BY <1>1, <1>13, <1>14
  <2>2. \A j \in Instances : l[j] = Listed[j]
    <3> HIDE DEF l
    <3> QED
      BY <1>6, <1>10, <1>11, <1>14
  <2>3. l = Listed
    BY <2>2 DEF ListedIn, Listed
  <2> QED
    BY <1>1, <1>9, <2>1, <2>3, ListedInIs, SameQueue
<1>15. CASE ~Ended(i)
  <2>1. decrease \in ToQueue /\ add \in ToQueue /\ x \in ToQueue
    BY <1>2, <1>5 DEF ToQueue, Decreases, Adds, Schedules
  <2>2. m \in ToQueue /\ x \in ToQueue
    BY <2>1
  <2>3. /\ m.type \notin {"join", "expire", "remove"} /\ (m.type = "add" => m.entry.inst <= lastInstance)
        /\ \A j : Adding(m, j) <=> (~old.listed /\ j = i)
        /\ \A j : ~Removing(m, j)
    BY <1>2, <1>3, <1>5 DEF Adding, Removing
  <2>4. x.type = "schedule"
    OBVIOUS
  <2>5. toQueue' = toQueue \o <<m, x>>
    BY <1>1, <1>15
  <2>6. b.listed = TRUE
    BY <1>6, <1>15
  <2> HIDE DEF m, x, l
  <2>7. toQueue' = Append(Append(toQueue, m), x)
    BY <1>13, <2>2, <2>5, AppendedTwo
  <2>8. \A j \in Instances : l[j] \in BOOLEAN /\ Switches(Listed[j], l[j], m, j) /\ (l[j] => j <= lastInstance)
    <3> SUFFICES ASSUME NEW j \in Instances PROVE Switches(Listed[j], l[j], m, j)
      BY <1>12
    <3>1. /\ Adding(m, j) <=> (~old.listed /\ j = i)
          /\ ~Removing(m, j)
      BY <2>3
    <3>2. l[j] = IF j = i THEN TRUE ELSE Listed[j]
      BY <1>10, <2>6
    <3>3. Listed[j] \in BOOLEAN /\ (j = i => Listed[j] = old.listed)
      BY <1>11
    <3> QED
      BY <3>1, <3>2, <3>3 DEF Switches
  <2> DEFINE q == Append(toQueue, m)
  <2>9. SoundQueue(q, l, used) /\ Longer(toQueue, q)
    BY <1>13, <2>2, <2>3, <2>8, SendQueue
  <2> HIDE DEF q
  <2>10. \A j \in Instances : l[j] \in BOOLEAN /\ Switches(l[j], l[j], x, j) /\ (l[j] => j <= lastInstance)
    BY <1>12, <2>4, SameListing
  <2>11. SoundQueue(Append(q, x), l, used) /\ Longer(q, Append(q, x))
    BY <1>13, <2>2, <2>4, <2>9, <2>10, SendQueue
  <2>12. SoundQueue(toQueue', l, used) /\ Longer(q, toQueue')
    BY <2>7, <2>11 DEF q
  <2>13. Longer(toQueue, toQueue')
    BY <1>13, <2>9, <2>12, SoundLength, LongerTwice
  <2> QED
    BY <1>1, <1>9, <2>12, <2>13, ListedInIs DEF l
<1> QED
  BY <1>4, <1>14, <1>15

-----------------------------------------------------------------------------
\* The world thread: players come and go.

LEMMA LeaveKeeps ==
    ASSUME Basis, NEW p \in Players, NEW i \in Instances, RemovePlayerAtLeave(p, i)
    PROVE  Basis'
<1> DEFINE old == player[p]
           r == [old EXCEPT !.reg = FALSE, !.invited = 0, !.at = 0]
<1>1. /\ InTick /\ p \in bgs[i].players /\ Vacate(p, i) /\ UNCHANGED toWorld /\ UNCHANGED queueVars
      /\ player' = IF ~player[p].online THEN player
                   ELSE [player EXCEPT ![p].reg = FALSE, ![p].invited = 0, ![p].at = 0]
  BY DEF RemovePlayerAtLeave
<1>2. bgs[i].status # "none"
  BY <1>1, GroundsAre
<1>3. /\ SoundGrounds(bgs') /\ SoundWorld(toWorld, bgs') /\ SoundQueue(toQueue', Listed', used)
      /\ Longer(toQueue, toQueue') /\ used' = used
  BY <1>1, <1>2, VacateIs
<1>4. player \in [Players -> Records] /\ old \in Records /\ 0 \in Instances \cup {0} /\ SoundPlayers(player)
  BY PlayersAre
<1>5. [player EXCEPT ![p].reg = FALSE, ![p].invited = 0, ![p].at = 0] = [player EXCEPT ![p] = r]
  BY <1>4
<1> HIDE DEF old
<1>6. r \in Records /\ r.timers = old.timers
  BY <1>4 DEF Records
<1> HIDE DEF r
<1>7. SoundPlayers([player EXCEPT ![p] = r])
  BY <1>6, OnePlayerSameTimers DEF old
<1>8. SoundPlayers(player')
  BY <1>1, <1>4, <1>5, <1>7
<1>9. tick' \in 0..Len(toWorld)
  BY <1>1, LocalTick
<1> QED
  BY <1>1, <1>3, <1>8, <1>9, Parts, WorldStep

LEMMA NewPlayer ==
    ASSUME NEW at \in Instances \cup {0}
    PROVE  /\ [NoPlayer EXCEPT !.at = at] \in Records /\ [NoPlayer EXCEPT !.at = at].timers = <<>>
           /\ [NoPlayer EXCEPT !.online = TRUE] \in Records /\ [NoPlayer EXCEPT !.online = TRUE].timers = <<>>
<1>1. <<>> \in Seq(Events) /\ 0 \in Instances \cup {0}
  OBVIOUS
<1> DEFINE none == <<>>
<1>2. none \in Seq(Events)
  BY <1>1
<1>3. NoPlayer = [online |-> FALSE, reg |-> FALSE, invited |-> 0, at |-> 0, going |-> FALSE, timers |-> none]
  BY DEF NoPlayer
<1> HIDE DEF none
<1>4. NoPlayer \in Records /\ NoPlayer.timers = none
  BY <1>1, <1>2, <1>3 DEF Records
<1>5. /\ [NoPlayer EXCEPT !.at = at] \in Records /\ [NoPlayer EXCEPT !.at = at].timers = none
      /\ [NoPlayer EXCEPT !.online = TRUE] \in Records /\ [NoPlayer EXCEPT !.online = TRUE].timers = none
  BY <1>4 DEF Records
<1> QED
  BY <1>5 DEF none

LEMMA NobodysTimers ==
    ASSUME Basis, NEW p \in Players, NEW r \in Records, r.timers = <<>>, NEW pl, pl = [player EXCEPT ![p] = r]
    PROVE  SoundPlayers(pl)
<1>1. \A n \in 1..Len(r.timers) : r.timers[n].due <= clock
  OBVIOUS
<1> QED
  BY <1>1, OnePlayer

LEMMA LoadKeeps ==
    ASSUME Basis, NEW p \in Players, LoadFromDB(p)
    PROVE  Basis'
<1> DEFINE i == player[p].at
           there == Exists(i) /\ p \in bgs[i].players
           old == player[p]
           back == [old EXCEPT !.online = TRUE, !.reg = TRUE, !.invited = i]
           fresh == [NoPlayer EXCEPT !.online = TRUE]
           ground == bgs[i]
           b == [ground EXCEPT !.offline = @ \ {p}]
<1>1. /\ InTick /\ UNCHANGED toWorld /\ UNCHANGED queueVars
      /\ \/ /\ there /\ bgs' = [bgs EXCEPT ![i].offline = @ \ {p}]
            /\ player' = [player EXCEPT ![p] = back] /\ UNCHANGED <<toQueue, used>>
         \/ there /\ Vacate(p, i) /\ player' = [player EXCEPT ![p] = fresh]
         \/ player' = [player EXCEPT ![p] = fresh] /\ UNCHANGED <<toQueue, bgs, used>>
  BY DEF LoadFromDB, history
<1>2. player \in [Players -> Records] /\ old \in Records
  BY PlayersAre
<1>3. i \in Instances \cup {0}
  BY <1>2 DEF Records
<1>4. there => i \in Instances /\ ground.status # "none"
  BY DEF Exists
<1>5. tick' \in 0..Len(toWorld) /\ SoundWorld(toWorld, bgs)
  BY <1>1, LocalTick
<1>6. fresh \in Records /\ fresh.timers = <<>>
  BY <1>3, NewPlayer
<1> HIDE DEF fresh
<1>7. SoundPlayers([player EXCEPT ![p] = fresh])
  BY <1>6, NobodysTimers
<1>8. CASE there /\ bgs' = [bgs EXCEPT ![i].offline = @ \ {p}] /\ player' = [player EXCEPT ![p] = back] /\ UNCHANGED <<toQueue, used>>
  <2>1. back \in Records /\ back.timers = player[p].timers
    <3> HIDE DEF i, old
    <3>1. back \in Records /\ back.timers = old.timers
      BY <1>2, <1>3 DEF Records
    <3> QED
      BY <3>1 DEF old
  <2> HIDE DEF back
  <2>2. SoundPlayers(player')
    BY <1>8, <2>1, OnePlayerSameTimers
  <2>3. bgs \in [Instances -> Grounds] /\ ground \in Grounds
    BY <1>4, <1>8, GroundsAre
  <2>4. bgs' = [bgs EXCEPT ![i] = b]
    BY <1>4, <1>8, <2>3
  <2>5. b \in Grounds /\ b.status = ground.status /\ b.listed = bgs[i].listed
    BY <2>3 DEF Grounds
  <2>6. Sound(b)
    BY <1>4, <1>8, <2>5 DEF Sound
  <2>7. i \in Instances /\ bgs[i].status # "none"
    BY <1>4, <1>8
  <2> HIDE DEF b, i
  <2>8. SoundGrounds(bgs') /\ SoundWorld(toWorld, bgs') /\ Listed' = Listed
    BY <1>5, <2>4, <2>5, <2>6, <2>7, GroundStep
  <2> QED
    BY <1>1, <1>5, <1>8, <2>2, <2>8, Parts, SameQueue, WorldStep
<1>9. CASE there /\ Vacate(p, i) /\ player' = [player EXCEPT ![p] = fresh]
  <2>1. i \in Instances /\ bgs[i].status # "none"
    BY <1>4, <1>9
  <2> HIDE DEF i
  <2>2. /\ SoundGrounds(bgs') /\ SoundWorld(toWorld, bgs') /\ SoundQueue(toQueue', Listed', used)
        /\ Longer(toQueue, toQueue') /\ used' = used
    BY <1>9, <2>1, VacateIs
  <2>3. SoundPlayers(player')
    BY <1>7, <1>9
  <2> QED
    BY <1>1, <1>5, <2>2, <2>3, Parts, WorldStep
<1>10. CASE player' = [player EXCEPT ![p] = fresh] /\ UNCHANGED <<toQueue, bgs, used>>
  <2>1. SoundPlayers(player')
    BY <1>7, <1>10
  <2>2. SoundGrounds(bgs') /\ SoundWorld(toWorld, bgs') /\ Listed' = Listed
    BY <1>5, <1>10, Parts DEF Listed
  <2> QED
    BY <1>1, <1>5, <1>10, <2>1, <2>2, Parts, SameQueue, WorldStep
<1> QED
  BY <1>1, <1>8, <1>9, <1>10

OneLogout(u, u1) == u1 = [u EXCEPT !["logouts"] = @ + 1]

LEMMA SoundWith ==
    ASSUME NEW q, NEW l, NEW u \in Uses, NEW u1, OneLogout(u, u1), SoundQueue(q, l, u)
    PROVE  SoundQueue(q, l, u1) /\ u1 \in Uses
<1> USE DEF OneLogout
<1>1. u1 \in Uses /\ u1.alliance = u.alliance /\ u1.horde = u.horde
  BY DEF Uses
<1>2. \A t \in Teams : u1[t] = u[t]
  BY DEF Uses, Teams
<1>3. Numbered(q, groups, clock, lastInstance, u)
  BY DEF SoundQueue
<1>4. Room(q, groups, clock, lastInstance, u1)
  BY <1>1, <1>2, <1>3 DEF Numbered, Room
<1>5. Numbered(q, groups, clock, lastInstance, u1)
  BY <1>1, <1>3, <1>4 DEF Numbered
<1> QED
  BY <1>1, <1>5 DEF SoundQueue

LEMMA LogoutKeeps ==
    ASSUME Basis, NEW p \in Players, LogoutPlayer(p)
    PROVE  Basis'
<1> DEFINE i == player[p].at
           ground == bgs[i]
           b == [ground EXCEPT !.players = @ \cup {p}, !.offline = @ \cup {p}]
           r == [NoPlayer EXCEPT !.at = i]
           gone == [type |-> "gone", player |-> p]
<1>1. /\ InTick /\ UNCHANGED toWorld /\ UNCHANGED queueVars /\ used' = [used EXCEPT !["logouts"] = @ + 1]
      /\ bgs' = IF Exists(i) THEN [bgs EXCEPT ![i].players = @ \cup {p}, ![i].offline = @ \cup {p}] ELSE bgs
      /\ player' = [player EXCEPT ![p] = r]
      /\ toQueue' = IF player[p].reg THEN Append(toQueue, gone) ELSE toQueue
  BY DEF LogoutPlayer, Use
<1>2. player[p] \in Records
  BY PlayersAre
<1>3. i \in Instances \cup {0}
  BY <1>2 DEF Records
<1>4. r \in Records /\ r.timers = <<>>
  BY <1>3, NewPlayer
<1> HIDE DEF r
<1>5. SoundPlayers(player')
  BY <1>1, <1>4, NobodysTimers
<1>6. tick' \in 0..Len(toWorld) /\ SoundWorld(toWorld, bgs)
  BY <1>1, LocalTick
<1>7. SoundGrounds(bgs') /\ SoundWorld(toWorld, bgs') /\ Listed' = Listed
  <2>1. CASE ~Exists(i)
    <3>1. bgs' = bgs
      BY <1>1, <2>1
    <3> QED
      BY <1>6, <3>1, Parts DEF Listed
  <2>2. CASE Exists(i)
    <3>1. i \in Instances /\ ground.status # "none"
      BY <2>2 DEF Exists
    <3>2. bgs \in [Instances -> Grounds] /\ ground \in Grounds
      BY <3>1, GroundsAre
    <3>3. bgs' = [bgs EXCEPT ![i] = b]
      BY <1>1, <2>2, <3>1, <3>2
    <3>4. b \in Grounds /\ b.status = ground.status /\ b.listed = bgs[i].listed
      BY <3>2 DEF Grounds
    <3>5. Sound(b)
      BY <3>1, <3>4 DEF Sound
    <3> HIDE DEF b, i
    <3> QED
      BY <1>6, <3>1, <3>3, <3>4, <3>5, GroundStep
  <2> QED
    BY <2>1, <2>2
<1>8. gone \in ToQueue /\ gone.type = "gone"
  BY DEF ToQueue, Gone
<1> HIDE DEF gone
<1>9. SoundQueue(Append(toQueue, gone), Listed, used) /\ Longer(toQueue, Append(toQueue, gone))
  BY <1>8, SendOther
<1>10. SoundQueue(toQueue', Listed', used) /\ Longer(toQueue, toQueue')
  BY <1>1, <1>7, <1>9, SameQueue
<1>11. SoundQueue(toQueue', Listed', used') /\ used' \in Uses
  <2>1. OneLogout(used, used') /\ used \in Uses
    BY <1>1, Parts DEF OneLogout
  <2> QED
    BY <1>7, <1>10, <2>1, SoundWith
<1> QED
  BY <1>1, <1>5, <1>6, <1>7, <1>10, <1>11, WorldStep

LEMMA RemoveEventKeeps ==
    ASSUME Basis, NEW p \in Players, RemoveEvent(p)
    PROVE  Basis'
<1> DEFINE old == player[p]
           e == Head(old.timers)
           m == [type |-> "expired", player |-> p, inst |-> e.inst, due |-> e.due]
           rest == Tail(old.timers)
           r == [old EXCEPT !.timers = rest]
           w == Append(toWorld, m)
<1>1. /\ InTick /\ tick = 0 /\ old.timers # <<>> /\ toWorld' = w /\ player' = [player EXCEPT ![p].timers = Tail(@)]
      /\ UNCHANGED <<toQueue, bgs, used>> /\ UNCHANGED queueVars
  BY DEF RemoveEvent, InTick, history
<1>2. player \in [Players -> Records] /\ old \in Records
  BY PlayersAre
<1>3. old.timers \in Seq(Events)
  BY <1>2 DEF Records
<1>4. /\ e \in Events /\ rest \in Seq(Events) /\ e = old.timers[1] /\ 1 \in 1..Len(old.timers)
      /\ \A k \in 1..Len(rest) : k + 1 \in 1..Len(old.timers) /\ rest[k] = old.timers[k + 1]
  BY <1>1, <1>3, TailIs
<1>5. \A n \in 1..Len(old.timers) : old.timers[n].due <= clock
  BY DEF Basis, PastTimers
<1>6. e.due <= clock /\ \A k \in 1..Len(rest) : rest[k].due <= clock
  BY <1>4, <1>5
<1>7. player' = [player EXCEPT ![p] = r]
  BY <1>1, <1>2
<1> HIDE DEF e, rest, old
<1>8. r \in Records /\ r.timers = rest
  BY <1>2, <1>4 DEF Records
<1> HIDE DEF r
<1>9. SoundPlayers(player')
  BY <1>6, <1>7, <1>8, OnePlayer
<1>10. m \in ToWorld /\ m.type = "expired" /\ m.due = e.due
  BY <1>4 DEF ToWorld, Expired, Events
<1> HIDE DEF m
<1>11. toWorld \in Seq(ToWorld) /\ PastWorld(toWorld, clock) /\ Making(toWorld, bgs, lastInstance)
  BY Parts DEF SoundWorld
<1>12. /\ w \in Seq(ToWorld) /\ Len(toWorld) \in Nat /\ Len(w) = Len(toWorld) + 1 /\ w[Len(toWorld) + 1] = m
       /\ \A n \in 1..Len(toWorld) : w[n] = toWorld[n]
  BY <1>10, <1>11
<1> HIDE DEF w
<1>13. \A n \in 1..Len(w) : n \in 1..Len(toWorld) \/ n = Len(toWorld) + 1
  BY <1>12
<1>14. PastWorld(w, clock)
  BY <1>6, <1>10, <1>11, <1>12, <1>13 DEF PastWorld
<1>15. Making(w, bgs, lastInstance)
  BY <1>10, <1>11, <1>12, <1>13 DEF Making
<1>16. SoundWorld(toWorld', bgs')
  BY <1>1, <1>12, <1>14, <1>15 DEF SoundWorld
<1>17. tick' \in 0..Len(toWorld')
  BY <1>1, <1>12, LocalTick
<1>18. Listed' = Listed /\ SoundGrounds(bgs')
  BY <1>1, Parts DEF Listed
<1> QED
  BY <1>1, <1>9, <1>16, <1>17, <1>18, Parts, SameQueue, WorldStep

LEMMA HandlePortKeeps ==
    ASSUME Basis, NEW p \in Players, NEW enter \in BOOLEAN, HandleBattlefieldPortOpcode(p, enter)
    PROVE  Basis'
<1> DEFINE m == [type |-> "answer", player |-> p, enter |-> enter]
<1>1. /\ InTick /\ toQueue' = Append(toQueue, m) /\ UNCHANGED <<toWorld, player, bgs, used>> /\ UNCHANGED queueVars
  BY DEF HandleBattlefieldPortOpcode, worldVars, history
<1>2. m \in ToQueue /\ m.type = "answer"
  BY DEF ToQueue, Answers
<1> HIDE DEF m
<1>3. SoundQueue(Append(toQueue, m), Listed, used) /\ Longer(toQueue, Append(toQueue, m))
  BY <1>2, SendOther
<1>4. tick' \in 0..Len(toWorld) /\ SoundWorld(toWorld, bgs)
  BY <1>1, LocalTick
<1>5. Listed' = Listed /\ SoundWorld(toWorld', bgs') /\ SoundGrounds(bgs') /\ SoundPlayers(player')
  BY <1>1, <1>4, Parts DEF Listed
<1> QED
  BY <1>1, <1>3, <1>4, <1>5, Parts, WorldStep

\* A request to join.
LEMMA SendJoin ==
    ASSUME Basis, NEW t \in Teams, used[t] < MaxJoins[t], NEW u1, u1 = [used EXCEPT ![t] = @ + 1],
           NEW m \in Joins, m.id = u1.alliance + u1.horde, m.team = t
    PROVE  SoundQueue(Append(toQueue, m), Listed, u1)
<1>1. /\ toQueue \in Seq(ToQueue) /\ Numbered(toQueue, groups, clock, lastInstance, used)
      /\ PastQueue(toQueue, clock) /\ Announced(toQueue, lastInstance) /\ Lists(toQueue, free, Listed, lastInstance)
      /\ Sides(groups) /\ lastInstance \in Nat /\ clock \in Nat /\ used \in Uses
  BY Parts DEF SoundQueue
<1>2. Numbered(Append(toQueue, m), groups, clock, lastInstance, u1)
  BY <1>1, NumberedJoin
<1>3. m \in ToQueue /\ m.type = "join"
  BY DEF ToQueue, Joins
<1>4. PastQueue(Append(toQueue, m), clock) /\ Announced(Append(toQueue, m), lastInstance)
  BY <1>1, <1>3, Pushed
<1>5. ASSUME NEW i \in Instances PROVE IsListed(Append(toQueue, m), free, i, Listed[i], lastInstance)
  <2> DEFINE a == Listed[i]
  <2>1. i \in Nat
    BY InstancesAre
  <2>2. a \in BOOLEAN /\ (a => i <= lastInstance)
    BY ListedIs
  <2>3. IsListed(toQueue, free, i, a, lastInstance)
    BY <1>1 DEF Lists
  <2> HIDE DEF a
  <2>4. Switches(a, a, m, i)
    BY <1>3, SameListing
  <2>5. IsListed(Append(toQueue, m), free, i, a, lastInstance)
    BY <1>1, <1>3, <2>1, <2>2, <2>3, <2>4, ListedPush
  <2> QED
    BY <2>5 DEF a
<1>6. Lists(Append(toQueue, m), free, Listed, lastInstance)
  BY <1>5 DEF Lists
<1>7. Append(toQueue, m) \in Seq(ToQueue)
  BY <1>1, <1>3
<1> QED
  BY <1>2, <1>4, <1>6, <1>7 DEF SoundQueue

LEMMA OneMoreUse ==
    ASSUME NEW t \in Teams, NEW u \in Uses, u[t] < MaxJoins[t], \A s \in Teams : u[s] <= MaxJoins[s],
           NEW u1, u1 = [u EXCEPT ![t] = @ + 1]
    PROVE  u1 \in Uses /\ u1.alliance + u1.horde \in 1..Requests
<1>1. u.alliance \in Nat /\ u.horde \in Nat /\ u.logouts \in Nat
  BY DEF Uses
<1>2. u1 \in Uses /\ u1.logouts = u.logouts
      /\ u1.alliance = (IF t = "alliance" THEN u.alliance + 1 ELSE u.alliance)
      /\ u1.horde = (IF t = "horde" THEN u.horde + 1 ELSE u.horde)
  <2>1. CASE t = "alliance"
    <3>1. u1 = [u EXCEPT !["alliance"] = u["alliance"] + 1]
      BY <2>1
    <3> QED
      BY <1>1, <2>1, <3>1 DEF Uses
  <2>2. CASE t = "horde"
    <3>1. u1 = [u EXCEPT !["horde"] = u["horde"] + 1]
      BY <2>2
    <3> QED
      BY <1>1, <2>2, <3>1 DEF Uses
  <2> QED
    BY <2>1, <2>2 DEF Teams
<1>3. /\ MaxJoins["alliance"] \in Nat /\ MaxJoins["horde"] \in Nat
      /\ Requests = MaxJoins["alliance"] + MaxJoins["horde"] /\ "alliance" \in Teams /\ "horde" \in Teams
  BY Numbers
<1>4. u["alliance"] <= MaxJoins["alliance"] /\ u["horde"] <= MaxJoins["horde"]
  BY <1>3
<1>5. u["alliance"] = u.alliance /\ u["horde"] = u.horde
  OBVIOUS
<1>6. t = "alliance" \/ t = "horde"
  BY DEF Teams
<1> DEFINE a == u.alliance
           h == u.horde
           ma == MaxJoins["alliance"]
           mh == MaxJoins["horde"]
           a1 == u1.alliance
           h1 == u1.horde
<1>7. /\ a \in Nat /\ h \in Nat /\ ma \in Nat /\ mh \in Nat /\ a <= ma /\ h <= mh /\ Requests = ma + mh
      /\ (a1 = a + 1 /\ h1 = h /\ a < ma) \/ (a1 = a /\ h1 = h + 1 /\ h < mh)
  BY <1>1, <1>2, <1>3, <1>4, <1>5, <1>6
<1> HIDE DEF a, h, ma, mh, a1, h1, Requests
<1>8. a1 + h1 \in 1..Requests
  BY <1>7
<1> QED
  BY <1>2, <1>8 DEF a1, h1

LEMMA JoinKeeps ==
    ASSUME Basis, NEW party \in Parties, HandleBattlemasterJoinOpcode(party)
    PROVE  Basis'
<1> DEFINE t == TeamOf[CHOOSE p \in party : TRUE]
           n == used'.alliance + used'.horde
           m == [type |-> "join", id |-> n, party |-> party, team |-> t]
<1>1. /\ InTick /\ used[t] < MaxJoins[t] /\ used' = [used EXCEPT ![t] = @ + 1] /\ toQueue' = Append(toQueue, m)
      /\ UNCHANGED <<toWorld, player, bgs>> /\ UNCHANGED queueVars
  BY DEF HandleBattlemasterJoinOpcode, Use, worldVars
<1>2. party \in (SUBSET Players) \ {{}} /\ \A p, q \in party : TeamOf[p] = TeamOf[q]
  BY QueueAssumption
<1>3. (CHOOSE p \in party : TRUE) \in party
  BY <1>2
<1>4. t \in Teams /\ \A p \in party : TeamOf[p] = t
  BY <1>2, <1>3, QueueAssumption
<1>5. used \in Uses /\ toQueue \in Seq(ToQueue)
  BY Parts DEF SoundQueue
<1>6. \A s \in Teams : used[s] <= MaxJoins[s]
  BY DEF Basis, Crowd, Numbered, Room
<1> HIDE DEF t
<1>7. used' \in Uses /\ n \in 1..Requests
  BY <1>1, <1>4, <1>5, <1>6, OneMoreUse
<1>8. m \in Joins /\ m.id = n /\ m.team = t
  BY <1>2, <1>4, <1>7 DEF Joins
<1> HIDE DEF m
<1>9. SoundQueue(Append(toQueue, m), Listed, used')
  BY <1>1, <1>4, <1>8, SendJoin
<1>10. m \in ToQueue
  BY <1>8 DEF ToQueue
<1>11. Longer(toQueue, toQueue')
  BY <1>1, <1>5, <1>10 DEF Longer
<1>12. tick' \in 0..Len(toWorld) /\ SoundWorld(toWorld, bgs)
  BY <1>1, LocalTick
<1>13. Listed' = Listed /\ SoundWorld(toWorld', bgs') /\ SoundGrounds(bgs') /\ SoundPlayers(player')
  BY <1>1, <1>12, Parts DEF Listed
<1> QED
  BY <1>1, <1>7, <1>9, <1>11, <1>12, <1>13, WorldStep

-----------------------------------------------------------------------------
\* The invariant.

LEMMA NobodyWaits ==
    ASSUME NEW q, q = <<>>, NEW gs, gs = [t \in Teams |-> <<>>], NEW u, u = [alliance |-> 0, horde |-> 0, logouts |-> 0]
    PROVE  u \in Uses /\ Numbered(q, gs, 0, 0, u)
<1>1. Len(q) = 0 /\ \A t \in Teams : Len(gs[t]) = 0
  OBVIOUS
<1>2. 1..0 = {}
  OBVIOUS
<1>3. Distinct(q, gs) /\ \A n : Bounded(q, gs, 0, 0, n)
  BY <1>1, <1>2 DEF Distinct, Bounded
<1>4. \A t \in Teams : Waiting(q, gs, t) = {}
  BY <1>1, <1>2 DEF Waiting
<1>5. Cardinality({}) = 0
  BY FS_EmptySet
<1>6. u.alliance = 0 /\ u.horde = 0 /\ \A t \in Teams : u[t] = 0
  BY DEF Teams
<1>7. "alliance" \in Teams /\ "horde" \in Teams /\ \A t \in Teams : MaxJoins[t] \in Nat
  BY Numbers
<1>8. \A t \in Teams : Cardinality(Waiting(q, gs, t)) = 0
  BY <1>4, <1>5
<1> DEFINE ca == Cardinality(Waiting(q, gs, "alliance"))
           ch == Cardinality(Waiting(q, gs, "horde"))
<1>9. ca = 0 /\ ch = 0
  BY <1>7, <1>8
<1> HIDE DEF ca, ch
<1>10. 0 + ca + ch <= u.alliance + u.horde
  BY <1>6, <1>9
<1>11. Room(q, gs, 0, 0, u)
  BY <1>6, <1>7, <1>8, <1>10 DEF Room, ca, ch
<1> QED
  BY <1>3, <1>11 DEF Numbered, Uses

LEMMA NothingListed ==
    ASSUME NEW q, q = <<>>, NEW fr, NEW i \in Instances, NEW l, l = FALSE
    PROVE  IsListed(q, fr, i, l, 0)
<1> DEFINE c == [k \in 0..0 |-> FALSE]
<1>1. Len(q) = 0 /\ 1..0 = {} /\ ~(i <= 0)
  BY InstancesAre
<1>2. c \in [0..Len(q) -> BOOLEAN] /\ c[Len(q)] = FALSE /\ \A k \in 0..Len(q) : ~c[k]
  BY <1>1
<1> HIDE DEF c
<1>3. Listing(c, q, i, l)
  BY <1>1, <1>2 DEF Listing
<1> QED
  BY <1>1, <1>2, <1>3 DEF IsListed

LEMMA BasisInit ==
    ASSUME Init
    PROVE  Basis
<1>1. /\ toQueue = <<>> /\ toWorld = <<>> /\ tick = 0 /\ batch = 0 /\ scheduled = FALSE
      /\ queued = [p \in Players |-> 0] /\ groups = [t \in Teams |-> <<>>] /\ free = <<>>
      /\ clock = 0 /\ lastInstance = 0
      /\ player = [p \in Players |-> [NoPlayer EXCEPT !.online = TRUE]]
      /\ bgs = [i \in Instances |-> NoBg]
      /\ used = [alliance |-> 0, horde |-> 0, logouts |-> 0]
  BY DEF Init
<1>2. used \in Uses /\ Numbered(toQueue, groups, clock, lastInstance, used)
  BY <1>1, NobodyWaits
<1>3. Enlisted(queued, groups)
  BY <1>1 DEF Enlisted
<1> DEFINE r == [NoPlayer EXCEPT !.online = TRUE]
<1>4. r \in Records /\ r.timers = <<>>
  <2>1. 0 \in Instances \cup {0}
    OBVIOUS
  <2> QED
    BY <2>1, NewPlayer
<1> HIDE DEF r
<1>5. player = [p \in Players |-> r]
  BY <1>1 DEF r
<1>6. player \in [Players -> Records] /\ \A p \in Players : player[p].timers = <<>>
  BY <1>4, <1>5
<1>7. bgs \in [Instances -> Grounds] /\ \A i \in Instances : bgs[i] = NoBg
  BY <1>1, NoBgIs
<1>8. groups \in [Teams -> Seq(Groups)] /\ \A t \in Teams : groups[t] \in Seq(SideGroups(t))
  <2>1. \A S : <<>> \in Seq(S)
    OBVIOUS
  <2>2. \A t \in Teams : groups[t] = <<>>
    BY <1>1
  <2>3. \A t \in Teams : groups[t] \in Seq(Groups) /\ groups[t] \in Seq(SideGroups(t))
    BY <2>1, <2>2
  <2>4. groups = [t \in Teams |-> groups[t]]
    BY <1>1
  <2> QED
    BY <2>3, <2>4
<1>9. /\ toQueue \in Seq(ToQueue) /\ toWorld \in Seq(ToWorld) /\ free \in Seq(Entries)
      /\ Len(toQueue) = 0 /\ Len(toWorld) = 0 /\ Len(free) = 0
  <2>1. \A S : <<>> \in Seq(S)
    OBVIOUS
  <2> QED
    BY <1>1, <2>1
<1>10. queued \in [Players -> Nat]
  BY <1>1
<1>11. Typed
  <2>1. batch = 0 /\ tick = 0 /\ scheduled = FALSE /\ clock = 0 /\ lastInstance = 0
    BY <1>1
  <2>2. batch \in 0..Len(toQueue) /\ tick \in 0..Len(toWorld)
    BY ONLY <1>9, <2>1
  <2>3. scheduled \in BOOLEAN /\ clock \in Nat /\ lastInstance \in Nat
    BY ONLY <2>1
  <2> QED
    BY ONLY <1>2, <1>6, <1>7, <1>8, <1>9, <1>10, <2>2, <2>3 DEF Typed
<1>12. 1..0 = {}
  OBVIOUS
<1>13. PastQueue(toQueue, clock) /\ PastWorld(toWorld, clock) /\ UpTo(free, lastInstance) /\ Announced(toQueue, lastInstance)
       /\ Making(toWorld, bgs, lastInstance)
  BY <1>9, <1>12 DEF PastQueue, PastWorld, UpTo, Announced, Making
<1>14. PastTimers(player, clock)
  <2>1. \A p \in Players : Len(player[p].timers) = 0
    BY <1>6
  <2> QED
    BY <1>12, <2>1 DEF PastTimers
<1>15. Born(bgs, lastInstance)
  BY <1>7 DEF Born, NoBg
<1>16. Lists(toQueue, free, Listed, lastInstance)
  <2> SUFFICES ASSUME NEW i \in Instances PROVE IsListed(toQueue, free, i, Listed[i], 0)
    BY <1>1 DEF Lists
  <2>1. Listed[i] = FALSE
    BY <1>7 DEF Listed, NoBg
  <2> QED
    BY <1>1, <2>1, NothingListed
<1> QED
  BY <1>2, <1>3, <1>11, <1>13, <1>14, <1>15, <1>16 DEF Basis, Crowd

LEMMA BasisStutter ==
    ASSUME Basis, UNCHANGED vars
    PROVE  Basis'
<1>1. /\ UNCHANGED <<toQueue, toWorld, tick, batch, scheduled, queued, groups, free, clock, lastInstance, player, bgs, used>>
  BY DEF vars, queueVars, worldVars, history
<1>2. /\ UNCHANGED queueVars /\ toQueue' = toQueue /\ toWorld' = toWorld /\ tick' = tick /\ bgs' = bgs /\ player' = player
      /\ used' = used
  BY <1>1 DEF queueVars
<1>3. Listed' = Listed
  BY <1>2 DEF Listed
<1> QED
  BY <1>2, <1>3, Parts, SameQueue, WorldStep

LEMMA BasisNext ==
    ASSUME Basis, [Next]_vars
    PROVE  Basis'
<1>1. CASE QueueThread
  BY <1>1, AddGroupKeeps, PortKeeps, LoggedOutKeeps, TimedOutKeeps, AddBgKeeps, RemoveBgKeeps, StatusChangedKeeps,
     PlayerLeftKeeps, ScheduleKeeps, UpdateKeeps DEF QueueThread
<1>2. CASE WorldMessages
  BY <1>2, RegisteredKeeps, InvitedKeeps, SetCountKeeps, CreateKeeps, SendKeeps, LeftQueueKeeps, ExpiredKeeps DEF WorldMessages
<1>3. CASE \E party \in Parties : HandleBattlemasterJoinOpcode(party)
  BY <1>3, JoinKeeps
<1>4. ASSUME NEW p \in Players, \E enter \in BOOLEAN : HandleBattlefieldPortOpcode(p, enter) PROVE Basis'
  BY <1>4, HandlePortKeeps
<1>5. ASSUME NEW p \in Players, RemoveEvent(p) \/ Arrive(p) \/ LogoutPlayer(p) \/ LoadFromDB(p) PROVE Basis'
  BY <1>5, RemoveEventKeeps, ArriveKeeps, LogoutKeeps, LoadKeeps
<1>6. ASSUME NEW p \in Players, NEW i \in Instances, RemovePlayerAtLeave(p, i) PROVE Basis'
  BY <1>6, LeaveKeeps
<1>7. ASSUME NEW i \in Instances, StartMatch(i) \/ EndBattleGround(i) \/ RemoveBattleGround(i) PROVE Basis'
  BY <1>7, StartMatchKeeps, EndKeeps, RemoveGroundKeeps
<1>8. CASE UNCHANGED vars
  BY <1>8, BasisStutter
<1> QED
  BY <1>1, <1>2, <1>3, <1>4, <1>5, <1>6, <1>7, <1>8 DEF Next

LEMMA BasisHolds == Spec => []Basis
<1>1. Init => Basis
  BY BasisInit
<1>2. Basis /\ [Next]_vars => Basis'
  BY BasisNext
<1> QED
  BY <1>1, <1>2, PTL DEF Spec

-----------------------------------------------------------------------------
\* What follows.

LEMMA WithinBounds ==
    ASSUME Basis
    PROVE  clock \in 0..Requests /\ lastInstance \in Instances \cup {0}
<1>1. /\ Room(toQueue, groups, clock, lastInstance, used) /\ used \in Uses /\ Sides(groups) /\ toQueue \in Seq(ToQueue)
      /\ clock \in Nat /\ lastInstance \in Nat
  BY Parts DEF SoundQueue, Numbered
<1>2. /\ "alliance" \in Teams /\ "horde" \in Teams /\ Requests = MaxJoins["alliance"] + MaxJoins["horde"]
      /\ \A t \in Teams : MaxJoins[t] \in Nat
  BY Numbers
<1> DEFINE c(t) == Cardinality(Waiting(toQueue, groups, t))
<1>3. \A t \in Teams : c(t) \in Nat
  BY <1>1, WaitingIs
<1>4. \A t \in Teams : used[t] \in Nat
  BY <1>1, UseOf
<1>5. /\ \A t \in Teams : used[t] <= MaxJoins[t] /\ lastInstance + c(t) <= used[t]
      /\ clock + c("alliance") + c("horde") <= used["alliance"] + used["horde"]
  BY <1>1, UseOf DEF Room
<1> HIDE DEF c
<1>6. \A t \in Teams : lastInstance <= MaxJoins[t]
  <2> SUFFICES ASSUME NEW t \in Teams PROVE lastInstance <= MaxJoins[t]
    OBVIOUS
  <2> DEFINE a == used[t]
             b == MaxJoins[t]
             k == c(t)
  <2>1. a \in Nat /\ b \in Nat /\ k \in Nat /\ a <= b /\ lastInstance + k <= a
    BY <1>2, <1>3, <1>4, <1>5
  <2> HIDE DEF a, b, k
  <2>2. lastInstance <= b
    BY <1>1, <2>1
  <2> QED
    BY <2>2 DEF b
<1>7. lastInstance # 0 => lastInstance \in Instances
  BY <1>1, <1>6, InstancesAre
<1> DEFINE a == used["alliance"]
           h == used["horde"]
           ma == MaxJoins["alliance"]
           mh == MaxJoins["horde"]
           ca == c("alliance")
           ch == c("horde")
<1>8. /\ a \in Nat /\ h \in Nat /\ ma \in Nat /\ mh \in Nat /\ ca \in Nat /\ ch \in Nat /\ a <= ma /\ h <= mh
      /\ clock + ca + ch <= a + h /\ Requests = ma + mh
  BY <1>2, <1>3, <1>4, <1>5
<1> HIDE DEF a, h, ma, mh, ca, ch, Requests
<1>9. clock \in 0..Requests
  BY <1>1, <1>8
<1> QED
  BY <1>7, <1>9

LEMMA BasisTypes ==
    ASSUME Basis
    PROVE  TypeOK
<1>1. Typed /\ Enlisted(queued, groups)
  BY DEF Basis, Crowd
<1>2. clock \in 0..Requests /\ lastInstance \in Instances \cup {0}
  BY WithinBounds
<1>3. \A n \in DOMAIN free : free[n] \in Entries
  BY <1>1 DEF Typed
<1>4. ASSUME NEW t \in Teams, NEW n \in DOMAIN groups[t] PROVE groups[t][n] \in Groups /\ groups[t][n].team = t
  <2>1. groups[t] \in Seq(SideGroups(t))
    BY <1>1 DEF Typed
  <2>2. groups[t][n] \in SideGroups(t)
    BY <2>1
  <2> QED
    BY <2>2 DEF SideGroups
<1>5. ASSUME NEW p \in Players, queued[p] # 0
      PROVE  \E g \in ToSet(groups[TeamOf[p]]) : g.id = queued[p] /\ p \in g.players
  <2> DEFINE t == TeamOf[p]
  <2>1. PICK n \in 1..Len(groups[t]) : groups[t][n].id = queued[p] /\ p \in groups[t][n].players
    BY <1>1, <1>5 DEF Enlisted
  <2>2. t \in Teams
    BY QueueAssumption
  <2>3. groups[t] \in Seq(SideGroups(t))
    BY <1>1, <2>2 DEF Typed
  <2>4. n \in DOMAIN groups[t]
    BY <2>1, <2>3
  <2>5. groups[t][n] \in ToSet(groups[t])
    BY <2>4 DEF ToSet
  <2> QED
    BY <2>1, <2>5
<1>6. ASSUME NEW p \in Players, NEW n \in DOMAIN player[p].timers PROVE player[p].timers[n] \in Events
  <2>1. player[p] \in Records
    BY <1>1 DEF Typed
  <2>2. player[p].timers \in Seq(Events)
    BY <2>1 DEF Records
  <2> QED
    BY <2>2
<1>7. bgs \in [Instances -> Grounds]
  BY <1>1 DEF Typed
<1>8. tick \in 0..Len(toWorld) /\ batch \in 0..Len(toQueue) /\ scheduled \in BOOLEAN
  BY <1>1 DEF Typed
<1> QED
  BY <1>2, <1>3, <1>4, <1>5, <1>6, <1>7, <1>8 DEF TypeOK, Grounds

\* A battleground that was made is in the list, whatever the queue has still to hear of it.
LEMMA MadeIsListed ==
    ASSUME Basis, NEW i \in Instances, i <= lastInstance
    PROVE  GetFreeSlotInstance(i) # 0
<1>1. IsListed(toQueue, free, i, Listed[i], lastInstance)
  BY DEF Basis, Lists
<1>2. PICK c : i <= lastInstance => Places(free, i, c[0])
  BY <1>1 DEF IsListed
<1>3. Twice(free, i) \/ Once(free, i)
  BY <1>2 DEF Places
<1>4. Once(free, i)
  BY <1>3 DEF Twice, Once
<1> QED
  BY <1>4, SlotFound

\* The state keeps the form the declarations of the code give it, and who is queued is in the
\* group he is told to be in, in the list of his side (BattleGroundQueueItem::AddGroup,
\* RemovePlayer): whatever the packets, the invitations and their ends, the logouts, and the
\* order in which the two threads take their messages.
THEOREM TypesStayCorrect == Spec => []TypeOK
<1>1. Basis => TypeOK
  BY BasisTypes
<1> QED
  BY <1>1, BasisHolds, PTL

\* The assertion in the message of HandleBattlefieldPortOpcode never fails: the
\* battleground of a player's invitation is in m_bgFreeSlotQueue.  It is put there when the
\* battleground is made, once more when it is listed again, and one entry goes when it is
\* taken off the list, so one is left even of a battleground that is over.
THEOREM InvitationsFindInstance == Spec => []PortFindsInstance
<1>1. Basis => PortFindsInstance
  <2> SUFFICES ASSUME Basis, NEW p \in Players, CalledTo(p) # 0 PROVE GetFreeSlotInstance(CalledTo(p)) # 0
    BY DEF PortFindsInstance
  <2>1. CalledTo(p) \in Instances /\ CalledTo(p) <= lastInstance
    BY CalledAlready
  <2> QED
    BY <2>1, MadeIsListed
<1> QED
  BY <1>1, BasisHolds, PTL

-----------------------------------------------------------------------------
\* The events of a player.  An invitation is under way to him, then it is an event of his, then the event
\* asks the world thread, then the queue: in this order they are from the latest to the oldest.

Token(k, n, d, q, w, tm, p) ==
    \/ k = 1 /\ n \in 1..Len(q) /\ q[n].type = "expire" /\ q[n].player = p /\ d = q[n].due
    \/ k = 2 /\ n \in 1..Len(w) /\ w[n].type = "expired" /\ w[n].player = p /\ d = w[n].due
    \/ k = 3 /\ n \in 1..Len(tm) /\ d = tm[n].due
    \/ k = 4 /\ n \in 1..Len(w) /\ w[n].type = "invite" /\ w[n].player = p /\ d = w[n].due

Rising(q, w, tm, p) == \A k, n, d, k1, n1, d1 :
    Token(k, n, d, q, w, tm, p) /\ Token(k1, n1, d1, q, w, tm, p) /\ (k < k1 \/ (k = k1 /\ n < n1)) => d < d1

Within(q, w, tm, p, due) == \A k, n, d : Token(k, n, d, q, w, tm, p) => d <= due

\* What he was told last is what his group is invited to; nobody asks for him while he has a group, or twice.
Latest(p, gs, q, w, tm) == \A t \in Teams : \A n \in 1..Len(gs[t]) :
    p \in gs[t][n].players /\ gs[t][n].inst # 0 => Within(q, w, tm, p, gs[t][n].due)

Asks(m, p) == IsJoin(m) /\ p \in m.party

AsksOnce(p, q, qd) == \A n \in 1..Len(q) : Asks(q[n], p) =>
    qd[p] = 0 /\ \A a \in 1..Len(q) : Asks(q[a], p) => a = n

Alone(p, q, gs, qd, w, tm) == Own(p, gs, qd) /\ Latest(p, gs, q, w, tm) /\ AsksOnce(p, q, qd) /\ Rising(q, w, tm, p)

Orderly == \A p \in Players \ astray : Alone(p, toQueue, groups, queued, toWorld, player[p].timers)

\* What happens to the messages leaves a player's events in their order, adds none, and asks for nobody.
Onward(p, q, w, tm, q1, w1, tm1) ==
    /\ \A k, n, d : Token(k, n, d, q1, w1, tm1, p) => \E j, m : Token(j, m, d, q, w, tm, p)
    /\ Rising(q, w, tm, p) => Rising(q1, w1, tm1, p)
    /\ \A qd : AsksOnce(p, q, qd) => AsksOnce(p, q1, qd)

LEMMA OnwardTwice ==
    ASSUME NEW p, NEW q, NEW w, NEW tm, NEW q1, NEW w1, NEW tm1, NEW q2, NEW w2, NEW tm2,
           Onward(p, q, w, tm, q1, w1, tm1), Onward(p, q1, w1, tm1, q2, w2, tm2)
    PROVE  Onward(p, q, w, tm, q2, w2, tm2)
<1>1. ASSUME NEW k, NEW n, NEW d, Token(k, n, d, q2, w2, tm2, p) PROVE \E j, m : Token(j, m, d, q, w, tm, p)
  <2>1. PICK j, m : Token(j, m, d, q1, w1, tm1, p)
    BY <1>1 DEF Onward
  <2> QED
    BY <2>1 DEF Onward
<1> QED
  BY <1>1 DEF Onward

LEMMA WithinStill ==
    ASSUME NEW p, NEW q, NEW w, NEW tm, NEW q1, NEW w1, NEW tm1, Onward(p, q, w, tm, q1, w1, tm1),
           NEW due, Within(q, w, tm, p, due)
    PROVE  Within(q1, w1, tm1, p, due)
<1> SUFFICES ASSUME NEW k, NEW n, NEW d, Token(k, n, d, q1, w1, tm1, p) PROVE d <= due
  BY DEF Within
<1>1. PICK j, m : Token(j, m, d, q, w, tm, p)
  BY DEF Onward
<1> QED
  BY <1>1 DEF Within

\* A player's own messages, and those that ask for him.
Concerns(m, p) == (m.type \in {"expire", "expired", "invite"} /\ m.player = p) \/ Asks(m, p)

\* Only messages that do not concern the player are added.
Grows(q, q1, p) ==
    /\ Len(q) \in Nat /\ Len(q1) \in Nat /\ Len(q) <= Len(q1)
    /\ \A n \in 1..Len(q) : q1[n] = q[n]
    /\ \A n \in 1..Len(q1) : n \in 1..Len(q) \/ ~Concerns(q1[n], p)

LEMMA GrowsSelf ==
    ASSUME NEW p, NEW R, NEW q \in Seq(R)
    PROVE  Grows(q, q, p)
BY DEF Grows

LEMMA GrowsTwice ==
    ASSUME NEW p, NEW q, NEW q1, NEW q2, Grows(q, q1, p), Grows(q1, q2, p)
    PROVE  Grows(q, q2, p)
BY DEF Grows

LEMMA GrowsJoined ==
    ASSUME NEW p, NEW R, NEW q \in Seq(R), NEW news \in Seq(R), \A n \in 1..Len(news) : ~Concerns(news[n], p),
           NEW q1, q1 = q \o news
    PROVE  Grows(q, q1, p)
<1>1. q1 \in Seq(R) /\ Joined(q1, q, news)
  BY Joining
<1> QED
  BY <1>1 DEF Joined, Grows

LEMMA GrowsOne ==
    ASSUME NEW p, NEW R, NEW q \in Seq(R), NEW m \in R, ~Concerns(m, p)
    PROVE  Grows(q, Append(q, m), p)
<1> DEFINE q1 == Append(q, m)
<1>1. /\ Len(q) \in Nat /\ Len(q1) = Len(q) + 1 /\ \A n \in 1..Len(q) : q1[n] = q[n]
      /\ q1[Len(q) + 1] = m
  OBVIOUS
<1> HIDE DEF q1
<1>2. \A n \in 1..Len(q1) : n \in 1..Len(q) \/ n = Len(q) + 1
  BY <1>1
<1>3. Grows(q, q1, p)
  BY <1>1, <1>2 DEF Grows
<1> QED
  BY <1>3 DEF q1

LEMMA OnwardGrown ==
    ASSUME NEW p, NEW q, NEW w, NEW tm, NEW q1, NEW w1, Grows(q, q1, p), Grows(w, w1, p)
    PROVE  Onward(p, q, w, tm, q1, w1, tm)
<1>1. ASSUME NEW k, NEW n, NEW d, Token(k, n, d, q1, w1, tm, p) PROVE Token(k, n, d, q, w, tm, p)
  BY <1>1 DEF Token, Grows, Concerns
<1>2. Rising(q, w, tm, p) => Rising(q1, w1, tm, p)
  BY <1>1 DEF Rising
<1>3. ASSUME NEW qd, AsksOnce(p, q, qd) PROVE AsksOnce(p, q1, qd)
  <2>1. \A n \in 1..Len(q1) : Asks(q1[n], p) => n \in 1..Len(q) /\ q1[n] = q[n]
    BY DEF Grows, Concerns
  <2> QED
    BY <1>3, <2>1 DEF AsksOnce
<1> QED
  BY <1>1, <1>2, <1>3 DEF Onward

\* Places in the messages for the queue, in those for the world, in the timers.
LEMMA OnwardTail ==
    ASSUME NEW p, NEW q \in Seq(ToQueue), q # <<>>, NEW w, NEW tm
    PROVE  Onward(p, q, w, tm, Tail(q), w, tm)
<1> DEFINE q1 == Tail(q)
           at(k, n) == IF k = 1 THEN n + 1 ELSE n
<1>1. \A n \in 1..Len(q1) : n \in Int /\ n + 1 \in 1..Len(q) /\ q1[n] = q[n + 1]
  BY TailIs
<1> HIDE DEF q1
<1>2. ASSUME NEW k, NEW n, NEW d, Token(k, n, d, q1, w, tm, p) PROVE Token(k, at(k, n), d, q, w, tm, p)
  BY <1>1, <1>2 DEF Token
<1>3. ASSUME NEW k, NEW n, NEW d, Token(k, n, d, q1, w, tm, p) PROVE k \in 1..4 /\ n \in Int
  BY <1>3 DEF Token
<1>4. ASSUME Rising(q, w, tm, p) PROVE Rising(q1, w, tm, p)
  <2> SUFFICES ASSUME NEW k, NEW n, NEW d, NEW k1, NEW n1, NEW d1, Token(k, n, d, q1, w, tm, p),
                      Token(k1, n1, d1, q1, w, tm, p), k < k1 \/ (k = k1 /\ n < n1)
               PROVE  d < d1
    BY DEF Rising
  <2>1. Token(k, at(k, n), d, q, w, tm, p) /\ Token(k1, at(k1, n1), d1, q, w, tm, p)
    BY <1>2
  <2>2. n \in Int /\ n1 \in Int
    BY <1>3
  <2>3. k < k1 \/ (k = k1 /\ at(k, n) < at(k1, n1))
    BY <2>2
  <2> HIDE DEF at
  <2> QED
    BY <1>4, <2>1, <2>3 DEF Rising
<1>5. ASSUME NEW qd, AsksOnce(p, q, qd) PROVE AsksOnce(p, q1, qd)
  <2> SUFFICES ASSUME NEW n \in 1..Len(q1), Asks(q1[n], p)
               PROVE  qd[p] = 0 /\ \A a \in 1..Len(q1) : Asks(q1[a], p) => a = n
    BY DEF AsksOnce
  <2>1. n + 1 \in 1..Len(q) /\ Asks(q[n + 1], p)
    BY <1>1
  <2>2. qd[p] = 0 /\ \A a \in 1..Len(q) : Asks(q[a], p) => a = n + 1
    BY <1>5, <2>1 DEF AsksOnce
  <2>3. ASSUME NEW a \in 1..Len(q1), Asks(q1[a], p) PROVE a = n
    <3>1. a + 1 = n + 1
      BY <1>1, <2>2, <2>3
    <3> QED
      BY <1>1, <3>1
  <2> QED
    BY <2>2, <2>3
<1>6. Onward(p, q, w, tm, q1, w, tm)
  BY <1>2, <1>4, <1>5 DEF Onward
<1> QED
  BY <1>6 DEF q1

LEMMA OnwardWorldTail ==
    ASSUME NEW p, NEW q, NEW w \in Seq(ToWorld), w # <<>>, NEW tm
    PROVE  Onward(p, q, w, tm, q, Tail(w), tm)
<1> DEFINE w1 == Tail(w)
           at(k, n) == IF k \in {2, 4} THEN n + 1 ELSE n
<1>1. \A n \in 1..Len(w1) : n \in Int /\ n + 1 \in 1..Len(w) /\ w1[n] = w[n + 1]
  BY TailIs
<1> HIDE DEF w1
<1>2. ASSUME NEW k, NEW n, NEW d, Token(k, n, d, q, w1, tm, p) PROVE Token(k, at(k, n), d, q, w, tm, p)
  BY <1>1, <1>2 DEF Token
<1>3. ASSUME NEW k, NEW n, NEW d, Token(k, n, d, q, w1, tm, p) PROVE k \in 1..4 /\ n \in Int
  BY <1>3 DEF Token
<1>4. ASSUME Rising(q, w, tm, p) PROVE Rising(q, w1, tm, p)
  <2> SUFFICES ASSUME NEW k, NEW n, NEW d, NEW k1, NEW n1, NEW d1, Token(k, n, d, q, w1, tm, p),
                      Token(k1, n1, d1, q, w1, tm, p), k < k1 \/ (k = k1 /\ n < n1)
               PROVE  d < d1
    BY DEF Rising
  <2>1. Token(k, at(k, n), d, q, w, tm, p) /\ Token(k1, at(k1, n1), d1, q, w, tm, p)
    BY <1>2
  <2>2. n \in Int /\ n1 \in Int
    BY <1>3
  <2>3. k < k1 \/ (k = k1 /\ at(k, n) < at(k1, n1))
    BY <2>2
  <2> HIDE DEF at
  <2> QED
    BY <1>4, <2>1, <2>3 DEF Rising
<1>5. Onward(p, q, w, tm, q, w1, tm)
  BY <1>2, <1>4 DEF Onward
<1> QED
  BY <1>5 DEF w1

LEMMA OnwardNoTimers ==
    ASSUME NEW p, NEW q, NEW w, NEW tm
    PROVE  Onward(p, q, w, tm, q, w, <<>>)
<1>1. ASSUME NEW k, NEW n, NEW d, Token(k, n, d, q, w, <<>>, p) PROVE Token(k, n, d, q, w, tm, p)
  BY <1>1 DEF Token
<1> QED
  BY <1>1 DEF Onward, Rising

\* The invitation becomes an event of the player.
LEMMA OnwardInvited ==
    ASSUME NEW p, NEW q, NEW w \in Seq(ToWorld), w # <<>>, NEW tm \in Seq(Events), NEW e \in Events,
           Head(w).type = "invite", Head(w).player = p, e.due = Head(w).due
    PROVE  Onward(p, q, w, tm, q, Tail(w), Append(tm, e))
<1> DEFINE q1 == q
           w1 == Tail(w)
           t1 == Append(tm, e)
           from(k, n) == IF k = 3 /\ n = Len(tm) + 1 THEN 4 ELSE k
           at(k, n) == IF k = 3 /\ n = Len(tm) + 1 THEN 1 ELSE IF k \in {2, 4} THEN n + 1 ELSE n
<1>1. /\ \A n \in 1..Len(w1) : n + 1 \in 1..Len(w) /\ w1[n] = w[n + 1]
      /\ 1 \in 1..Len(w) /\ w[1] = Head(w)
      /\ Len(tm) \in Nat /\ Len(w1) \in Nat /\ Len(t1) = Len(tm) + 1 /\ t1[Len(tm) + 1] = e /\ \A n \in 1..Len(tm) : t1[n] = tm[n]
  <2>1. /\ \A n \in 1..Len(w1) : n + 1 \in 1..Len(w) /\ w1[n] = w[n + 1]
        /\ Len(w) \in Nat /\ Len(w) > 0 /\ w[1] = Head(w) /\ Len(w1) \in Nat
    BY TailIs
  <2>2. Len(tm) \in Nat /\ Len(t1) = Len(tm) + 1 /\ t1[Len(tm) + 1] = e /\ \A n \in 1..Len(tm) : t1[n] = tm[n]
    OBVIOUS
  <2> QED
    BY <2>1, <2>2
<1> HIDE DEF w1, t1
<1>2. ASSUME NEW k, NEW n, NEW d, Token(k, n, d, q1, w1, t1, p) PROVE Token(from(k, n), at(k, n), d, q, w, tm, p)
  <2>1. CASE k = 3 /\ n = Len(tm) + 1
    <3>1. d = Head(w).due
      BY <1>1, <1>2, <2>1 DEF Token
    <3> QED
      BY <1>1, <1>2, <2>1, <3>1 DEF Token
  <2>2. CASE ~(k = 3 /\ n = Len(tm) + 1)
    <3>1. from(k, n) = k
      BY <2>2
    <3>2. Token(k, at(k, n), d, q, w, tm, p)
      BY <1>1, <1>2, <2>2 DEF Token
    <3> QED
      BY <3>1, <3>2
  <2> QED
    BY <2>1, <2>2
<1>3. ASSUME NEW k, NEW n, NEW d, Token(k, n, d, q1, w1, t1, p) PROVE k \in 1..4 /\ n \in Nat /\ n >= 1
  BY <1>1, <1>3 DEF Token
<1>4. ASSUME Rising(q, w, tm, p) PROVE Rising(q1, w1, t1, p)
  <2> SUFFICES ASSUME NEW k, NEW n, NEW d, NEW k1, NEW n1, NEW d1, Token(k, n, d, q1, w1, t1, p),
                      Token(k1, n1, d1, q1, w1, t1, p), k < k1 \/ (k = k1 /\ n < n1)
               PROVE  d < d1
    BY DEF Rising
  <2>1. Token(from(k, n), at(k, n), d, q, w, tm, p) /\ Token(from(k1, n1), at(k1, n1), d1, q, w, tm, p)
    BY <1>2
  <2>2. /\ k \in 1..4 /\ n \in Nat /\ n >= 1 /\ k1 \in 1..4 /\ n1 \in Nat /\ n1 >= 1
    BY <1>3
  <2>3. (k = 3 => n <= Len(tm) + 1) /\ (k1 = 3 => n1 <= Len(tm) + 1)
    BY <1>1 DEF Token
  <2>4. from(k, n) < from(k1, n1) \/ (from(k, n) = from(k1, n1) /\ at(k, n) < at(k1, n1))
    BY <2>2, <2>3
  <2> HIDE DEF from, at
  <2> QED
    BY <1>4, <2>1, <2>4 DEF Rising
<1>6. Onward(p, q, w, tm, q1, w1, t1)
  BY <1>2, <1>4 DEF Onward
<1> QED
  BY <1>6 DEF w1, t1

\* The event that asks the world thread asks the queue.
LEMMA OnwardExpired ==
    ASSUME NEW p, NEW q \in Seq(ToQueue), NEW w \in Seq(ToWorld), w # <<>>, NEW tm, NEW m \in Expiries,
           Head(w).type = "expired", m.player = Head(w).player, m.due = Head(w).due
    PROVE  Onward(p, q, w, tm, Append(q, m), Tail(w), tm)
<1> DEFINE q1 == Append(q, m)
           w1 == Tail(w)
           t1 == tm
           from(k, n) == IF k = 1 /\ n = Len(q) + 1 THEN 2 ELSE k
           at(k, n) == IF k = 1 /\ n = Len(q) + 1 THEN 1 ELSE IF k \in {2, 4} THEN n + 1 ELSE n
<1>1. /\ \A n \in 1..Len(w1) : n + 1 \in 1..Len(w) /\ w1[n] = w[n + 1]
      /\ 1 \in 1..Len(w) /\ w[1] = Head(w) /\ m.type = "expire"
      /\ Len(q) \in Nat /\ Len(w1) \in Nat /\ Len(q1) = Len(q) + 1 /\ q1[Len(q) + 1] = m /\ \A n \in 1..Len(q) : q1[n] = q[n]
  <2>1. /\ \A n \in 1..Len(w1) : n + 1 \in 1..Len(w) /\ w1[n] = w[n + 1]
        /\ Len(w) \in Nat /\ Len(w) > 0 /\ w[1] = Head(w) /\ Len(w1) \in Nat
    BY TailIs
  <2>2. m \in ToQueue /\ m.type = "expire"
    BY DEF ToQueue, Expiries
  <2>3. Len(q) \in Nat /\ Len(q1) = Len(q) + 1 /\ q1[Len(q) + 1] = m /\ \A n \in 1..Len(q) : q1[n] = q[n]
    BY <2>2
  <2> QED
    BY <2>1, <2>2, <2>3
<1> HIDE DEF q1, w1
<1>2. ASSUME NEW k, NEW n, NEW d, Token(k, n, d, q1, w1, t1, p) PROVE Token(from(k, n), at(k, n), d, q, w, tm, p)
  <2>1. CASE k = 1 /\ n = Len(q) + 1
    <3>1. d = Head(w).due
      BY <1>1, <1>2, <2>1 DEF Token
    <3> QED
      BY <1>1, <1>2, <2>1, <3>1 DEF Token
  <2>2. CASE ~(k = 1 /\ n = Len(q) + 1)
    <3>1. from(k, n) = k
      BY <2>2
    <3>2. Token(k, at(k, n), d, q, w, tm, p)
      BY <1>1, <1>2, <2>2 DEF Token
    <3> QED
      BY <3>1, <3>2
  <2> QED
    BY <2>1, <2>2
<1>3. ASSUME NEW k, NEW n, NEW d, Token(k, n, d, q1, w1, t1, p) PROVE k \in 1..4 /\ n \in Nat /\ n >= 1
  BY <1>1, <1>3 DEF Token
<1>4. ASSUME Rising(q, w, tm, p) PROVE Rising(q1, w1, t1, p)
  <2> SUFFICES ASSUME NEW k, NEW n, NEW d, NEW k1, NEW n1, NEW d1, Token(k, n, d, q1, w1, t1, p),
                      Token(k1, n1, d1, q1, w1, t1, p), k < k1 \/ (k = k1 /\ n < n1)
               PROVE  d < d1
    BY DEF Rising
  <2>1. Token(from(k, n), at(k, n), d, q, w, tm, p) /\ Token(from(k1, n1), at(k1, n1), d1, q, w, tm, p)
    BY <1>2
  <2>2. /\ k \in 1..4 /\ n \in Nat /\ n >= 1 /\ k1 \in 1..4 /\ n1 \in Nat /\ n1 >= 1
    BY <1>3
  <2>3. (k = 1 => n <= Len(q) + 1) /\ (k1 = 1 => n1 <= Len(q) + 1)
    BY <1>1 DEF Token
  <2>4. from(k, n) < from(k1, n1) \/ (from(k, n) = from(k1, n1) /\ at(k, n) < at(k1, n1))
    BY <2>2, <2>3
  <2> HIDE DEF from, at
  <2> QED
    BY <1>4, <2>1, <2>4 DEF Rising
<1>5. ASSUME NEW qd, AsksOnce(p, q, qd) PROVE AsksOnce(p, q1, qd)
  <2>1. \A n \in 1..Len(q1) : Asks(q1[n], p) => n \in 1..Len(q) /\ q1[n] = q[n]
    <3>1. ~Asks(m, p)
      BY <1>1 DEF Asks, IsJoin
    <3>2. \A n \in 1..Len(q1) : n \in 1..Len(q) \/ n = Len(q) + 1
      BY <1>1
    <3> QED
      BY <1>1, <3>1, <3>2
  <2> QED
    BY <1>5, <2>1 DEF AsksOnce
<1>6. Onward(p, q, w, tm, q1, w1, t1)
  BY <1>2, <1>4, <1>5 DEF Onward
<1> QED
  BY <1>6 DEF q1, w1

\* The player's first event asks the world thread.
LEMMA OnwardAsked ==
    ASSUME NEW p, NEW q, NEW w \in Seq(ToWorld), NEW tm \in Seq(Events), tm # <<>>, NEW m \in Expired,
           m.player = p, m.due = Head(tm).due
    PROVE  Onward(p, q, w, tm, q, Append(w, m), Tail(tm))
<1> DEFINE q1 == q
           w1 == Append(w, m)
           t1 == Tail(tm)
           from(k, n) == IF k = 2 /\ n = Len(w) + 1 THEN 3 ELSE k
           at(k, n) == IF k = 2 /\ n = Len(w) + 1 THEN 1 ELSE IF k = 3 THEN n + 1 ELSE n
<1>1. /\ \A n \in 1..Len(t1) : n + 1 \in 1..Len(tm) /\ t1[n] = tm[n + 1]
      /\ 1 \in 1..Len(tm) /\ tm[1] = Head(tm) /\ m.type = "expired"
      /\ Len(w) \in Nat /\ Len(t1) \in Nat /\ Len(w1) = Len(w) + 1 /\ w1[Len(w) + 1] = m /\ \A n \in 1..Len(w) : w1[n] = w[n]
  <2>1. /\ \A n \in 1..Len(t1) : n + 1 \in 1..Len(tm) /\ t1[n] = tm[n + 1]
        /\ Len(tm) \in Nat /\ Len(tm) > 0 /\ tm[1] = Head(tm) /\ Len(t1) \in Nat
    BY TailIs
  <2>2. m \in ToWorld /\ m.type = "expired"
    BY DEF ToWorld, Expired
  <2>3. Len(w) \in Nat /\ Len(w1) = Len(w) + 1 /\ w1[Len(w) + 1] = m /\ \A n \in 1..Len(w) : w1[n] = w[n]
    BY <2>2
  <2> QED
    BY <2>1, <2>2, <2>3
<1> HIDE DEF w1, t1
<1>2. ASSUME NEW k, NEW n, NEW d, Token(k, n, d, q1, w1, t1, p) PROVE Token(from(k, n), at(k, n), d, q, w, tm, p)
  <2>1. CASE k = 2 /\ n = Len(w) + 1
    <3>1. d = Head(tm).due
      BY <1>1, <1>2, <2>1 DEF Token
    <3> QED
      BY <1>1, <1>2, <2>1, <3>1 DEF Token
  <2>2. CASE ~(k = 2 /\ n = Len(w) + 1)
    <3>1. from(k, n) = k
      BY <2>2
    <3>2. Token(k, at(k, n), d, q, w, tm, p)
      BY <1>1, <1>2, <2>2 DEF Token
    <3> QED
      BY <3>1, <3>2
  <2> QED
    BY <2>1, <2>2
<1>3. ASSUME NEW k, NEW n, NEW d, Token(k, n, d, q1, w1, t1, p) PROVE k \in 1..4 /\ n \in Nat /\ n >= 1
  BY <1>1, <1>3 DEF Token
<1>4. ASSUME Rising(q, w, tm, p) PROVE Rising(q1, w1, t1, p)
  <2> SUFFICES ASSUME NEW k, NEW n, NEW d, NEW k1, NEW n1, NEW d1, Token(k, n, d, q1, w1, t1, p),
                      Token(k1, n1, d1, q1, w1, t1, p), k < k1 \/ (k = k1 /\ n < n1)
               PROVE  d < d1
    BY DEF Rising
  <2>1. Token(from(k, n), at(k, n), d, q, w, tm, p) /\ Token(from(k1, n1), at(k1, n1), d1, q, w, tm, p)
    BY <1>2
  <2>2. /\ k \in 1..4 /\ n \in Nat /\ n >= 1 /\ k1 \in 1..4 /\ n1 \in Nat /\ n1 >= 1
    BY <1>3
  <2>3. (k = 2 => n <= Len(w) + 1) /\ (k1 = 2 => n1 <= Len(w) + 1)
    BY <1>1 DEF Token
  <2>4. from(k, n) < from(k1, n1) \/ (from(k, n) = from(k1, n1) /\ at(k, n) < at(k1, n1))
    BY <2>2, <2>3
  <2> HIDE DEF from, at
  <2> QED
    BY <1>4, <2>1, <2>4 DEF Rising
<1>6. Onward(p, q, w, tm, q1, w1, t1)
  BY <1>2, <1>4 DEF Onward
<1> QED
  BY <1>6 DEF w1, t1

-----------------------------------------------------------------------------
\* The groups of a player.

Lessens(p, gs, hs) == \A t \in Teams : \A n \in 1..Len(hs[t]) : p \in hs[t][n].players =>
    \E m \in 1..Len(gs[t]) : p \in gs[t][m].players /\ Part(hs[t][n], gs[t][m])

LEMMA LessensSelf ==
    ASSUME NEW p, NEW gs
    PROVE  Lessens(p, gs, gs)
BY DEF Lessens, Part

LEMMA FewerLessens ==
    ASSUME NEW p, NEW gs, NEW hs, Fewer(gs, hs)
    PROVE  Lessens(p, gs, hs)
<1> SUFFICES ASSUME NEW t \in Teams, NEW n \in 1..Len(hs[t]), p \in hs[t][n].players
             PROVE  \E m \in 1..Len(gs[t]) : p \in gs[t][m].players /\ Part(hs[t][n], gs[t][m])
  BY DEF Lessens
<1>1. PICK f \in [1..Len(hs[t]) -> 1..Len(gs[t])] : \A a \in 1..Len(hs[t]) : Part(hs[t][a], gs[t][f[a]])
  BY DEF Fewer
<1>2. f[n] \in 1..Len(gs[t]) /\ Part(hs[t][n], gs[t][f[n]])
  BY <1>1
<1>3. p \in gs[t][f[n]].players
  BY <1>2 DEF Part
<1> QED
  BY <1>2, <1>3

\* The player keeps his group, or has left.
Stays(p, gs, qd, hs, qd1) == Lessens(p, gs, hs) /\ (qd1[p] = qd[p] \/ (qd1[p] = 0 /\ Nowhere(p, hs)))

LEMMA AloneOnward ==
    ASSUME NEW p, NEW q, NEW gs, NEW qd, NEW w, NEW tm, NEW q1, NEW hs, NEW qd1, NEW w1, NEW tm1,
           Alone(p, q, gs, qd, w, tm), Onward(p, q, w, tm, q1, w1, tm1), Stays(p, gs, qd, hs, qd1)
    PROVE  Alone(p, q1, hs, qd1, w1, tm1)
<1>1. Own(p, hs, qd1)
  <2> SUFFICES ASSUME NEW t \in Teams, NEW n \in 1..Len(hs[t]), p \in hs[t][n].players PROVE hs[t][n].id = qd1[p]
    BY DEF Own
  <2>1. PICK m \in 1..Len(gs[t]) : p \in gs[t][m].players /\ Part(hs[t][n], gs[t][m])
    BY DEF Stays, Lessens
  <2>2. hs[t][n].id = qd[p]
    BY <2>1 DEF Alone, Own, Part
  <2> QED
    BY <2>2 DEF Stays, Nowhere
<1>2. Latest(p, hs, q1, w1, tm1)
  <2> SUFFICES ASSUME NEW t \in Teams, NEW n \in 1..Len(hs[t]), p \in hs[t][n].players, hs[t][n].inst # 0
               PROVE  Within(q1, w1, tm1, p, hs[t][n].due)
    BY DEF Latest
  <2>1. PICK m \in 1..Len(gs[t]) : p \in gs[t][m].players /\ Part(hs[t][n], gs[t][m])
    BY DEF Stays, Lessens
  <2>2. gs[t][m].inst # 0 /\ gs[t][m].due = hs[t][n].due
    BY <2>1 DEF Part
  <2>3. Within(q, w, tm, p, gs[t][m].due)
    BY <2>1, <2>2 DEF Alone, Latest
  <2>4. Within(q1, w1, tm1, p, gs[t][m].due)
    BY <2>3, WithinStill
  <2> QED
    BY <2>2, <2>4
<1>3. AsksOnce(p, q1, qd1)
  <2>1. AsksOnce(p, q1, qd)
    BY DEF Alone, Onward
  <2>2. qd[p] = 0 => qd1[p] = 0
    BY DEF Stays
  <2> QED
    BY <2>1, <2>2 DEF AsksOnce
<1>4. Rising(q1, w1, tm1, p)
  BY DEF Alone, Onward
<1> QED
  BY <1>1, <1>2, <1>3, <1>4 DEF Alone

LEMMA OrderlyStep ==
    ASSUME Orderly, astray \subseteq astray',
           \A p \in Players \ astray' :
              /\ Onward(p, toQueue, toWorld, player[p].timers, toQueue', toWorld', player'[p].timers)
              /\ Stays(p, groups, queued, groups', queued')
    PROVE  Orderly'
<1> SUFFICES ASSUME NEW p \in Players \ astray' PROVE Alone(p, toQueue', groups', queued', toWorld', player'[p].timers)
  BY DEF Orderly
<1> DEFINE tm == player[p].timers
           tm1 == player'[p].timers
<1>1. Alone(p, toQueue, groups, queued, toWorld, tm)
  BY DEF Orderly
<1>2. Onward(p, toQueue, toWorld, tm, toQueue', toWorld', tm1) /\ Stays(p, groups, queued, groups', queued')
  OBVIOUS
<1> HIDE DEF tm, tm1
<1>3. Alone(p, toQueue', groups', queued', toWorld', tm1)
  BY <1>1, <1>2, AloneOnward
<1> QED
  BY <1>3 DEF tm1

LEMMA StaysSelf ==
    ASSUME NEW p, NEW gs, NEW qd
    PROVE  Stays(p, gs, qd, gs, qd)
BY LessensSelf DEF Stays

\* The world thread: the groups stay as they are.
LEMMA OrderlyMoves ==
    ASSUME Orderly, astray \subseteq astray', UNCHANGED <<groups, queued>>,
           \A p \in Players \ astray' : Onward(p, toQueue, toWorld, player[p].timers, toQueue', toWorld', player'[p].timers)
    PROVE  Orderly'
<1>1. \A p \in Players \ astray' : Stays(p, groups, queued, groups', queued')
  BY StaysSelf
<1> QED
  BY <1>1, OrderlyStep

-----------------------------------------------------------------------------
\* The queue thread takes a message: the events stay in their order.

LEMMA WorldKindsOnly ==
    ASSUME NEW m \in ToWorld
    PROVE  m.type \notin {"expire", "join"}
BY DEF ToWorld, Registered, Invites, NewCounts, Creations, Ports, Lefts, Expired

LEMMA TellsGrows ==
    ASSUME NEW p, NEW w \in Seq(ToWorld), NEW w1, Tells(w, w1)
    PROVE  Grows(w, w1, p)
<1>1. PICK news \in Seq(ToWorld) : w1 = w \o news /\ \A k \in 1..Len(news) : Harmless(news[k])
  BY DEF Tells
<1>2. \A k \in 1..Len(news) : ~Concerns(news[k], p)
  <2> SUFFICES ASSUME NEW k \in 1..Len(news) PROVE ~Concerns(news[k], p)
    OBVIOUS
  <2>1. news[k] \in ToWorld
    OBVIOUS
  <2>2. news[k].type \notin {"expire", "join"} /\ Harmless(news[k])
    BY <1>1, <2>1, WorldKindsOnly
  <2> QED
    BY <2>2 DEF Concerns, Asks, IsJoin, Harmless
<1> QED
  BY <1>1, <1>2, GrowsJoined

Leaves(p) == Fewer(groups, groups') /\ (Own(p, groups, queued) => Nowhere(p, groups')) /\ queued' = [queued EXCEPT ![p] = 0]

LEMMA Leaving ==
    ASSUME Basis, NEW p \in Players, queued[p] # 0, NEW dec \in BOOLEAN,
           NEW answer \in Seq(ToWorld), \A k \in 1..Len(answer) : Harmless(answer[k]), RemovePlayer(p, dec, answer)
    PROVE  Leaves(p) /\ Tells(toWorld, toWorld') /\ Reports(toWorld, toWorld', answer)
<1>1. Typed /\ Crowd
  BY DEF Basis
<1> QED
  BY <1>1, RemovedPlayer DEF Leaves

LEMMA OrderlyTaken ==
    ASSUME Basis, Orderly, NEW type, Take(type), UNCHANGED <<player, astray>>, Tells(toWorld, toWorld'),
           UNCHANGED <<queued, groups>> \/ \E p \in Players : Leaves(p)
    PROVE  Orderly'
<1>1. toQueue \in Seq(ToQueue) /\ toQueue # <<>> /\ toQueue' = Tail(toQueue) /\ Tail(toQueue) \in Seq(ToQueue)
  BY Taken
<1>2. toWorld \in Seq(ToWorld) /\ queued \in [Players -> Nat]
  BY DEF Basis, Typed
<1>3. ASSUME NEW p \in Players \ astray PROVE Onward(p, toQueue, toWorld, player[p].timers, toQueue', toWorld', player'[p].timers)
  <2> DEFINE tm == player[p].timers
  <2> HIDE DEF tm
  <2>1. Onward(p, toQueue, toWorld, tm, toQueue', toWorld, tm)
    BY <1>1, OnwardTail
  <2>2. Grows(toQueue', toQueue', p)
    BY <1>1, GrowsSelf
  <2>3. Grows(toWorld, toWorld', p)
    BY <1>2, TellsGrows
  <2>4. Onward(p, toQueue', toWorld, tm, toQueue', toWorld', tm)
    BY <2>2, <2>3, OnwardGrown
  <2>5. Onward(p, toQueue, toWorld, tm, toQueue', toWorld', tm)
    BY <2>1, <2>4, OnwardTwice
  <2> QED
    BY <2>5 DEF tm
<1>4. CASE UNCHANGED <<queued, groups>>
  BY <1>3, <1>4, OrderlyMoves
<1>5. ASSUME NEW p \in Players, Leaves(p) PROVE Orderly'
  <2>1. ASSUME NEW r \in Players \ astray PROVE Stays(r, groups, queued, groups', queued')
    <3>1. Lessens(r, groups, groups')
      BY <1>5, FewerLessens DEF Leaves
    <3>2. queued'[r] = IF r = p THEN 0 ELSE queued[r]
      BY <1>2, <1>5 DEF Leaves
    <3>3. Own(r, groups, queued)
      BY DEF Orderly, Alone
    <3>4. r = p => Nowhere(r, groups')
      BY <1>5, <3>3 DEF Leaves
    <3> QED
      BY <3>1, <3>2, <3>4 DEF Stays
  <2> QED
    BY <1>3, <2>1, OrderlyStep
<1> QED
  BY <1>4, <1>5

LEMMA TellsOneOnly ==
    ASSUME NEW m \in ToWorld, Harmless(m), NEW news, news = <<m>>
    PROVE  news \in Seq(ToWorld) /\ \A k \in 1..Len(news) : Harmless(news[k])
OBVIOUS

LEMMA PortOrderly ==
    ASSUME Basis, Orderly, Port
    PROVE  Orderly'
<1> DEFINE m == Head(toQueue)
           p == m.player
           sent == [type |-> "port", player |-> p, inst |-> CalledTo(p)]
           left == [type |-> "left", player |-> p]
           port == <<sent>>
           out == <<left>>
<1>1. Take("answer") /\ UNCHANGED <<player, astray>>
  BY DEF Port, worldVars, history
<1>2. \/ UNCHANGED <<toWorld, queued, groups>>
      \/ CalledTo(p) # 0 /\ RemovePlayer(p, FALSE, port)
      \/ queued[p] # 0 /\ RemovePlayer(p, TRUE, out)
  BY DEF Port
<1>3. m \in ToQueue /\ m.type = "answer"
  BY <1>1, Taken
<1>4. p \in Players
  BY <1>3, QueueKinds DEF Answers
<1>5. Tells(toWorld, toWorld)
  BY QueueKept
<1>6. out \in Seq(ToWorld) /\ \A k \in 1..Len(out) : Harmless(out[k])
  <2>1. left \in ToWorld /\ Harmless(left)
    BY <1>4 DEF ToWorld, Lefts, Harmless
  <2> HIDE DEF left
  <2> QED
    BY <2>1, TellsOneOnly
<1>7. CASE CalledTo(p) # 0 /\ RemovePlayer(p, FALSE, port)
  <2>1. queued[p] # 0 /\ CalledTo(p) \in Instances
    BY <1>4, <1>7, CalledAlready
  <2>2. sent \in ToWorld /\ Harmless(sent)
    BY <1>4, <2>1 DEF ToWorld, Ports, Harmless
  <2>3. port \in Seq(ToWorld) /\ \A k \in 1..Len(port) : Harmless(port[k])
    <3> HIDE DEF sent
    <3> QED
      BY <2>2, TellsOneOnly
  <2> HIDE DEF p, port
  <2>4. Leaves(p) /\ Tells(toWorld, toWorld')
    BY <1>4, <1>7, <2>1, <2>3, Leaving
  <2> QED
    BY <1>1, <1>4, <2>4, OrderlyTaken
<1>8. CASE queued[p] # 0 /\ RemovePlayer(p, TRUE, out)
  <2> HIDE DEF p, out
  <2>1. Leaves(p) /\ Tells(toWorld, toWorld')
    BY <1>4, <1>6, <1>8, Leaving
  <2> QED
    BY <1>1, <1>4, <2>1, OrderlyTaken
<1>9. CASE UNCHANGED <<toWorld, queued, groups>>
  <2>1. UNCHANGED <<queued, groups>> /\ Tells(toWorld, toWorld')
    BY <1>5, <1>9
  <2> QED
    BY <1>1, <2>1, OrderlyTaken
<1> QED
  BY <1>2, <1>7, <1>8, <1>9

LEMMA LoggedOutOrderly ==
    ASSUME Basis, Orderly, LoggedOut
    PROVE  Orderly'
<1> DEFINE p == Head(toQueue).player
           news == <<>>
<1>1. Take("gone") /\ UNCHANGED <<player, astray>>
  BY DEF LoggedOut, worldVars, history
<1>2. IF queued[p] = 0 THEN UNCHANGED <<toWorld, queued, groups>> ELSE RemovePlayer(p, TRUE, news)
  BY DEF LoggedOut
<1>3. p \in Players
  BY <1>1, Taken, QueueKinds DEF Gone
<1>4. news \in Seq(ToWorld) /\ \A k \in 1..Len(news) : Harmless(news[k])
  OBVIOUS
<1>5. Tells(toWorld, toWorld)
  BY QueueKept
<1> HIDE DEF p, news
<1>6. CASE queued[p] = 0
  <2>1. UNCHANGED <<queued, groups>> /\ Tells(toWorld, toWorld')
    BY <1>2, <1>5, <1>6
  <2> QED
    BY <1>1, <2>1, OrderlyTaken
<1>7. CASE queued[p] # 0
  <2>1. Leaves(p) /\ Tells(toWorld, toWorld')
    BY <1>2, <1>3, <1>4, <1>7, Leaving
  <2> QED
    BY <1>1, <1>3, <2>1, OrderlyTaken
<1> QED
  BY <1>6, <1>7

LEMMA TimedOutIs ==
    ASSUME Basis, TimedOut
    PROVE  /\ Take("expire") /\ UNCHANGED <<player, astray>> /\ Tells(toWorld, toWorld')
           /\ Head(toQueue) \in Expiries /\ Head(toQueue).player \in Players
           /\ \/ UNCHANGED <<queued, groups>> /\ toWorld' = toWorld
              \/ /\ IsPlayerInvited(Head(toQueue)) /\ Leaves(Head(toQueue).player)
                 /\ Reports(toWorld, toWorld', <<[type |-> "left", player |-> Head(toQueue).player]>>)
<1> DEFINE m == Head(toQueue)
           p == m.player
           left == [type |-> "left", player |-> p]
           out == <<left>>
<1>1. Take("expire") /\ UNCHANGED <<player, astray>>
  BY DEF TimedOut, worldVars, history
<1>2. UNCHANGED <<toWorld, queued, groups>> \/ (IsPlayerInvited(m) /\ RemovePlayer(p, TRUE, out))
  BY DEF TimedOut
<1>3. m \in Expiries
  BY <1>1, Taken, QueueKinds
<1>4. p \in Players
  BY <1>3 DEF Expiries
<1>5. Tells(toWorld, toWorld)
  BY QueueKept
<1>6. out \in Seq(ToWorld) /\ \A k \in 1..Len(out) : Harmless(out[k])
  <2>1. left \in ToWorld /\ Harmless(left)
    BY <1>4 DEF ToWorld, Lefts, Harmless
  <2> HIDE DEF left
  <2> QED
    BY <2>1, TellsOneOnly
<1>7. ASSUME IsPlayerInvited(m), RemovePlayer(p, TRUE, out) PROVE Leaves(p) /\ Tells(toWorld, toWorld') /\ Reports(toWorld, toWorld', out)
  <2>1. queued[p] # 0
    BY <1>7 DEF IsPlayerInvited
  <2> HIDE DEF p, out
  <2> QED
    BY <1>4, <1>6, <1>7, <2>1, Leaving
<1>8. Tells(toWorld, toWorld')
  BY <1>2, <1>5, <1>7
<1> QED
  BY <1>1, <1>2, <1>3, <1>4, <1>7, <1>8

LEMMA TimedOutOrderly ==
    ASSUME Basis, Orderly, TimedOut
    PROVE  Orderly'
BY TimedOutIs, OrderlyTaken

LEMMA PlayerLeftTells ==
    ASSUME Basis, PlayerLeft
    PROVE  Tells(toWorld, toWorld')
<1> DEFINE m == Head(toQueue)
           k == GetFreeSlotInstance(m.inst)
           count == Less(free[k].invited[m.team])
           told == Invited(m.inst, m.team, count)
<1>1. Take("decrease")
  BY DEF PlayerLeft
<1>2. IF k = 0 THEN toWorld' = toWorld ELSE toWorld' = Append(toWorld, told)
  BY DEF PlayerLeft
<1>3. m.team \in Teams /\ m.inst \in Instances
  BY <1>1, Taken, QueueKinds DEF Decreases
<1>4. Tells(toWorld, toWorld) /\ free \in Seq(Entries)
  BY QueueKept
<1>5. k # 0 => k \in 1..Len(free)
  BY SlotFound
<1>6. CASE k # 0
  <2> HIDE DEF k
  <2>1. count \in 0..(CountMod - 1)
    BY <1>3, <1>4, <1>5, <1>6, CountChanged
  <2> HIDE DEF count
  <2>2. told \in ToWorld /\ Harmless(told)
    BY <1>3, <2>1 DEF ToWorld, NewCounts, Harmless, Invited
  <2>3. toWorld \in Seq(ToWorld)
    BY DEF Basis, Typed
  <2> HIDE DEF told
  <2> QED
    BY <1>2, <1>6, <2>2, <2>3, TellsOne
<1>7. CASE k = 0
  BY <1>2, <1>4, <1>7
<1> QED
  BY <1>6, <1>7

\* The messages about the list of battlegrounds.
LEMMA ListOrderly ==
    ASSUME Basis, Orderly,
           AddBgToFreeSlots \/ RemoveBgFromFreeSlots \/ StatusChanged \/ PlayerLeft \/ ScheduleQueueUpdate
    PROVE  Orderly'
<1>1. Tells(toWorld, toWorld)
  BY QueueKept
<1>2. /\ AddBgToFreeSlots => Take("add") /\ toWorld' = toWorld
      /\ RemoveBgFromFreeSlots => Take("remove") /\ toWorld' = toWorld
      /\ StatusChanged => Take("status") /\ toWorld' = toWorld
      /\ PlayerLeft => Take("decrease")
      /\ ScheduleQueueUpdate => Take("schedule") /\ toWorld' = toWorld
      /\ UNCHANGED <<player, astray>> /\ UNCHANGED <<queued, groups>>
  BY DEF AddBgToFreeSlots, RemoveBgFromFreeSlots, StatusChanged, PlayerLeft, ScheduleQueueUpdate, worldVars, history
<1>3. Tells(toWorld, toWorld')
  BY <1>1, <1>2, PlayerLeftTells
<1>4. \E type : Take(type)
  BY <1>2
<1> QED
  BY <1>2, <1>3, <1>4, OrderlyTaken

LEMMA AddedGroup ==
    ASSUME NEW gs, Sides(gs), NEW t \in Teams, NEW g \in SideGroups(t), NEW hs, hs = [gs EXCEPT ![t] = Append(@, g)],
           NEW s \in Teams, NEW n \in 1..Len(hs[s])
    PROVE  (n \in 1..Len(gs[s]) /\ hs[s][n] = gs[s][n]) \/ hs[s][n] = g
<1>1. gs \in [Teams -> Seq(Groups)] /\ gs[t] \in Seq(SideGroups(t))
  BY DEF Sides
<1>2. hs[t] = Append(gs[t], g) /\ (s # t => hs[s] = gs[s])
  BY <1>1
<1>3. CASE s = t
  BY <1>1, <1>2, <1>3
<1>4. CASE s # t
  BY <1>2, <1>4
<1> QED
  BY <1>3, <1>4

\* A player who asked while he had no group gets this one only.
LEMMA AddGroupOrderly ==
    ASSUME Basis, Orderly, AddGroup
    PROVE  Orderly'
<1> DEFINE m == Head(toQueue)
           g == [id |-> m.id, team |-> m.team, players |-> m.party, inst |-> 0, due |-> 0]
           told == [type |-> "joined", party |-> m.party]
           t == m.team
<1>1. Take("join")
  BY DEF AddGroup
<1>2. /\ groups' = [groups EXCEPT ![t] = Append(@, g)]
      /\ queued' = [p \in Players |-> IF p \in m.party THEN m.id ELSE queued[p]]
      /\ toWorld' = Append(toWorld, told) /\ UNCHANGED <<player, astray>>
  BY DEF AddGroup, worldVars, history
<1>3. /\ toQueue \in Seq(ToQueue) /\ toQueue # <<>> /\ toQueue' = Tail(toQueue) /\ Tail(toQueue) \in Seq(ToQueue)
      /\ m.type = "join" /\ m \in ToQueue
  BY <1>1, Taken
<1>4. m \in Joins
  BY <1>3, QueueKinds
<1>5. t \in Teams /\ m.party \subseteq Players /\ g \in SideGroups(t) /\ g.id = m.id /\ g.inst = 0 /\ g.players = m.party
  BY <1>4, NewGroup
<1>6. Sides(groups) /\ toWorld \in Seq(ToWorld)
  BY DEF Basis, Typed, Sides
<1>7. Tells(toWorld, toWorld')
  <2>1. told \in ToWorld /\ Harmless(told)
    BY <1>5 DEF ToWorld, Registered, Harmless
  <2> HIDE DEF told
  <2> QED
    BY <1>2, <1>6, <2>1, TellsOne
<1> HIDE DEF g, t
<1>8. ASSUME NEW s \in Teams, NEW n \in 1..Len(groups'[s])
      PROVE  (n \in 1..Len(groups[s]) /\ groups'[s][n] = groups[s][n]) \/ groups'[s][n] = g
  <2> DEFINE hs == groups'
  <2>1. hs = [groups EXCEPT ![t] = Append(@, g)] /\ n \in 1..Len(hs[s])
    BY <1>2, <1>8
  <2> HIDE DEF hs
  <2>2. (n \in 1..Len(groups[s]) /\ hs[s][n] = groups[s][n]) \/ hs[s][n] = g
    BY <1>5, <1>6, <2>1, AddedGroup
  <2> QED
    BY <2>2 DEF hs
<1> SUFFICES ASSUME NEW p \in Players \ astray
             PROVE  Alone(p, toQueue', groups', queued', toWorld', player[p].timers)
  BY <1>2 DEF Orderly
<1> DEFINE tm == player[p].timers
<1> HIDE DEF tm
<1>9. Alone(p, toQueue, groups, queued, toWorld, tm)
  BY DEF Orderly, tm
<1>10. Onward(p, toQueue, toWorld, tm, toQueue', toWorld', tm)
  <2>1. Onward(p, toQueue, toWorld, tm, toQueue', toWorld, tm)
    BY <1>3, OnwardTail
  <2>2. Grows(toQueue', toQueue', p) /\ Grows(toWorld, toWorld', p)
    BY <1>3, <1>6, <1>7, GrowsSelf, TellsGrows
  <2>3. Onward(p, toQueue', toWorld, tm, toQueue', toWorld', tm)
    BY <2>2, OnwardGrown
  <2> QED
    BY <2>1, <2>3, OnwardTwice
<1>11. CASE p \notin m.party
  <2>1. queued'[p] = queued[p]
    BY <1>2, <1>11
  <2>2. \A s \in Teams : \A n \in 1..Len(groups'[s]) : p \in groups'[s][n].players =>
            n \in 1..Len(groups[s]) /\ groups'[s][n] = groups[s][n]
    BY <1>5, <1>8, <1>11
  <2>3. Lessens(p, groups, groups')
    BY <2>2 DEF Lessens, Part
  <2>4. Stays(p, groups, queued, groups', queued')
    BY <2>1, <2>3 DEF Stays
  <2>5. Alone(p, toQueue', groups', queued', toWorld', tm)
    BY <1>9, <1>10, <2>4, AloneOnward
  <2> QED
    BY <2>5 DEF tm
<1>12. CASE p \in m.party
  <2>1. queued'[p] = m.id
    BY <1>2, <1>12
  <2>2. m = toQueue[1] /\ 1 \in 1..Len(toQueue) /\ Asks(toQueue[1], p)
    <3>1. Len(toQueue) \in Nat /\ Len(toQueue) > 0 /\ m = toQueue[1]
      BY <1>3, TailIs
    <3> HIDE DEF m
    <3> QED
      BY <1>3, <1>12, <3>1 DEF Asks, IsJoin
  <2>3. queued[p] = 0 /\ \A a \in 1..Len(toQueue) : Asks(toQueue[a], p) => a = 1
    BY <1>9, <2>2 DEF Alone, AsksOnce
  <2>4. ASSUME NEW s \in Teams, NEW n \in 1..Len(groups[s]) PROVE p \notin groups[s][n].players
    <3>1. groups[s][n] \in Groups
      BY <1>6 DEF Sides
    <3>2. groups[s][n].id # 0
      BY <3>1, Numbers DEF Groups
    <3> QED
      BY <1>9, <2>3, <3>2 DEF Alone, Own
  <2>5. ASSUME NEW s \in Teams, NEW n \in 1..Len(groups'[s]), p \in groups'[s][n].players PROVE groups'[s][n] = g
    BY <1>8, <2>4, <2>5
  <2>6. Own(p, groups', queued') /\ Latest(p, groups', toQueue', toWorld', tm)
    BY <1>5, <2>1, <2>5 DEF Own, Latest
  <2>7. AsksOnce(p, toQueue', queued')
    <3>1. \A n \in 1..Len(toQueue') : n \in 1..Len(toQueue') /\ n + 1 \in 1..Len(toQueue) /\ toQueue'[n] = toQueue[n + 1]
      BY <1>3, TailIs
    <3>2. \A n \in 1..Len(toQueue') : ~Asks(toQueue'[n], p)
      BY <2>3, <3>1
    <3> QED
      BY <3>2 DEF AsksOnce
  <2>8. Rising(toQueue', toWorld', tm, p)
    BY <1>9, <1>10 DEF Alone, Onward
  <2>9. Alone(p, toQueue', groups', queued', toWorld', tm)
    BY <2>6, <2>7, <2>8 DEF Alone
  <2> QED
    BY <2>9 DEF tm
<1> QED
  BY <1>11, <1>12

-----------------------------------------------------------------------------
\* The queue thread invites: a player who is in one group gets one invitation, the latest of all.

LEMMA TokensPast ==
    ASSUME Basis, NEW p \in Players, NEW k, NEW n, NEW d, Token(k, n, d, toQueue, toWorld, player[p].timers, p)
    PROVE  d \in Nat /\ d <= clock
<1> DEFINE tm == player[p].timers
<1>1. /\ toQueue \in Seq(ToQueue) /\ toWorld \in Seq(ToWorld) /\ tm \in Seq(Events)
      /\ PastQueue(toQueue, clock) /\ PastWorld(toWorld, clock) /\ PastTimers(player, clock)
  BY DEF Basis, Typed, Records
<1>2. CASE k = 1
  <2>1. n \in 1..Len(toQueue) /\ toQueue[n].type = "expire" /\ d = toQueue[n].due
    BY <1>2 DEF Token
  <2>2. toQueue[n] \in ToQueue
    BY <1>1, <2>1
  <2> QED
    BY <1>1, <2>1, <2>2, QueueKinds, Numbers DEF Expiries, PastQueue
<1>3. CASE k = 2 \/ k = 4
  <2>1. n \in 1..Len(toWorld) /\ toWorld[n].type \in {"expired", "invite"} /\ d = toWorld[n].due
    BY <1>3 DEF Token
  <2>2. toWorld[n] \in ToWorld
    BY <1>1, <2>1
  <2> QED
    BY <1>1, <2>1, <2>2, WorldKinds, Numbers DEF Invites, Expired, PastWorld
<1>4. CASE k = 3
  <2>1. n \in 1..Len(tm) /\ d = tm[n].due
    BY <1>4 DEF Token
  <2>2. tm[n] \in Events
    BY <1>1, <2>1
  <2>3. d <= clock
    BY <1>1, <2>1 DEF PastTimers
  <2> QED
    BY <2>1, <2>2, <2>3, Numbers DEF Events
<1> QED
  BY <1>2, <1>3, <1>4 DEF Token

LEMMA SingleIs ==
    ASSUME NEW p, NEW q, NEW gs, NEW qd, Own(p, gs, qd), Distinct(q, gs)
    PROVE  Single(p, gs)
BY DEF Single, Own, Distinct

\* The events after the messages out: those before, and the invitation.
IsTold(k, n, d, w, out, p) ==
    /\ k = 4 /\ n \in Nat /\ n > Len(w) /\ n - Len(w) \in 1..Len(out)
    /\ IsInvite(out[n - Len(w)], p) /\ d = out[n - Len(w)].due

LEMMA TokenTold ==
    ASSUME NEW p, NEW q, NEW w, NEW tm, NEW out, NEW w0, Joined(w0, w, out), NEW gs, NEW hs, Tellings(gs, hs, out),
           NEW k, NEW n, NEW d, Token(k, n, d, q, w0, tm, p)
    PROVE  Token(k, n, d, q, w, tm, p) \/ IsTold(k, n, d, w, out, p)
<1>1. \A a \in 1..Len(w0) : (a \in 1..Len(w) /\ w0[a] = w[a]) \/ (a - Len(w) \in 1..Len(out) /\ w0[a] = out[a - Len(w)])
  BY DEF Joined
<1>2. Len(w) \in Nat /\ Len(w0) \in Nat
  BY DEF Joined
<1>3. CASE k \in {2, 4}
  <2>1. n \in 1..Len(w0) /\ w0[n].player = p /\ d = w0[n].due /\ w0[n].type = IF k = 2 THEN "expired" ELSE "invite"
    BY <1>3 DEF Token
  <2>2. CASE n \in 1..Len(w) /\ w0[n] = w[n]
    BY <1>3, <2>1, <2>2 DEF Token
  <2>3. CASE n - Len(w) \in 1..Len(out) /\ w0[n] = out[n - Len(w)]
    <3>0. out[n - Len(w)].type \in {"invite", "invited"}
      BY <2>3 DEF Tellings
    <3>1. k = 4 /\ IsInvite(out[n - Len(w)], p) /\ d = out[n - Len(w)].due
      BY <1>3, <2>1, <2>3, <3>0 DEF IsInvite
    <3>2. n \in Nat /\ n > Len(w)
      BY <1>2, <2>1, <2>3
    <3> QED
      BY <2>3, <3>1, <3>2 DEF IsTold
  <2> QED
    BY <1>1, <2>1, <2>2, <2>3
<1>4. CASE k \notin {2, 4}
  BY <1>4 DEF Token
<1> QED
  BY <1>3, <1>4

LEMMA InvitedAlone ==
    ASSUME NEW p, NEW q, NEW gs, NEW qd, NEW w \in Seq(ToWorld), NEW tm, NEW hs, NEW out, NEW last, clock \in Nat,
           Alone(p, q, gs, qd, w, tm), Single(p, gs), Inviting(gs, hs, out, last),
           \A k, n, d : Token(k, n, d, q, w, tm, p) => d \in Nat /\ d <= clock, NEW w0, w0 = w \o out
    PROVE  Alone(p, q, hs, qd, w0, tm)
<1>1. Calls(gs, hs, clock + 1, last) /\ out \in Seq(ToWorld) /\ Tellings(gs, hs, out) /\ ToldOnce(gs, out)
  BY DEF Inviting
<1>2. Joined(w0, w, out)
  BY <1>1, Joining
<1>3. ASSUME NEW a \in 1..Len(out), IsInvite(out[a], p)
      PROVE  /\ out[a].due = clock + 1
             /\ \E t \in Teams : \E n \in 1..Len(gs[t]) : p \in gs[t][n].players /\ gs[t][n].inst = 0
  <2>1. PICK t \in Teams : \E n \in 1..Len(gs[t]) :
             p \in gs[t][n].players /\ gs[t][n].inst = 0 /\ hs[t][n].due = out[a].due /\ hs[t][n].inst # 0
    BY <1>1, <1>3 DEF Tellings, IsInvite
  <2>2. PICK n \in 1..Len(gs[t]) :
             p \in gs[t][n].players /\ gs[t][n].inst = 0 /\ hs[t][n].due = out[a].due /\ hs[t][n].inst # 0
    BY <2>1
  <2>3. CalledAs(hs[t][n], gs[t][n], clock + 1, last)
    BY <1>1, <2>2 DEF Calls
  <2> QED
    BY <2>2, <2>3 DEF CalledAs
<1>4. ASSUME NEW k, NEW n, NEW d, Token(k, n, d, q, w0, tm, p)
      PROVE  \/ Token(k, n, d, q, w, tm, p) /\ d \in Nat /\ d <= clock
             \/ /\ k = 4 /\ n \in Nat /\ n > Len(w) /\ n - Len(w) \in 1..Len(out) /\ IsInvite(out[n - Len(w)], p)
                /\ d = clock + 1
  <2>1. Token(k, n, d, q, w, tm, p) \/ IsTold(k, n, d, w, out, p)
    BY <1>1, <1>2, <1>4, TokenTold
  <2>2. CASE IsTold(k, n, d, w, out, p)
    BY <1>3, <2>2 DEF IsTold
  <2> QED
    BY <2>1, <2>2
<1>5. ASSUME NEW t \in Teams, NEW n \in 1..Len(hs[t])
      PROVE  /\ n \in 1..Len(gs[t]) /\ hs[t][n].id = gs[t][n].id /\ hs[t][n].players = gs[t][n].players
             /\ hs[t][n] = gs[t][n] \/ hs[t][n].due = clock + 1
  BY <1>1 DEF Calls, CalledAs
<1>6. Own(p, hs, qd)
  BY <1>5 DEF Alone, Own
<1>7. Latest(p, hs, q, w0, tm)
  <2> SUFFICES ASSUME NEW t \in Teams, NEW n \in 1..Len(hs[t]), p \in hs[t][n].players, hs[t][n].inst # 0,
                      NEW j, NEW m, NEW d, Token(j, m, d, q, w0, tm, p)
               PROVE  d <= hs[t][n].due
    BY DEF Latest, Within
  <2>1. CASE hs[t][n] = gs[t][n]
    <3>1. n \in 1..Len(gs[t]) /\ p \in gs[t][n].players /\ gs[t][n].inst # 0
      BY <1>5, <2>1
    <3>2. \A a \in 1..Len(out) : ~IsInvite(out[a], p)
      BY <1>3, <3>1 DEF Single
    <3>3. Token(j, m, d, q, w, tm, p)
      BY <1>4, <3>2
    <3> QED
      BY <2>1, <3>1, <3>3 DEF Alone, Latest, Within
  <2>2. CASE hs[t][n].due = clock + 1
    <3>1. d <= clock + 1
      BY <1>4
    <3> QED
      BY <2>2, <3>1
  <2> QED
    BY <1>5, <2>1, <2>2
<1>8. Rising(q, w0, tm, p)
  <2> SUFFICES ASSUME NEW k, NEW n, NEW d, NEW k1, NEW n1, NEW d1, Token(k, n, d, q, w0, tm, p),
                      Token(k1, n1, d1, q, w0, tm, p), k < k1 \/ (k = k1 /\ n < n1)
               PROVE  d < d1
    BY DEF Rising
  <2>1. Len(w) \in Nat
    OBVIOUS
  <2>2. k \in 1..4 /\ k1 \in 1..4
    BY DEF Token
  <2>3. CASE Token(k, n, d, q, w, tm, p) /\ Token(k1, n1, d1, q, w, tm, p)
    BY <2>3 DEF Alone, Rising
  <2>4. CASE Token(k, n, d, q, w, tm, p) /\ ~Token(k1, n1, d1, q, w, tm, p)
    <3>1. d \in Nat /\ d <= clock /\ d1 = clock + 1
      BY <1>4, <2>4
    <3> QED
      BY <3>1
  <2>5. CASE ~Token(k, n, d, q, w, tm, p)
    <3>1. k = 4 /\ n \in Nat /\ n > Len(w) /\ n - Len(w) \in 1..Len(out) /\ IsInvite(out[n - Len(w)], p)
      BY <1>4, <2>5
    <3>2. k1 = 4 /\ n < n1
      BY <2>2, <3>1
    <3>3. ~Token(k1, n1, d1, q, w, tm, p)
      <4>1. n1 \notin 1..Len(w)
        BY <2>1, <3>1, <3>2
      <4> QED
        BY <3>2, <4>1 DEF Token
    <3>4. n1 \in Nat /\ n1 - Len(w) \in 1..Len(out) /\ IsInvite(out[n1 - Len(w)], p)
      BY <1>4, <3>3
    <3>5. n - Len(w) = n1 - Len(w)
      BY <1>1, <3>1, <3>4 DEF ToldOnce
    <3> QED
      BY <2>1, <3>1, <3>2, <3>4, <3>5
  <2> QED
    BY <2>3, <2>4, <2>5
<1> QED
  BY <1>6, <1>7, <1>8 DEF Alone

LEMMA UpdateOrderly ==
    ASSUME Basis, Orderly, Update
    PROVE  Orderly'
<1>1. /\ Typed /\ Crowd /\ clock \in Nat /\ lastInstance \in Nat /\ toQueue \in Seq(ToQueue) /\ toWorld \in Seq(ToWorld)
      /\ Sides(groups) /\ UpTo(free, lastInstance) /\ used \in Uses /\ Numbered(toQueue, groups, clock, lastInstance, used)
  BY GroupsAre DEF Basis, Typed
<1>2. UNCHANGED <<toQueue, queued, player, astray>>
  BY DEF Update, worldVars, history
<1>3. Timely(groups) /\ Spare(groups)
  BY <1>1, RoomLeft
<1>4. PICK news : /\ toWorld' = toWorld \o news
                  /\ Filled(groups', free', news, lastInstance') \/ Made(groups', free', news, lastInstance')
  BY <1>1, <1>3, UpdateIs
<1>5. PICK out : /\ Inviting(groups, groups', out, lastInstance')
                 /\ \/ news = out
                    \/ \E e : e \in Entries /\ news = WithCreation(out, e)
  BY <1>4 DEF Filled, Made
<1>6. out \in Seq(ToWorld)
  BY <1>5 DEF Inviting
<1> DEFINE w0 == toWorld \o out
<1>7. w0 \in Seq(ToWorld)
  BY <1>1, <1>6, Joining
<1>8. ASSUME NEW p \in Players PROVE Grows(w0, toWorld', p)
  <2>1. CASE news = out
    BY <1>4, <1>7, <2>1, GrowsSelf
  <2>2. CASE \E e : e \in Entries /\ news = WithCreation(out, e)
    <3>1. PICK e : e \in Entries /\ news = WithCreation(out, e)
      BY <2>2
    <3> DEFINE m == [type |-> "create", inst |-> e.inst, invited |-> e.invited]
               end == <<m>>
    <3>2. m \in ToWorld /\ ~Concerns(m, p)
      BY <3>1 DEF ToWorld, Creations, Entries, Concerns, Asks, IsJoin
    <3>3. news = Append(out, m)
      BY <3>1 DEF WithCreation
    <3> HIDE DEF m, w0
    <3>4. news = out \o end /\ end \in Seq(ToWorld) /\ Append(w0, m) = w0 \o end
      BY <1>6, <1>7, <3>2, <3>3, AppendedOne
    <3> HIDE DEF end
    <3>5. (toWorld \o out) \o end = toWorld \o (out \o end)
      <4>1. toWorld \in Seq(ToWorld) /\ end \in Seq(ToWorld)
        BY <1>1, <3>4
      <4> QED
        BY ONLY <1>6, <4>1, JoinThree
    <3>6. toWorld' = Append(w0, m)
      BY <1>4, <3>4, <3>5 DEF w0
    <3> QED
      BY <1>7, <3>2, <3>6, GrowsOne
  <2> QED
    BY <1>5, <2>1, <2>2
<1> SUFFICES ASSUME NEW p \in Players \ astray PROVE Alone(p, toQueue, groups', queued, toWorld', player[p].timers)
  BY <1>2 DEF Orderly
<1> DEFINE tm == player[p].timers
<1>9. \A k, n, d : Token(k, n, d, toQueue, toWorld, tm, p) => d \in Nat /\ d <= clock
  BY TokensPast
<1> HIDE DEF tm
<1>10. Alone(p, toQueue, groups, queued, toWorld, tm)
  BY DEF Orderly, tm
<1>11. Single(p, groups)
  BY <1>1, <1>10, SingleIs DEF Alone, Numbered
<1>12. w0 = toWorld \o out
  OBVIOUS
<1> HIDE DEF w0
<1>13. Alone(p, toQueue, groups', queued, w0, tm)
  BY <1>1, <1>5, <1>9, <1>10, <1>11, <1>12, InvitedAlone
<1>14. Onward(p, toQueue, w0, tm, toQueue, toWorld', tm)
  <2>1. Grows(toQueue, toQueue, p) /\ Grows(w0, toWorld', p)
    BY <1>1, <1>8, GrowsSelf
  <2> QED
    BY <2>1, OnwardGrown
<1>15. Stays(p, groups', queued, groups', queued)
  BY StaysSelf
<1>16. Alone(p, toQueue, groups', queued, toWorld', tm)
  BY <1>13, <1>14, <1>15, AloneOnward
<1> QED
  BY <1>16 DEF tm

-----------------------------------------------------------------------------
\* The world thread tells the queue nothing of a player's invitations, except in RemoveEventExecute.

Silent == \A p \in Players : Grows(toQueue, toQueue', p)

\* Nor does it ask for a player, answer for him or say that he has gone.
Plain(q, q1) ==
    /\ Len(q) \in Nat /\ Len(q1) \in Nat /\ Len(q) <= Len(q1)
    /\ \A n \in 1..Len(q) : q1[n] = q[n]
    /\ \A n \in 1..Len(q1) : n \in 1..Len(q) \/ q1[n].type \notin {"join", "answer", "gone"}

TimersStay == \A p \in Players : player'[p].timers = player[p].timers \/ player'[p].timers = <<>>
WorldOrLess == toWorld' = toWorld \/ (toWorld # <<>> /\ toWorld' = Tail(toWorld))

LEMMA WorldOrderly ==
    ASSUME Basis, Orderly, UNCHANGED queueVars, astray \subseteq astray', Silent, TimersStay, WorldOrLess
    PROVE  Orderly'
<1>1. UNCHANGED <<groups, queued>>
  BY DEF queueVars
<1>2. toWorld \in Seq(ToWorld)
  BY DEF Basis, Typed
<1>3. ASSUME NEW p \in Players PROVE Onward(p, toQueue, toWorld, player[p].timers, toQueue', toWorld', player'[p].timers)
  <2> DEFINE tm == player[p].timers
             tm1 == player'[p].timers
             none == <<>>
  <2>1. tm1 = tm \/ tm1 = none
    BY DEF TimersStay
  <2> HIDE DEF tm, tm1, none
  <2>2. Onward(p, toQueue, toWorld, tm, toQueue', toWorld, tm)
    <3>1. Grows(toQueue, toQueue', p) /\ Grows(toWorld, toWorld, p)
      BY <1>2, GrowsSelf DEF Silent
    <3> QED
      BY <3>1, OnwardGrown
  <2>3. Onward(p, toQueue', toWorld, tm, toQueue', toWorld', tm)
    <3>1. CASE toWorld' = toWorld
      <4>1. Onward(p, toQueue', toWorld, tm, toQueue', toWorld, tm)
        BY DEF Onward
      <4> QED
        BY <3>1, <4>1
    <3>2. CASE toWorld # <<>> /\ toWorld' = Tail(toWorld)
      BY <1>2, <3>2, OnwardWorldTail
    <3> QED
      BY <3>1, <3>2 DEF WorldOrLess
  <2>4. Onward(p, toQueue, toWorld, tm, toQueue', toWorld', tm)
    BY <2>2, <2>3, OnwardTwice
  <2>5. CASE tm1 = tm
    <3>1. Onward(p, toQueue, toWorld, tm, toQueue', toWorld', tm1)
      BY <2>4, <2>5
    <3> QED
      BY <3>1 DEF tm, tm1
  <2>6. CASE tm1 = none
    <3>1. Onward(p, toQueue', toWorld', tm, toQueue', toWorld', none)
      BY OnwardNoTimers DEF none
    <3>2. Onward(p, toQueue, toWorld, tm, toQueue', toWorld', tm1)
      BY <2>4, <2>6, <3>1, OnwardTwice
    <3> QED
      BY <3>2 DEF tm, tm1
  <2> QED
    BY <2>1, <2>5, <2>6
<1> QED
  BY <1>1, <1>3, OrderlyMoves

LEMMA QueueKindsOnly ==
    ASSUME NEW m \in ToQueue
    PROVE  m.type \notin {"expired", "invite"}
BY DEF ToQueue, Joins, Answers, Gone, Expiries, Adds, Removes, NewStatuses, Decreases, Schedules

Quiet(m) == m.type \notin {"expire", "join", "answer", "gone"}

LEMMA QuietIs ==
    ASSUME NEW m \in ToQueue, Quiet(m), NEW p
    PROVE  ~Concerns(m, p)
BY QueueKindsOnly DEF Quiet, Concerns, Asks, IsJoin

LEMMA PlainOne ==
    ASSUME NEW q \in Seq(ToQueue), NEW m \in ToQueue, Quiet(m), NEW q1, q1 = Append(q, m)
    PROVE  Plain(q, q1)
<1>1. /\ Len(q) \in Nat /\ Len(q1) = Len(q) + 1 /\ q1[Len(q) + 1] = m
      /\ \A n \in 1..Len(q) : n \in 1..Len(q1) /\ q1[n] = q[n]
  OBVIOUS
<1>2. \A n \in 1..Len(q1) : n \in 1..Len(q) \/ n = Len(q) + 1
  BY <1>1
<1> QED
  BY <1>1, <1>2 DEF Plain, Quiet

LEMMA PlainTwice ==
    ASSUME NEW q, NEW q1, NEW q2, Plain(q, q1), Plain(q1, q2)
    PROVE  Plain(q, q2)
BY DEF Plain

LEMMA SilentSelf ==
    ASSUME Basis, toQueue' = toQueue
    PROVE  Silent /\ Plain(toQueue, toQueue')
<1>1. toQueue \in Seq(ToQueue)
  BY DEF Basis, Typed
<1> QED
  BY <1>1, GrowsSelf DEF Silent, Plain

LEMMA SilentOne ==
    ASSUME Basis, NEW m \in ToQueue, Quiet(m), toQueue' = Append(toQueue, m)
    PROVE  Silent /\ Plain(toQueue, toQueue')
<1>1. toQueue \in Seq(ToQueue)
  BY DEF Basis, Typed
<1>2. \A p \in Players : ~Concerns(m, p)
  BY QuietIs
<1>3. Silent
  BY <1>1, <1>2, GrowsOne DEF Silent
<1>4. Plain(toQueue, toQueue')
  BY <1>1, PlainOne
<1> QED
  BY <1>3, <1>4

LEMMA SilentTwo ==
    ASSUME Basis, NEW m \in ToQueue, Quiet(m), NEW x \in ToQueue, Quiet(x), toQueue' = Append(Append(toQueue, m), x)
    PROVE  Silent /\ Plain(toQueue, toQueue')
<1>1. toQueue \in Seq(ToQueue)
  BY DEF Basis, Typed
<1> DEFINE q1 == Append(toQueue, m)
<1>2. q1 \in Seq(ToQueue)
  BY <1>1
<1>3. \A p \in Players : ~Concerns(m, p) /\ ~Concerns(x, p)
  BY QuietIs
<1>4. \A p \in Players : Grows(toQueue, q1, p)
  BY <1>1, <1>3, GrowsOne
<1>5. toQueue' = Append(q1, x)
  OBVIOUS
<1> HIDE DEF q1
<1>6. \A p \in Players : Grows(q1, toQueue', p)
  BY <1>2, <1>3, <1>5, GrowsOne
<1>7. Silent
  BY <1>4, <1>6, GrowsTwice DEF Silent
<1>8. Plain(toQueue, q1) /\ Plain(q1, toQueue')
  BY <1>1, <1>2, <1>5, PlainOne DEF q1
<1>9. Plain(toQueue, toQueue')
  BY <1>8, PlainTwice
<1> QED
  BY <1>7, <1>9

\* A battleground is taken off the list, and perhaps the queue is told of its status.
LEMMA SilentUnlist ==
    ASSUME Basis, NEW i \in Instances, toQueue' = toQueue \o Unlist(i)
    PROVE  Silent /\ Plain(toQueue, toQueue')
<1> DEFINE m == [type |-> "remove", inst |-> i]
           news == <<m>>
<1>1. toQueue \in Seq(ToQueue)
  BY DEF Basis, Typed
<1>2. m \in ToQueue /\ Quiet(m)
  BY DEF ToQueue, Removes, Quiet
<1>3. Unlist(i) = IF bgs[i].listed THEN news ELSE <<>>
  BY DEF Unlist
<1> HIDE DEF m
<1>4. CASE bgs[i].listed
  <2>1. toQueue' = Append(toQueue, m)
    BY <1>1, <1>2, <1>3, <1>4, AppendedOne
  <2> QED
    BY <1>2, <2>1, SilentOne
<1>5. CASE ~bgs[i].listed
  <2>1. toQueue' = toQueue
    BY <1>1, <1>3, <1>5
  <2> QED
    BY <2>1, SilentSelf
<1> QED
  BY <1>4, <1>5

LEMMA SilentEnd ==
    ASSUME Basis, NEW i \in Instances, NEW x \in ToQueue, Quiet(x), toQueue' = Append(toQueue \o Unlist(i), x)
    PROVE  Silent /\ Plain(toQueue, toQueue')
<1> DEFINE m == [type |-> "remove", inst |-> i]
           news == <<m>>
<1>1. toQueue \in Seq(ToQueue)
  BY DEF Basis, Typed
<1>2. m \in ToQueue /\ Quiet(m)
  BY DEF ToQueue, Removes, Quiet
<1>3. Unlist(i) = IF bgs[i].listed THEN news ELSE <<>>
  BY DEF Unlist
<1> HIDE DEF m
<1>4. CASE bgs[i].listed
  <2>1. toQueue \o Unlist(i) = Append(toQueue, m)
    BY <1>1, <1>2, <1>3, <1>4, AppendedOne
  <2>2. toQueue' = Append(Append(toQueue, m), x)
    BY <2>1
  <2> QED
    BY <1>2, <2>2, SilentTwo
<1>5. CASE ~bgs[i].listed
  <2>1. toQueue \o Unlist(i) = toQueue
    BY <1>1, <1>3, <1>5
  <2>2. toQueue' = Append(toQueue, x)
    BY <2>1
  <2> QED
    BY <2>2, SilentOne
<1> QED
  BY <1>4, <1>5

LEMMA SilentVacate ==
    ASSUME Basis, NEW p \in Players, NEW i \in Instances, bgs[i].status # "none", Vacate(p, i)
    PROVE  Silent /\ Plain(toQueue, toQueue') /\ astray' = astray
<1> DEFINE t == TeamOf[p]
           old == bgs[i]
           bg == [old EXCEPT !.players = @ \ {p}, !.offline = @ \ {p}, !.invited[t] = Less(@)]
           e == [inst |-> i, status |-> bg.status, invited |-> bg.invited]
           decrease == [type |-> "decrease", inst |-> i, team |-> t]
           add == [type |-> "add", entry |-> e]
           m == IF bg.listed THEN decrease ELSE add
           x == [type |-> "schedule"]
<1>1. toQueue' = toQueue \o (IF Ended(i) THEN <<>> ELSE <<m, x>>) /\ astray' = astray
  BY DEF Vacate
<1>2. toQueue \in Seq(ToQueue) /\ old \in Grounds /\ t \in Teams
  BY GroundsAre, QueueAssumption DEF Basis, Typed
<1>3. bg \in Grounds /\ bg.invited \in Counts /\ bg.status \in Statuses
  <2> HIDE DEF old, t
  <2>1. /\ bg \in Grounds /\ bg.listed = old.listed /\ bg.status = old.status /\ bg.invited \in Counts
        /\ old.listed \in BOOLEAN /\ old.status \in Statuses
    BY <1>2, VacatedGround
  <2> QED
    BY <2>1
<1> HIDE DEF bg
<1>4. e \in Entries
  BY <1>3 DEF Entries
<1> HIDE DEF e
<1>5. decrease \in ToQueue /\ Quiet(decrease)
  BY <1>2 DEF ToQueue, Decreases, Quiet
<1>6. add \in ToQueue /\ Quiet(add)
  BY <1>4 DEF ToQueue, Adds, Quiet
<1>7. x \in ToQueue /\ Quiet(x)
  BY DEF ToQueue, Schedules, Quiet
<1> HIDE DEF decrease, add, x
<1>8. m \in ToQueue /\ Quiet(m)
  BY <1>5, <1>6
<1> HIDE DEF m
<1>9. CASE Ended(i)
  <2>1. toQueue' = toQueue
    BY <1>1, <1>2, <1>9
  <2> QED
    BY <1>1, <2>1, SilentSelf
<1>10. CASE ~Ended(i)
  <2>1. toQueue' = Append(Append(toQueue, m), x)
    BY <1>1, <1>2, <1>7, <1>8, <1>10, AppendedTwo
  <2> QED
    BY <1>1, <1>7, <1>8, <2>1, SilentTwo
<1> QED
  BY <1>9, <1>10

LEMMA TimersOne ==
    ASSUME Basis, NEW p \in Players, NEW r, player' = [player EXCEPT ![p] = r],
           r.timers = player[p].timers \/ r.timers = <<>>
    PROVE  TimersStay
<1>1. player \in [Players -> Records]
  BY DEF Basis, Typed
<1>2. \A q \in Players : player'[q] = IF q = p THEN r ELSE player[q]
  BY <1>1
<1> QED
  BY <1>2 DEF TimersStay

LEMMA TimersSelf ==
    ASSUME player' = player
    PROVE  TimersStay
BY DEF TimersStay

LEMMA LessIs ==
    ASSUME Basis, NEW type, Deliver(type)
    PROVE  WorldOrLess
BY Delivered DEF WorldOrLess

LEMMA RegisteredOrderly ==
    ASSUME Basis, Orderly, PlayersRegistered
    PROVE  Orderly'
<1> DEFINE m == Head(toWorld)
<1>1. /\ Deliver("joined") /\ UNCHANGED <<toQueue, astray>> /\ UNCHANGED queueVars
      /\ player' = [p \in Players |-> IF p \in m.party /\ player[p].online
                                     THEN [player[p] EXCEPT !.reg = TRUE, !.invited = 0] ELSE player[p]]
  BY DEF PlayersRegistered, history
<1>2. ASSUME NEW p \in Players PROVE player'[p].timers = player[p].timers
  <2> DEFINE old == player[p]
  <2>1. old \in Records /\ 0 \in Instances \cup {0}
    BY PlayersAre
  <2> DEFINE r == [old EXCEPT !.reg = TRUE, !.invited = 0]
  <2> HIDE DEF old
  <2>2. r \in Records /\ r.timers = old.timers
    BY <2>1, RegRecord
  <2>3. player'[p] = IF p \in m.party /\ player[p].online THEN r ELSE player[p]
    BY <1>1 DEF old
  <2> HIDE DEF r
  <2> QED
    BY <2>1, <2>2, <2>3 DEF old
<1>3. TimersStay
  BY <1>2 DEF TimersStay
<1> QED
  BY <1>1, <1>3, LessIs, SilentSelf, WorldOrderly

LEMMA LeftQueueOrderly ==
    ASSUME Basis, Orderly, PlayerLeftQueue
    PROVE  Orderly'
<1> DEFINE p == Head(toWorld).player
           old == player[p]
           r == [old EXCEPT !.reg = FALSE, !.invited = 0]
<1>1. /\ Deliver("left") /\ UNCHANGED <<toQueue, astray>> /\ UNCHANGED queueVars
      /\ player' = IF ~player[p].online THEN player ELSE [player EXCEPT ![p].reg = FALSE, ![p].invited = 0]
  BY DEF PlayerLeftQueue, history
<1>2. Head(toWorld) \in ToWorld /\ Head(toWorld).type = "left"
  BY <1>1, Delivered
<1>3. p \in Players
  BY <1>2, WorldKinds DEF Lefts
<1>4. player \in [Players -> Records] /\ old \in Records /\ 0 \in Instances \cup {0}
  BY <1>3, PlayersAre
<1>5. [player EXCEPT ![p].reg = FALSE, ![p].invited = 0] = [player EXCEPT ![p] = r]
  BY <1>3, <1>4
<1> HIDE DEF old
<1>6. r.timers = old.timers
  BY <1>4, RegRecord
<1> HIDE DEF r, p
<1>7. player' = player \/ player' = [player EXCEPT ![p] = r]
  BY <1>1, <1>5
<1>8. TimersStay
  BY <1>3, <1>6, <1>7, TimersOne, TimersSelf DEF old
<1> QED
  BY <1>1, <1>8, LessIs, SilentSelf, WorldOrderly

LEMMA SendOrderly ==
    ASSUME Basis, Orderly, SendToBattleGround
    PROVE  Orderly'
<1> DEFINE m == Head(toWorld)
           p == m.player
           at == m.inst
           going == Exists(m.inst)
           old == player[p]
           r == [old EXCEPT !.at = at, !.going = going]
<1>1. /\ Deliver("port") /\ UNCHANGED <<toQueue, astray>> /\ UNCHANGED queueVars
      /\ player' = IF ~player[p].online THEN player ELSE [player EXCEPT ![p].at = at, ![p].going = going]
  BY DEF SendToBattleGround, history
<1>2. Head(toWorld) \in ToWorld /\ Head(toWorld).type = "port"
  BY <1>1, Delivered
<1>3. p \in Players
  BY <1>2, WorldKinds DEF Ports
<1>4. player \in [Players -> Records] /\ old \in Records
  BY <1>3, PlayersAre
<1> HIDE DEF at, going
<1>6. [player EXCEPT ![p].at = at, ![p].going = going] = [player EXCEPT ![p] = r]
  BY <1>3, <1>4
<1> HIDE DEF old
<1>7. r.timers = old.timers
  BY <1>4 DEF Records
<1> HIDE DEF r, p
<1>8. player' = player \/ player' = [player EXCEPT ![p] = r]
  BY <1>1, <1>6
<1>9. TimersStay
  BY <1>3, <1>7, <1>8, TimersOne, TimersSelf DEF old
<1> QED
  BY <1>1, <1>9, LessIs, SilentSelf, WorldOrderly

LEMMA CountOrderly ==
    ASSUME Basis, Orderly, SetInvitedCount
    PROVE  Orderly'
<1>1. Deliver("invited") /\ UNCHANGED <<toQueue, player, astray>> /\ UNCHANGED queueVars
  BY DEF SetInvitedCount, history
<1> QED
  BY <1>1, LessIs, SilentSelf, TimersSelf, WorldOrderly

LEMMA CreateOrderly ==
    ASSUME Basis, Orderly, CreateNewBattleGround
    PROVE  Orderly'
<1> DEFINE told == StatusMessage(Head(toWorld).inst, "join")
<1>1. /\ Deliver("create") /\ toQueue' = Append(toQueue, told) /\ UNCHANGED <<player, astray>> /\ UNCHANGED queueVars
  BY DEF CreateNewBattleGround, history
<1>2. Head(toWorld) \in ToWorld /\ Head(toWorld).type = "create"
  BY <1>1, Delivered
<1>3. Head(toWorld).inst \in Instances
  BY <1>2, WorldKinds DEF Creations
<1>4. told \in ToQueue /\ Quiet(told)
  BY <1>3 DEF StatusMessage, ToQueue, NewStatuses, Statuses, Quiet
<1> HIDE DEF told
<1> QED
  BY <1>1, <1>4, LessIs, SilentOne, TimersSelf, WorldOrderly

LEMMA HandlePortOrderly ==
    ASSUME Basis, Orderly, NEW p \in Players, NEW enter \in BOOLEAN, HandleBattlefieldPortOpcode(p, enter)
    PROVE  Orderly'
<1> DEFINE m == [type |-> "answer", player |-> p, enter |-> enter]
<1>1. /\ toQueue' = Append(toQueue, m) /\ UNCHANGED <<toWorld, player, astray>> /\ UNCHANGED queueVars
  BY DEF HandleBattlefieldPortOpcode, worldVars, history
<1>2. m \in ToQueue /\ \A s \in Players : ~Concerns(m, s)
  BY DEF ToQueue, Answers, Concerns, Asks, IsJoin
<1> HIDE DEF m
<1>3. WorldOrLess
  BY <1>1 DEF WorldOrLess
<1>4. toQueue \in Seq(ToQueue)
  BY DEF Basis, Typed
<1>5. Silent
  BY <1>1, <1>2, <1>4, GrowsOne DEF Silent
<1> QED
  BY <1>1, <1>3, <1>5, TimersSelf, WorldOrderly

LEMMA ArriveOrderly ==
    ASSUME Basis, Orderly, NEW p \in Players, Arrive(p)
    PROVE  Orderly'
<1> DEFINE i == player[p].at
           old == player[p]
           at == IF Exists(i) THEN i ELSE 0
           r == [old EXCEPT !.going = FALSE, !.at = at]
<1>1. /\ player' = [player EXCEPT ![p].going = FALSE, ![p].at = IF Exists(@) THEN @ ELSE 0]
      /\ UNCHANGED <<toQueue, toWorld, astray>> /\ UNCHANGED queueVars
  BY DEF Arrive, history
<1>2. player \in [Players -> Records] /\ old \in Records
  BY PlayersAre
<1>3. player' = [player EXCEPT ![p] = r]
  BY <1>1, <1>2
<1> HIDE DEF at, old
<1>4. r.timers = old.timers
  BY <1>2 DEF Records
<1> HIDE DEF r
<1>5. TimersStay
  BY <1>3, <1>4, TimersOne DEF old
<1>6. WorldOrLess
  BY <1>1 DEF WorldOrLess
<1> QED
  BY <1>1, <1>5, <1>6, SilentSelf, WorldOrderly

LEMMA LeaveOrderly ==
    ASSUME Basis, Orderly, NEW p \in Players, NEW i \in Instances, RemovePlayerAtLeave(p, i)
    PROVE  Orderly'
<1> DEFINE old == player[p]
           r == [old EXCEPT !.reg = FALSE, !.invited = 0, !.at = 0]
<1>1. /\ p \in bgs[i].players /\ Vacate(p, i) /\ UNCHANGED toWorld /\ UNCHANGED queueVars
      /\ player' = IF ~player[p].online THEN player
                   ELSE [player EXCEPT ![p].reg = FALSE, ![p].invited = 0, ![p].at = 0]
  BY DEF RemovePlayerAtLeave
<1>2. bgs[i].status # "none"
  BY <1>1, GroundsAre
<1>3. Silent /\ astray' = astray
  BY <1>1, <1>2, SilentVacate
<1>4. player \in [Players -> Records] /\ old \in Records
  BY PlayersAre
<1>5. [player EXCEPT ![p].reg = FALSE, ![p].invited = 0, ![p].at = 0] = [player EXCEPT ![p] = r]
  BY <1>4
<1> HIDE DEF old
<1>6. r.timers = old.timers
  BY <1>4 DEF Records
<1> HIDE DEF r
<1>7. player' = player \/ player' = [player EXCEPT ![p] = r]
  BY <1>1, <1>5
<1>8. TimersStay
  BY <1>6, <1>7, TimersOne, TimersSelf DEF old
<1>9. WorldOrLess
  BY <1>1 DEF WorldOrLess
<1> QED
  BY <1>1, <1>3, <1>8, <1>9, WorldOrderly

LEMMA LoadOrderly ==
    ASSUME Basis, Orderly, NEW p \in Players, LoadFromDB(p)
    PROVE  Orderly'
<1> DEFINE i == player[p].at
           there == Exists(i) /\ p \in bgs[i].players
           old == player[p]
           back == [old EXCEPT !.online = TRUE, !.reg = TRUE, !.invited = i]
           fresh == [NoPlayer EXCEPT !.online = TRUE]
<1>1. /\ UNCHANGED toWorld /\ UNCHANGED queueVars
      /\ \/ player' = [player EXCEPT ![p] = back] /\ UNCHANGED <<toQueue, astray>>
         \/ there /\ Vacate(p, i) /\ player' = [player EXCEPT ![p] = fresh]
         \/ player' = [player EXCEPT ![p] = fresh] /\ UNCHANGED <<toQueue, astray>>
  BY DEF LoadFromDB, history
<1>2. old \in Records
  BY PlayersAre
<1>3. i \in Instances \cup {0}
  BY <1>2 DEF Records
<1>4. there => i \in Instances /\ bgs[i].status # "none"
  BY DEF Exists
<1>5. fresh.timers = <<>>
  BY <1>3, NewPlayer
<1> HIDE DEF fresh, i, old
<1>6. back.timers = old.timers
  BY <1>2 DEF Records
<1> HIDE DEF back
<1>7. TimersStay
  BY <1>1, <1>5, <1>6, TimersOne DEF old
<1>8. there /\ Vacate(p, i) => Silent /\ astray' = astray
  BY <1>4, SilentVacate
<1>9. Silent /\ astray' = astray
  BY <1>1, <1>8, SilentSelf
<1>10. WorldOrLess
  BY <1>1 DEF WorldOrLess
<1> QED
  BY <1>1, <1>7, <1>9, <1>10, WorldOrderly

LEMMA LogoutOrderly ==
    ASSUME Basis, Orderly, NEW p \in Players, LogoutPlayer(p)
    PROVE  Orderly'
<1> DEFINE i == player[p].at
           r == [NoPlayer EXCEPT !.at = i]
           gone == [type |-> "gone", player |-> p]
<1>1. /\ UNCHANGED toWorld /\ UNCHANGED queueVars /\ astray \subseteq astray'
      /\ player' = [player EXCEPT ![p] = r]
      /\ toQueue' = toQueue \/ toQueue' = Append(toQueue, gone)
  BY DEF LogoutPlayer
<1>2. player[p] \in Records
  BY PlayersAre
<1>3. i \in Instances \cup {0}
  BY <1>2 DEF Records
<1>4. r.timers = <<>>
  BY <1>3, NewPlayer
<1> HIDE DEF r
<1>5. TimersStay
  BY <1>1, <1>4, TimersOne
<1>6. gone \in ToQueue /\ \A s \in Players : ~Concerns(gone, s)
  BY DEF ToQueue, Gone, Concerns, Asks, IsJoin
<1> HIDE DEF gone
<1>9. toQueue \in Seq(ToQueue)
  BY DEF Basis, Typed
<1>7. Silent
  BY <1>1, <1>6, <1>9, GrowsSelf, GrowsOne DEF Silent
<1>8. WorldOrLess
  BY <1>1 DEF WorldOrLess
<1> QED
  BY <1>1, <1>5, <1>7, <1>8, WorldOrderly

LEMMA GroundOrderly ==
    ASSUME Basis, Orderly, NEW i \in Instances, StartMatch(i) \/ EndBattleGround(i) \/ RemoveBattleGround(i)
    PROVE  Orderly'
<1> DEFINE progress == StatusMessage(i, "progress")
           leave == StatusMessage(i, "leave")
<1>1. /\ UNCHANGED <<toWorld, player, astray>> /\ UNCHANGED queueVars
      /\ \/ toQueue' = Append(toQueue, progress)
         \/ toQueue' = Append(toQueue \o Unlist(i), leave)
         \/ toQueue' = toQueue \o Unlist(i)
  BY DEF StartMatch, EndBattleGround, RemoveBattleGround, history
<1>2. progress \in ToQueue /\ Quiet(progress) /\ leave \in ToQueue /\ Quiet(leave)
  BY DEF StatusMessage, ToQueue, NewStatuses, Statuses, Quiet
<1> HIDE DEF progress, leave
<1>3. Silent
  BY <1>1, <1>2, SilentOne, SilentEnd, SilentUnlist
<1>4. WorldOrLess
  BY <1>1 DEF WorldOrLess
<1> QED
  BY <1>1, <1>3, <1>4, TimersSelf, WorldOrderly

\* The invitation becomes an event of its player, if he is there.
LEMMA InvitedOrderly ==
    ASSUME Basis, Orderly, PlayerInvited
    PROVE  Orderly'
<1> DEFINE m == Head(toWorld)
           p == m.player
           old == player[p]
           inst == IF old.reg THEN m.inst ELSE old.invited
           e == [inst |-> m.inst, due |-> m.due]
           timers == Append(old.timers, e)
           r == [old EXCEPT !.invited = inst, !.timers = timers]
<1>1. /\ Deliver("invite") /\ UNCHANGED <<toQueue, astray>> /\ UNCHANGED queueVars
      /\ player' = IF ~player[p].online THEN player
                   ELSE [player EXCEPT ![p].invited = IF player[p].reg THEN m.inst ELSE @,
                                       ![p].timers = Append(@, e)]
  BY DEF PlayerInvited, history
<1>2. Head(toWorld) \in ToWorld /\ Head(toWorld).type = "invite" /\ toWorld # <<>> /\ toWorld' = Tail(toWorld)
  BY <1>1, Delivered
<1>3. p \in Players /\ m.inst \in Instances /\ m.due \in 1..Requests
  BY <1>2, WorldKinds DEF Invites
<1>4. player \in [Players -> Records] /\ old \in Records /\ toQueue \in Seq(ToQueue) /\ toWorld \in Seq(ToWorld)
  BY <1>3, PlayersAre DEF Basis, Typed
<1>5. old.timers \in Seq(Events)
  BY <1>4, RecordIs
<1>6. e \in Events /\ e.due = m.due
  BY <1>3 DEF Events
<1>7. [player EXCEPT ![p].invited = IF player[p].reg THEN m.inst ELSE @, ![p].timers = Append(@, e)]
       = [player EXCEPT ![p] = r]
  BY <1>3, <1>4
<1> HIDE DEF e, timers, inst, old
<1>8. r.timers = timers
  BY <1>4 DEF Records
<1> HIDE DEF r
<1>9. CASE ~player[p].online
  <2>1. player' = player
    BY <1>1, <1>9
  <2>2. TimersStay
    BY <2>1, TimersSelf
  <2> QED
    BY <1>1, <2>2, LessIs, SilentSelf, WorldOrderly
<1>10. CASE player[p].online
  <2>1. \A s \in Players : player'[s] = IF s = p THEN r ELSE player[s]
    BY <1>1, <1>4, <1>7, <1>10
  <2>2. ASSUME NEW s \in Players
        PROVE  Onward(s, toQueue, toWorld, player[s].timers, toQueue', toWorld', player'[s].timers)
    <3>1. CASE s = p
      <4>1. player'[s].timers = timers /\ player[s].timers = old.timers
        BY <1>8, <2>1, <3>1 DEF old
      <4>2. m.player = s
        BY <3>1
      <4> DEFINE tm == old.timers
      <4>3. timers = Append(tm, e) /\ tm \in Seq(Events)
        BY <1>5 DEF timers
      <4> HIDE DEF tm
      <4>4. Onward(s, toQueue, toWorld, tm, toQueue, Tail(toWorld), Append(tm, e))
        BY <1>2, <1>4, <1>6, <4>2, <4>3, OnwardInvited
      <4> QED
        BY <1>1, <1>2, <4>1, <4>3, <4>4 DEF tm
    <3>2. CASE s # p
      <4>1. player'[s].timers = player[s].timers
        BY <2>1, <3>2
      <4> DEFINE tm == player[s].timers
      <4> HIDE DEF tm
      <4>2. Onward(s, toQueue, toWorld, tm, toQueue, Tail(toWorld), tm)
        BY <1>2, <1>4, OnwardWorldTail
      <4> QED
        BY <1>1, <1>2, <4>1, <4>2 DEF tm
    <3> QED
      BY <3>1, <3>2
  <2>3. UNCHANGED <<groups, queued>> /\ astray \subseteq astray'
    BY <1>1 DEF queueVars
  <2> QED
    BY <2>2, <2>3, OrderlyMoves
<1> QED
  BY <1>9, <1>10

LEMMA ExpiredOrderly ==
    ASSUME Basis, Orderly, RemoveEventExecute
    PROVE  Orderly'
<1> DEFINE m == Head(toWorld)
           running == Exists(m.inst) /\ ~Ended(m.inst)
           e == [type |-> "expire", player |-> m.player, inst |-> m.inst, due |-> m.due, running |-> running]
<1>1. /\ Deliver("expired") /\ UNCHANGED <<player, astray>> /\ UNCHANGED queueVars
      /\ toQueue' = IF ~player[m.player].online \/ ~player[m.player].reg THEN toQueue ELSE Append(toQueue, e)
  BY DEF RemoveEventExecute, history
<1>2. Head(toWorld) \in ToWorld /\ Head(toWorld).type = "expired" /\ toWorld # <<>> /\ toWorld' = Tail(toWorld)
  BY <1>1, Delivered
<1>3. m.player \in Players /\ m.inst \in Instances /\ m.due \in 1..Requests
  BY <1>2, WorldKinds DEF Expired
<1>4. running \in BOOLEAN
  BY DEF Exists, Ended
<1> HIDE DEF running
<1>5. e \in Expiries /\ e.player = m.player /\ e.due = m.due
  BY <1>3, <1>4 DEF Expiries
<1> HIDE DEF e
<1>6. toQueue \in Seq(ToQueue) /\ toWorld \in Seq(ToWorld)
  BY DEF Basis, Typed
<1>7. CASE toQueue' = toQueue
  BY <1>1, <1>7, LessIs, SilentSelf, TimersSelf, WorldOrderly
<1>8. CASE toQueue' = Append(toQueue, e)
  <2>1. ASSUME NEW p \in Players
        PROVE  Onward(p, toQueue, toWorld, player[p].timers, toQueue', toWorld', player'[p].timers)
    <3> DEFINE tm == player[p].timers
    <3> HIDE DEF tm
    <3>1. Onward(p, toQueue, toWorld, tm, Append(toQueue, e), Tail(toWorld), tm)
      BY <1>2, <1>5, <1>6, OnwardExpired
    <3> QED
      BY <1>1, <1>2, <1>8, <3>1 DEF tm
  <2>2. UNCHANGED <<groups, queued>> /\ astray \subseteq astray'
    BY <1>1 DEF queueVars
  <2> QED
    BY <2>1, <2>2, OrderlyMoves
<1> QED
  BY <1>1, <1>7, <1>8

LEMMA RemoveEventOrderly ==
    ASSUME Basis, Orderly, NEW p \in Players, RemoveEvent(p)
    PROVE  Orderly'
<1> DEFINE old == player[p]
           e == Head(old.timers)
           m == [type |-> "expired", player |-> p, inst |-> e.inst, due |-> e.due]
           rest == Tail(old.timers)
           r == [old EXCEPT !.timers = rest]
<1>1. /\ old.timers # <<>> /\ toWorld' = Append(toWorld, m) /\ player' = [player EXCEPT ![p].timers = Tail(@)]
      /\ UNCHANGED <<toQueue, astray>> /\ UNCHANGED queueVars
  BY DEF RemoveEvent, history
<1>2. player \in [Players -> Records] /\ old \in Records /\ toQueue \in Seq(ToQueue) /\ toWorld \in Seq(ToWorld)
  BY PlayersAre DEF Basis, Typed
<1>3. old.timers \in Seq(Events)
  BY <1>2 DEF Records
<1>4. e \in Events
  BY <1>1, <1>3, TailIs
<1>5. player' = [player EXCEPT ![p] = r]
  BY <1>1, <1>2
<1> HIDE DEF e, rest, old
<1>6. r.timers = rest
  BY <1>2 DEF Records
<1> HIDE DEF r
<1>7. m \in Expired /\ m.type = "expired" /\ m.player = p /\ m.due = e.due
  BY <1>4 DEF Expired, Events
<1> HIDE DEF m
<1>8. m \in ToWorld
  BY <1>7 DEF ToWorld
<1>9. \A s \in Players : player'[s] = IF s = p THEN r ELSE player[s]
  BY <1>2, <1>5
<1>10. ASSUME NEW s \in Players
       PROVE  Onward(s, toQueue, toWorld, player[s].timers, toQueue', toWorld', player'[s].timers)
  <2>1. CASE s = p
    <3> DEFINE tm == old.timers
    <3>1. player'[s].timers = Tail(tm) /\ player[s].timers = tm
      BY <1>6, <1>9, <2>1 DEF old, rest
    <3>2. m.due = Head(tm).due /\ tm \in Seq(Events) /\ tm # <<>>
      BY <1>1, <1>3, <1>7 DEF e
    <3> HIDE DEF tm
    <3>3. Onward(s, toQueue, toWorld, tm, toQueue, Append(toWorld, m), Tail(tm))
      BY <1>2, <1>7, <2>1, <3>2, OnwardAsked
    <3> QED
      BY <1>1, <3>1, <3>3
  <2>2. CASE s # p
    <3> DEFINE tm == player[s].timers
    <3>1. player'[s].timers = tm
      BY <1>9, <2>2
    <3> HIDE DEF tm
    <3>2. ~Concerns(m, s)
      BY <1>7, <2>2 DEF Concerns, Asks, IsJoin
    <3>3. Grows(toWorld, toWorld', s) /\ Grows(toQueue, toQueue', s)
      BY <1>1, <1>2, <1>8, <3>2, GrowsOne, GrowsSelf
    <3>4. Onward(s, toQueue, toWorld, tm, toQueue', toWorld', tm)
      BY <3>3, OnwardGrown
    <3> QED
      BY <3>1, <3>4 DEF tm
  <2> QED
    BY <2>1, <2>2
<1>11. UNCHANGED <<groups, queued>> /\ astray \subseteq astray'
  BY <1>1 DEF queueVars
<1> QED
  BY <1>10, <1>11, OrderlyMoves

\* A player for whom nobody has asked, and who has no group, asks.
LEMMA AloneAsked ==
    ASSUME NEW p, NEW q \in Seq(ToQueue), NEW gs, NEW qd, NEW w, NEW tm, Alone(p, q, gs, qd, w, tm),
           NEW m \in Joins, qd[p] = 0, \A n \in 1..Len(q) : ~Asks(q[n], p)
    PROVE  Alone(p, Append(q, m), gs, qd, w, tm)
<1> DEFINE q1 == Append(q, m)
<1>1. m \in ToQueue /\ m.type = "join"
  BY DEF ToQueue, Joins
<1>2. /\ Len(q) \in Nat /\ Len(q1) = Len(q) + 1 /\ q1[Len(q) + 1] = m /\ \A n \in 1..Len(q) : q1[n] = q[n]
  BY <1>1
<1> HIDE DEF q1
<1>3. \A n \in 1..Len(q1) : n \in 1..Len(q) \/ n = Len(q) + 1
  BY <1>2
<1>4. ASSUME NEW k, NEW n, NEW d, Token(k, n, d, q1, w, tm, p) PROVE Token(k, n, d, q, w, tm, p)
  BY <1>1, <1>2, <1>3, <1>4 DEF Token
<1>5. Rising(q1, w, tm, p)
  BY <1>4 DEF Alone, Rising
<1>6. Latest(p, gs, q1, w, tm)
  BY <1>4 DEF Alone, Latest, Within
<1>7. AsksOnce(p, q1, qd)
  <2>1. \A n \in 1..Len(q1) : Asks(q1[n], p) => n = Len(q) + 1
    BY <1>2, <1>3
  <2> QED
    BY <2>1 DEF AsksOnce
<1>8. Alone(p, q1, gs, qd, w, tm)
  BY <1>5, <1>6, <1>7 DEF Alone
<1> QED
  BY <1>8 DEF q1

LEMMA JoinOrderly ==
    ASSUME Basis, Orderly, NEW party \in Parties, HandleBattlemasterJoinOpcode(party)
    PROVE  Orderly'
<1> DEFINE t == TeamOf[CHOOSE p \in party : TRUE]
           n == used'.alliance + used'.horde
           m == [type |-> "join", id |-> n, party |-> party, team |-> t]
<1>1. /\ used[t] < MaxJoins[t] /\ used' = [used EXCEPT ![t] = @ + 1] /\ toQueue' = Append(toQueue, m)
      /\ UNCHANGED <<toWorld, player>> /\ UNCHANGED queueVars
      /\ astray' = astray \cup {p \in party : queued[p] # 0 \/ Under(p, {"join"})}
  BY DEF HandleBattlemasterJoinOpcode, Use, worldVars
<1>2. party \in (SUBSET Players) \ {{}} /\ \A p, q \in party : TeamOf[p] = TeamOf[q]
  BY QueueAssumption
<1>3. (CHOOSE p \in party : TRUE) \in party
  BY <1>2
<1>4. t \in Teams /\ \A p \in party : TeamOf[p] = t
  BY <1>2, <1>3, QueueAssumption
<1>5. used \in Uses /\ toQueue \in Seq(ToQueue) /\ toWorld \in Seq(ToWorld)
  BY Parts DEF SoundQueue, SoundWorld
<1>6. \A s \in Teams : used[s] <= MaxJoins[s]
  BY DEF Basis, Crowd, Numbered, Room
<1> HIDE DEF t
<1>7. n \in 1..Requests
  BY <1>1, <1>4, <1>5, <1>6, OneMoreUse
<1>8. m \in Joins /\ m.party = party /\ m.type = "join"
  BY <1>2, <1>4, <1>7 DEF Joins
<1> HIDE DEF m
<1>9. m \in ToQueue
  BY <1>8 DEF ToQueue
<1> SUFFICES ASSUME NEW p \in Players \ astray' PROVE Alone(p, toQueue', groups', queued', toWorld', player'[p].timers)
  BY DEF Orderly
<1> DEFINE tm == player[p].timers
<1> HIDE DEF tm
<1>10. groups' = groups /\ queued' = queued /\ toWorld' = toWorld /\ player'[p].timers = tm
  BY <1>1 DEF queueVars, tm
<1>11. Alone(p, toQueue, groups, queued, toWorld, tm)
  BY <1>1 DEF Orderly, tm
<1>12. CASE p \in party
  <2>1. queued[p] = 0 /\ ~Under(p, {"join"})
    BY <1>1, <1>12
  <2>2. \A k \in 1..Len(toQueue) : ~Asks(toQueue[k], p)
    <3> SUFFICES ASSUME NEW k \in 1..Len(toQueue), Asks(toQueue[k], p) PROVE FALSE
      OBVIOUS
    <3> DEFINE x == toQueue[k]
    <3>1. x \in ToSet(toQueue) \cup ToSet(toWorld)
      BY <1>5 DEF ToSet
    <3>2. x.type = "join" /\ p \in x.party
      BY DEF Asks, IsJoin
    <3> HIDE DEF x
    <3> QED
      BY <2>1, <3>1, <3>2 DEF Under
  <2>3. Alone(p, Append(toQueue, m), groups, queued, toWorld, tm)
    BY <1>5, <1>8, <1>11, <2>1, <2>2, AloneAsked
  <2> QED
    BY <1>1, <1>10, <2>3
<1>13. CASE p \notin party
  <2>1. ~Concerns(m, p)
    BY <1>8, <1>13 DEF Concerns, Asks
  <2>2. Grows(toQueue, toQueue', p) /\ Grows(toWorld, toWorld, p)
    BY <1>1, <1>5, <1>9, <2>1, GrowsOne, GrowsSelf
  <2>3. Onward(p, toQueue, toWorld, tm, toQueue', toWorld, tm)
    BY <2>2, OnwardGrown
  <2>4. Alone(p, toQueue', groups, queued, toWorld, tm)
    BY <1>11, <2>3, StaysSelf, AloneOnward
  <2> QED
    BY <1>10, <2>4
<1> QED
  BY <1>12, <1>13

-----------------------------------------------------------------------------
\* The invariant, and what an event may do.

LEMMA OrderlyInit ==
    ASSUME Init
    PROVE  Orderly
<1>1. /\ Len(toQueue) = 0 /\ Len(toWorld) = 0 /\ \A t \in Teams : Len(groups[t]) = 0
      /\ \A p \in Players : Len(player[p].timers) = 0
  BY DEF Init, NoPlayer
<1> SUFFICES ASSUME NEW p \in Players PROVE Alone(p, toQueue, groups, queued, toWorld, player[p].timers)
  BY DEF Orderly
<1> DEFINE tm == player[p].timers
<1>2. Len(tm) = 0
  BY <1>1
<1> HIDE DEF tm
<1>3. 1..0 = {}
  OBVIOUS
<1>4. \A k, n, d : ~Token(k, n, d, toQueue, toWorld, tm, p)
  BY <1>1, <1>2, <1>3 DEF Token
<1>5. Rising(toQueue, toWorld, tm, p)
  BY <1>4 DEF Rising
<1>6. Own(p, groups, queued) /\ Latest(p, groups, toQueue, toWorld, tm) /\ AsksOnce(p, toQueue, queued)
  BY <1>1, <1>3 DEF Own, Latest, AsksOnce
<1>7. Alone(p, toQueue, groups, queued, toWorld, tm)
  BY <1>5, <1>6 DEF Alone
<1> QED
  BY <1>7 DEF tm

LEMMA OrderlyStutter ==
    ASSUME Orderly, UNCHANGED vars
    PROVE  Orderly'
<1>1. UNCHANGED <<toQueue, toWorld, queued, groups, player, astray>>
  BY DEF vars, queueVars, worldVars, history
<1> QED
  BY <1>1 DEF Orderly

LEMMA OrderlyNext ==
    ASSUME Basis, Orderly, [Next]_vars
    PROVE  Orderly'
<1>1. CASE QueueThread
  BY <1>1, AddGroupOrderly, PortOrderly, LoggedOutOrderly, TimedOutOrderly, ListOrderly, UpdateOrderly DEF QueueThread
<1>2. CASE WorldMessages
  BY <1>2, RegisteredOrderly, InvitedOrderly, CountOrderly, CreateOrderly, SendOrderly, LeftQueueOrderly, ExpiredOrderly
     DEF WorldMessages
<1>3. CASE \E party \in Parties : HandleBattlemasterJoinOpcode(party)
  BY <1>3, JoinOrderly
<1>4. ASSUME NEW p \in Players, \E enter \in BOOLEAN : HandleBattlefieldPortOpcode(p, enter) PROVE Orderly'
  BY <1>4, HandlePortOrderly
<1>5. ASSUME NEW p \in Players, RemoveEvent(p) \/ Arrive(p) \/ LogoutPlayer(p) \/ LoadFromDB(p) PROVE Orderly'
  BY <1>5, RemoveEventOrderly, ArriveOrderly, LogoutOrderly, LoadOrderly
<1>6. ASSUME NEW p \in Players, NEW i \in Instances, RemovePlayerAtLeave(p, i) PROVE Orderly'
  BY <1>6, LeaveOrderly
<1>7. ASSUME NEW i \in Instances, StartMatch(i) \/ EndBattleGround(i) \/ RemoveBattleGround(i) PROVE Orderly'
  BY <1>7, GroundOrderly
<1>8. CASE UNCHANGED vars
  BY <1>8, OrderlyStutter
<1> QED
  BY <1>1, <1>2, <1>3, <1>4, <1>5, <1>6, <1>7, <1>8 DEF Next

LEMMA OrderlyHolds == Spec => [](Basis /\ Orderly)
<1>1. Init => Basis /\ Orderly
  BY BasisInit, OrderlyInit
<1>2. (Basis /\ Orderly) /\ [Next]_vars => (Basis /\ Orderly)'
  BY BasisNext, OrderlyNext
<1> QED
  BY <1>1, <1>2, PTL DEF Spec

\* An event that ends an invitation is the last there is: a later one would be for a later time than the group's.
LEMMA LastEvent ==
    ASSUME Basis, Orderly, NEW p \in Players \ astray, queued[p] # 0, queued'[p] = 0, TimedOut
    PROVE  player[p].timers = <<>> /\ ~Under(p, {"invite"})
<1> DEFINE m == Head(toQueue)
           tm == player[p].timers
           due == m.due
<1>1. /\ Take("expire") /\ m \in Expiries /\ m.player \in Players
      /\ UNCHANGED <<queued, groups>> \/ (IsPlayerInvited(m) /\ Leaves(m.player))
  BY TimedOutIs
<1>2. /\ toQueue \in Seq(ToQueue) /\ toWorld \in Seq(ToWorld) /\ queued \in [Players -> Nat] /\ player[p] \in Records
      /\ Crowd /\ Typed
  BY PlayersAre DEF Basis, Typed
<1>3. IsPlayerInvited(m) /\ Leaves(m.player)
  BY <1>1
<1>4. p = m.player
  BY <1>1, <1>2, <1>3 DEF Leaves
<1>5. GroupOf(p).inst = m.inst /\ GroupOf(p).due = due /\ m.inst # 0 /\ due \in 1..Requests
  <2>1. m.inst \in Instances /\ due \in 1..Requests /\ m.inst # 0
    BY <1>1, InstancesAre DEF Expiries
  <2> QED
    BY <1>3, <1>4, <2>1 DEF IsPlayerInvited
<1>6. Alone(p, toQueue, groups, queued, toWorld, tm)
  BY DEF Orderly
<1>7. tm \in Seq(Events)
  BY <1>2, RecordIs
<1> HIDE DEF tm
<1>8. Within(toQueue, toWorld, tm, p, due)
  <2>1. PICK n \in 1..Len(groups[TeamOf[p]]) : groups[TeamOf[p]][n] = GroupOf(p) /\ p \in GroupOf(p).players
    BY <1>2, GroupFound
  <2>2. TeamOf[p] \in Teams
    BY QueueAssumption
  <2>3. Latest(p, groups, toQueue, toWorld, tm)
    BY <1>6 DEF Alone
  <2> QED
    BY <1>5, <2>1, <2>2, <2>3 DEF Latest
<1>9. Token(1, 1, due, toQueue, toWorld, tm, p)
  <2>1. toQueue # <<>> /\ m.type = "expire"
    BY <1>1 DEF Take
  <2>2. 1 \in 1..Len(toQueue) /\ toQueue[1] = m
    BY <1>2, <2>1
  <2> QED
    BY <1>4, <2>1, <2>2 DEF Token
<1>10. ASSUME NEW k \in {3, 4}, NEW n, NEW d \in Nat, Token(k, n, d, toQueue, toWorld, tm, p) PROVE FALSE
  <2>1. Rising(toQueue, toWorld, tm, p) /\ 1 < k
    BY <1>6 DEF Alone
  <2>2. due < d
    BY <1>9, <1>10, <2>1 DEF Rising
  <2>3. d <= due
    BY <1>8, <1>10 DEF Within
  <2> HIDE DEF due
  <2> QED
    BY <1>5, <2>2, <2>3
<1> HIDE DEF due
<1>11. tm = <<>>
  <2> SUFFICES ASSUME tm # <<>> PROVE FALSE
    OBVIOUS
  <2> DEFINE d == tm[1].due
  <2>1. 1 \in 1..Len(tm) /\ tm[1] \in Events
    BY <1>7
  <2>2. d \in Nat
    BY <2>1 DEF Events
  <2>3. Token(3, 1, d, toQueue, toWorld, tm, p)
    BY <2>1 DEF Token
  <2> HIDE DEF d
  <2> QED
    BY <1>10, <2>2, <2>3
<1>12. ~Under(p, {"invite"})
  <2> SUFFICES ASSUME Under(p, {"invite"}) PROVE FALSE
    OBVIOUS
  <2>1. PICK x \in ToSet(toQueue) \cup ToSet(toWorld) : x.type = "invite" /\ x.player = p
    BY DEF Under
  <2>2. CASE x \in ToSet(toQueue)
    <3>1. x \in ToQueue
      BY <1>2, <2>2 DEF ToSet
    <3> QED
      BY <2>1, <3>1, QueueKindsOnly
  <2>3. CASE x \in ToSet(toWorld)
    <3>1. PICK n \in 1..Len(toWorld) : toWorld[n] = x
      BY <1>2, <2>3 DEF ToSet
    <3>2. x \in ToWorld
      BY <1>2, <3>1
    <3> DEFINE d == x.due
    <3>3. d \in Nat
      BY <2>1, <3>2, WorldKinds DEF Invites
    <3>4. Token(4, n, d, toQueue, toWorld, tm, p)
      BY <2>1, <3>1 DEF Token
    <3> HIDE DEF d
    <3> QED
      BY <1>10, <3>3, <3>4
  <2> QED
    BY <2>2, <2>3
<1> QED
  BY <1>11, <1>12 DEF tm

\* The event of an invitation (BgQueueRemoveEvent) that takes a player from the queue is the one of the
\* invitation he has: no other event of his is in m_events, and no other invitation is on its way to him.
THEOREM EventsWithdrawTheirOwn == Spec => WithdrawnOnlyWhenDue
<1>1. ASSUME Basis, Orderly, [Next]_vars
      PROVE  [\A p \in Players \ astray : queued[p] # 0 /\ queued'[p] = 0 /\ TimedOut =>
                 player[p].timers = <<>> /\ ~Under(p, {"invite"})]_vars
  <2>1. \A p \in Players \ astray : queued[p] # 0 /\ queued'[p] = 0 /\ TimedOut =>
            player[p].timers = <<>> /\ ~Under(p, {"invite"})
    BY <1>1, LastEvent
  <2> QED
    BY <2>1
<1> QED
  BY <1>1, OrderlyHolds, PTL DEF WithdrawnOnlyWhenDue, Spec
=============================================================================
