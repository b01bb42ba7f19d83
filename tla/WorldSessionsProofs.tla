------------------------ MODULE WorldSessionsProofs -------------------------
(***************************************************************************)
(* Theorems about WorldSessions, for every set of connections and accounts *)
(* and every sequence of limits.  Structure says where a session can be    *)
(* (new, in the list, in the list and in the player queue) and what the    *)
(* loop of UpdateSessions may rely on; Owned when the next LogoutPlayer of  *)
(* a session will do its work; Promise what the length of the player queue *)
(* means.  Each is inductive together with Structure.                *)
(***************************************************************************)
EXTENDS WorldSessions, SequenceTheorems, FiniteSetTheorems, TLAPS

\* A session that UpdateSessions has still to add.
Fresh(x) == /\ session[x] # None /\ x \notin Listed
            /\ session[x].player = "none" /\ ~session[x].inQueue

Elements(q) == {q[i] : i \in DOMAIN q}

Distinct(q) == \A i, j \in DOMAIN q : q[i] = q[j] => i = j

\* Where sessions are.
Places ==
    /\ \A s \in Sockets : conn[s] \in {"away", "found"} => session[s] = None
    /\ \A a \in Accounts : sessions[a] # None =>
          AccountOf[sessions[a]] = a /\ session[sessions[a]] # None
    /\ \A x \in Elements(addQueue) \cup Elements(adding) : Fresh(x)
    /\ Distinct(addQueue) /\ Distinct(adding)
    /\ Elements(addQueue) \cap Elements(adding) = {}

\* What the loop of UpdateSessions has still to reach is in the list.
InLoop ==
    /\ \A a \in todo : sessions[a] # None
    /\ step \in {"packets", "switch"} => cur \in Accounts \ todo /\ sessions[cur] # None

\* A player of a session is one of the characters counted.
Counted == \A a \in Accounts :
              sessions[a] # None /\ session[sessions[a]].player # "none" => chars[a] >= 1

\* LogoutPlayer does its work for whoever has a player, unless a login was
\* answered too late.
Removable ==
    \A a \in Accounts \ late :
        sessions[a] # None /\ session[sessions[a]].player # "none" => ~session[sessions[a]].recent

\* After CleanupsBeforeStop only one more update of the sessions.
Halting ==
    /\ step = "stopped" => stopping
    /\ stopping => /\ step \notin {"between", "callbacks"}
                   /\ \A a \in Accounts \ late :
                         sessions[a] # None => session[sessions[a]].player = "none"
-----------------------------------------------------------------------------
(* Sequences.                                                              *)

\* The elements of a queue after push_back and pop_front.
LEMMA Added ==
    ASSUME NEW S, NEW q \in Seq(S), NEW x \in S
    PROVE  LET r == Append(q, x) IN
             /\ r \in Seq(S) /\ Len(r) = Len(q) + 1
             /\ Elements(r) = Elements(q) \cup {x}
             /\ Distinct(q) /\ x \notin Elements(q) => Distinct(r)
             /\ r # <<>>
<1> DEFINE r == Append(q, x)
<1>1. /\ r \in Seq(S) /\ Len(r) = Len(q) + 1 /\ Len(q) \in Nat
      /\ \A i \in 1..Len(q) : r[i] = q[i]
      /\ r[Len(q) + 1] = x
  BY LenProperties
<1>2. DOMAIN r = 1..(Len(q) + 1) /\ DOMAIN q = 1..Len(q)
  BY <1>1
<1> HIDE DEF r
<1>3. Elements(r) = Elements(q) \cup {x}
  BY <1>1, <1>2 DEF Elements
<1>4. ASSUME Distinct(q), x \notin Elements(q) PROVE Distinct(r)
  <2>1. \A i \in DOMAIN r : i \in DOMAIN q \/ i = Len(q) + 1
    BY <1>1, <1>2
  <2>2. \A i \in DOMAIN q : r[i] = q[i] /\ r[i] # x
    BY <1>1, <1>2, <1>4 DEF Elements
  <2>3. \A i, j \in DOMAIN r : r[i] = r[j] => i = j
    BY <1>1, <1>4, <2>1, <2>2 DEF Distinct
  <2> QED
    BY <2>3 DEF Distinct
<1>5. r # <<>>
  BY <1>1, EmptySeq
<1> QED
  BY <1>1, <1>3, <1>4, <1>5 DEF r

LEMMA FirstTaken ==
    ASSUME NEW S, NEW q \in Seq(S), q # <<>>
    PROVE  LET r == Tail(q) IN
             /\ Head(q) \in S /\ Head(q) \in Elements(q)
             /\ r \in Seq(S) /\ Len(r) = Len(q) - 1 /\ Len(q) \in Nat \ {0}
             /\ Elements(q) = Elements(r) \cup {Head(q)}
             /\ Distinct(q) => Distinct(r) /\ Head(q) \notin Elements(r)
<1> DEFINE r == Tail(q)
<1>1. /\ Head(q) \in S /\ Head(q) = q[1]
      /\ r \in Seq(S) /\ Len(r) = Len(q) - 1 /\ Len(q) \in Nat \ {0}
      /\ \A i \in 1..Len(r) : r[i] = q[i + 1]
  OBVIOUS
<1>2. DOMAIN r = 1..(Len(q) - 1) /\ DOMAIN q = 1..Len(q) /\ 1 \in DOMAIN q
  BY <1>1
<1> HIDE DEF r
<1>3. \A i \in DOMAIN r : i + 1 \in DOMAIN q \ {1} /\ r[i] = q[i + 1]
  BY <1>1, <1>2
<1>4. \A i \in DOMAIN q : i = 1 \/ (i - 1 \in DOMAIN r /\ r[i - 1] = q[i])
  <2> SUFFICES ASSUME NEW i \in DOMAIN q, i # 1 PROVE i - 1 \in DOMAIN r /\ r[i - 1] = q[i]
    OBVIOUS
  <2>1. i - 1 \in DOMAIN r /\ (i - 1) + 1 = i
    BY <1>1, <1>2
  <2> QED
    BY <1>3, <2>1
<1>5. Elements(q) = Elements(r) \cup {Head(q)}
  <2>1. \A i \in DOMAIN q : q[i] = Head(q) \/ \E j \in DOMAIN r : r[j] = q[i]
    BY <1>1, <1>4
  <2>2. \A i \in DOMAIN r : \E j \in DOMAIN q : q[j] = r[i]
    BY <1>3
  <2> QED
    BY <1>1, <1>2, <2>1, <2>2 DEF Elements
<1>6. ASSUME Distinct(q) PROVE Distinct(r) /\ Head(q) \notin Elements(r)
  <2>1. \A i, j \in DOMAIN r : r[i] = r[j] => i + 1 = j + 1
    BY <1>3, <1>6 DEF Distinct
  <2>2. \A i, j \in DOMAIN r : i + 1 = j + 1 => i = j
    BY <1>2
  <2>3. \A i \in DOMAIN r : r[i] # q[1]
    BY <1>2, <1>3, <1>6 DEF Distinct
  <2> QED
    BY <1>1, <2>1, <2>2, <2>3 DEF Distinct, Elements
<1> QED
  BY <1>1, <1>2, <1>5, <1>6 DEF r, Elements

LEMMA NothingThere == Elements(<<>>) = {} /\ Distinct(<<>>) /\ \A S : <<>> \in Seq(S)
BY EmptySeq DEF Elements, Distinct

\* A queue without one of its elements.
LEMMA WithoutElement ==
    ASSUME NEW S, NEW q \in Seq(S), NEW x, Distinct(q)
    PROVE  /\ Without(q, x) \in Seq(S) /\ Distinct(Without(q, x))
           /\ Elements(Without(q, x)) = Elements(q) \ {x}
           /\ Len(Without(q, x)) = IF x \in Elements(q) THEN Len(q) - 1 ELSE Len(q)
<1>0. DOMAIN q = 1..Len(q) /\ Len(q) \in Nat
  BY LenProperties
<1>1. CASE x \notin Elements(q)
  BY <1>1 DEF Without, Elements
<1>2. CASE x \in Elements(q)
  <2> DEFINE at == CHOOSE i \in DOMAIN q : q[i] = x
             u == SubSeq(q, 1, at - 1)
             v == SubSeq(q, at + 1, Len(q))
             r == u \o v
  <2>1. at \in 1..Len(q) /\ q[at] = x
    BY <1>0, <1>2 DEF Elements
  <2>2. Without(q, x) = r
    BY <1>2 DEF Without, Elements
  <2> HIDE DEF at
  <2>3. /\ u \in Seq(S) /\ Len(u) = at - 1
        /\ \A i \in 1..(at - 1) : u[i] = q[i]
    <3>1. at - 1 \in Int /\ \A i \in 1..(at - 1) : i \in 1..Len(q)
      BY <1>0, <2>1
    <3> QED
      BY <1>0, <2>1, <3>1, SubSeqProperties
  <2>4. /\ v \in Seq(S) /\ Len(v) = Len(q) - at
        /\ \A i \in 1..(Len(q) - at) : v[i] = q[at + i]
    <3>1. /\ \A i \in (at + 1)..Len(q) : i \in 1..Len(q)
          /\ at + 1 \in Int /\ Len(q) \in Int
      BY <1>0, <2>1
    <3>2. v \in Seq(S) /\ Len(v) = (IF at + 1 <= Len(q) THEN Len(q) - (at + 1) + 1 ELSE 0)
      BY <3>1, <1>0, <2>1, SubSeqProperties
    <3>3. \A i \in 1..(Len(q) - (at + 1) + 1) : v[i] = q[(at + 1) + i - 1]
      BY <3>1, <1>0, <2>1, SubSeqProperties
    <3>4. \A n \in Nat : \A k \in 1..n :
            /\ (IF k + 1 <= n THEN n - (k + 1) + 1 ELSE 0) = n - k
            /\ n - (k + 1) + 1 = n - k
            /\ \A i \in 1..(n - k) : (k + 1) + i - 1 = k + i
      OBVIOUS
    <3>5. /\ (IF at + 1 <= Len(q) THEN Len(q) - (at + 1) + 1 ELSE 0) = Len(q) - at
          /\ Len(q) - (at + 1) + 1 = Len(q) - at
          /\ \A i \in 1..(Len(q) - at) : (at + 1) + i - 1 = at + i
      BY <1>0, <2>1, <3>4
    <3> HIDE DEF v
    <3>6. Len(v) = Len(q) - at
      BY <3>2, <3>5
    <3>7. ASSUME NEW i \in 1..(Len(q) - at) PROVE v[i] = q[at + i]
      BY <3>3, <3>5, <3>7
    <3> QED
      BY <3>2, <3>6, <3>7
  <2> HIDE DEF u, v
  <2>5. /\ r \in Seq(S) /\ Len(r) = Len(q) - 1
        /\ \A i \in 1..(Len(q) - 1) : r[i] = IF i <= at - 1 THEN u[i] ELSE v[i - (at - 1)]
    <3>1. Len(u) + Len(v) = Len(q) - 1
      BY <1>0, <2>1, <2>3, <2>4
    <3> QED
      BY <2>3, <2>4, <3>1, ConcatProperties
  <2> HIDE DEF r
  <2>6. DOMAIN r = 1..(Len(q) - 1)
    BY <2>5, LenProperties
  <2>7. \A i \in DOMAIN r : i < at => i \in DOMAIN q /\ r[i] = q[i]
    BY <1>0, <2>1, <2>3, <2>5, <2>6
  <2>8. \A i \in DOMAIN r : i >= at => i + 1 \in DOMAIN q /\ r[i] = q[i + 1]
    <3> SUFFICES ASSUME NEW i \in DOMAIN r, i >= at PROVE i + 1 \in DOMAIN q /\ r[i] = q[i + 1]
      OBVIOUS
    <3>1. i - (at - 1) \in 1..(Len(q) - at) /\ at + (i - (at - 1)) = i + 1 /\ ~(i <= at - 1)
      BY <1>0, <2>1, <2>6
    <3>2. i + 1 \in DOMAIN q /\ i \in 1..(Len(q) - 1)
      BY <1>0, <2>6
    <3> QED
      BY <2>4, <2>5, <3>1, <3>2
  <2>9. \A i \in DOMAIN r : i \in Int /\ (i < at \/ i >= at)
    BY <1>0, <2>1, <2>6
  <2>10. Elements(r) \subseteq Elements(q) \ {x}
    <3> SUFFICES ASSUME NEW i \in DOMAIN r PROVE r[i] \in Elements(q) /\ r[i] # x
      BY DEF Elements
    <3>1. CASE i < at
      <4>1. i \in DOMAIN q /\ r[i] = q[i] /\ i # at
        BY <1>0, <2>1, <2>7, <3>1
      <4> QED
        BY <1>0, <2>1, <4>1 DEF Elements, Distinct
    <3>2. CASE i >= at
      <4>1. i + 1 \in DOMAIN q /\ r[i] = q[i + 1] /\ i + 1 # at
        BY <1>0, <2>1, <2>8, <2>9, <3>2
      <4> QED
        BY <1>0, <2>1, <4>1 DEF Elements, Distinct
    <3> QED
      BY <2>9, <3>1, <3>2
  <2>11. Elements(q) \ {x} \subseteq Elements(r)
    <3> SUFFICES ASSUME NEW j \in DOMAIN q, q[j] # x PROVE \E i \in DOMAIN r : r[i] = q[j]
      BY DEF Elements
    <3>1. CASE j < at
      <4>1. j \in DOMAIN r
        BY <1>0, <2>1, <2>6, <3>1
      <4> QED
        BY <2>7, <3>1, <4>1
    <3>2. CASE j > at
      <4>1. j - 1 \in DOMAIN r /\ j - 1 >= at /\ (j - 1) + 1 = j
        BY <1>0, <2>1, <2>6, <3>2
      <4> QED
        BY <2>8, <4>1
    <3> QED
      BY <1>0, <2>1, <3>1, <3>2
  <2>12. Distinct(r)
    <3> SUFFICES ASSUME NEW i \in DOMAIN r, NEW j \in DOMAIN r, r[i] = r[j] PROVE i = j
      BY DEF Distinct
    <3>1. CASE i < at /\ j < at
      BY <2>7, <3>1 DEF Distinct
    <3>2. CASE i >= at /\ j >= at
      <4>1. i + 1 = j + 1
        BY <2>8, <3>2 DEF Distinct
      <4> QED
        BY <2>9, <4>1
    <3>3. CASE i < at /\ j >= at
      <4>1. i = j + 1
        BY <2>7, <2>8, <3>3 DEF Distinct
      <4> QED
        BY <1>0, <2>1, <2>9, <3>3, <4>1
    <3>4. CASE i >= at /\ j < at
      <4>1. i + 1 = j
        BY <2>7, <2>8, <3>4 DEF Distinct
      <4> QED
        BY <1>0, <2>1, <2>9, <3>4, <4>1
    <3> QED
      BY <2>9, <3>1, <3>2, <3>3, <3>4
  <2> QED
    BY <1>2, <2>2, <2>5, <2>10, <2>11, <2>12
<1> QED
  BY <1>1, <1>2
-----------------------------------------------------------------------------
(* Most steps leave every session where it is and only change what it says *)
(* of itself.                                                              *)

\* The session r of an account with c characters becomes r1, the characters c1.
Passes(r, c, r1, c1) ==
    /\ r1 \in SessionObjects /\ r1.inQueue = r.inQueue
    /\ \/ r1.player = r.player /\ c1 = c
       \/ r.player # "none" /\ r1.player = "none" /\ c1 = c - 1
       \/ r1.player # "none" /\ c1 = c + 1

\* Nor does the step give a session a player, or make its next logout do nothing.
Calms(r, r1) ==
    /\ r.player = "none" => r1.player = "none"
    /\ (r.player # "none" => ~r.recent) => (r1.player # "none" => ~r1.recent)

Shifts == /\ conn' \in [Sockets -> {"away", "found", "open", "closed"}]
          /\ ref' \in [Sockets -> Sockets \cup {None}]
          /\ \A s \in Sockets : conn'[s] \in {"away", "found"} => conn[s] \in {"away", "found"}

SamePlaces == UNCHANGED <<addQueue, adding, sessions, waiting, stopping>>

Passing ==
    /\ Shifts /\ UNCHANGED sessions
    /\ session' \in [Sockets -> SessionObjects \cup {None}]
    /\ chars' \in [Accounts -> Int]
    /\ \A y \in Sockets :
          /\ session[y] = None <=> session'[y] = None
          /\ session[y] # None => session'[y].inQueue = session[y].inQueue
          /\ session[y] # None /\ y \notin Listed => session'[y].player = session[y].player
    /\ \A a \in Accounts :
          IF sessions[a] = None THEN chars'[a] = chars[a]
          ELSE Passes(session[sessions[a]], chars[a], session'[sessions[a]], chars'[a])

Quiet == Passing /\ SamePlaces

Calm == /\ \A a \in Accounts : chars'[a] <= chars[a]
        /\ \A a \in Accounts : sessions[a] # None =>
              Calms(session[sessions[a]], session'[sessions[a]])

\* A session in the list is the session of its account.
LEMMA OfAccount ==
    ASSUME TypeOK, Places, NEW x \in Listed
    PROVE  /\ x \in Sockets /\ AccountOf[x] \in Accounts /\ sessions[AccountOf[x]] = x
           /\ session[x] \in SessionObjects
           /\ \A a \in Accounts : sessions[a] = x => a = AccountOf[x]
<1>1. PICK a \in Accounts : sessions[a] = x /\ x # None
  BY DEF Listed
<1>2. x \in Sockets /\ AccountOf[x] = a /\ session[x] # None
  BY <1>1 DEF TypeOK, Places
<1>3. session[x] \in SessionObjects
  BY <1>2 DEF TypeOK
<1>4. \A b \in Accounts : sessions[b] = x => b = AccountOf[x]
  BY <1>1 DEF Places
<1> QED
  BY <1>1, <1>2, <1>3, <1>4

LEMMA SameRecord ==
    ASSUME NEW r \in SessionObjects, NEW c
    PROVE  Passes(r, c, r, c) /\ Calms(r, r)
BY DEF Passes, Calms

\* LogoutPlayer, with or without KickPlayer before it.
LEMMA LogoutRecord ==
    ASSUME NEW r \in SessionObjects, NEW c \in Int
    PROVE  /\ Passes(r, c, Logout(r), c - LogoutRemoves(r))
           /\ Calms(r, Logout(r))
           /\ Passes(r, c, Logout(Kicked(r)), c - LogoutRemoves(r))
           /\ ~r.recent \/ r.player = "none" => Logout(Kicked(r)).player = "none"
           /\ LogoutRemoves(r) = IF Logout(Kicked(r)).player # r.player THEN 1 ELSE 0
           /\ LogoutCloses(r) \subseteq Sockets /\ LogoutCloses(Kicked(r)) \subseteq Sockets
<1>1. CASE r.recent
  <2>1. Logout(r) = r /\ LogoutRemoves(r) = 0 /\ LogoutCloses(r) = {}
    BY <1>1 DEF Logout, LogoutRemoves, LogoutCloses
  <2>2. /\ Kicked(r) \in SessionObjects /\ Logout(Kicked(r)) = Kicked(r)
        /\ LogoutCloses(Kicked(r)) = {}
        /\ Kicked(r).player = r.player /\ Kicked(r).inQueue = r.inQueue
    BY <1>1 DEF SessionObjects, Kicked, Logout, LogoutCloses
  <2>3. c - 0 = c
    OBVIOUS
  <2> QED
    BY <1>1, <2>1, <2>2, <2>3, SameRecord DEF Passes, Calms
<1>2. CASE ~r.recent
  <2> DEFINE l == Logout(r)
             k == Logout(Kicked(r))
  <2>1. l \in SessionObjects /\ l.inQueue = r.inQueue /\ l.player = "none"
    BY <1>2 DEF SessionObjects, Logout
  <2>2. k \in SessionObjects /\ k.inQueue = r.inQueue /\ k.player = "none"
    BY <1>2 DEF SessionObjects, Logout, Kicked
  <2>3. LogoutRemoves(r) = IF r.player # "none" THEN 1 ELSE 0
    BY <1>2 DEF LogoutRemoves
  <2>4. c - 0 = c
    OBVIOUS
  <2>5. LogoutCloses(r) \subseteq Sockets /\ LogoutCloses(Kicked(r)) \subseteq Sockets
    BY DEF LogoutCloses, Kicked, SessionObjects
  <2> HIDE DEF l, k
  <2>6. Passes(r, c, l, c - LogoutRemoves(r)) /\ Passes(r, c, k, c - LogoutRemoves(r))
    BY <2>1, <2>2, <2>3, <2>4 DEF Passes
  <2>7. Calms(r, l)
    BY <2>1 DEF Calms
  <2> QED
    BY <2>2, <2>3, <2>5, <2>6, <2>7 DEF l, k
<1> QED
  BY <1>1, <1>2

LEMMA RequestRecord ==
    ASSUME NEW r \in SessionObjects, NEW c
    PROVE  Passes(r, c, RequestNewSocket(r), c) /\ Calms(r, RequestNewSocket(r))
<1> DEFINE n == RequestNewSocket(r)
<1>1. r.mail \in Seq(Sockets) /\ (r.mail # <<>> => Head(r.mail) \in Sockets)
  BY FirstTaken DEF SessionObjects
<1>2. <<>> \in Seq(Sockets)
  BY NothingThere
<1>3. /\ n \in SessionObjects /\ n.inQueue = r.inQueue /\ n.player = r.player
      /\ n.logout = r.logout /\ n.recent = r.recent
  <2>1. CASE r.mail = <<>>
    BY <2>1 DEF RequestNewSocket
  <2>2. CASE r.mail # <<>> /\ r.req # None
    <3>1. n = [r EXCEPT !.mail = <<>>]
      BY <2>2 DEF RequestNewSocket
    <3> HIDE DEF n
    <3> QED
      BY <1>2, <3>1 DEF SessionObjects
  <2>3. CASE r.mail # <<>> /\ r.req = None
    <3>1. n = [r EXCEPT !.mail = <<>>, !.req = Head(r.mail), !.state = "created"]
      BY <2>3 DEF RequestNewSocket
    <3>2. Head(r.mail) \in Sockets
      BY <1>1, <2>3
    <3> HIDE DEF n
    <3> QED
      BY <1>2, <3>1, <3>2 DEF SessionObjects
  <2> QED
    BY <2>1, <2>2, <2>3
<1> HIDE DEF n
<1>4. Passes(r, c, n, c) /\ Calms(r, n)
  BY <1>3 DEF Passes, Calms
<1> QED
  BY <1>4 DEF n

LEMMA OfflineRecord ==
    ASSUME NEW r \in SessionObjects, NEW c
    PROVE  Passes(r, c, Offline(r), c) /\ Calms(r, Offline(r))
<1> DEFINE n == Offline(r)
<1>1. /\ n \in SessionObjects /\ n.inQueue = r.inQueue /\ n.player = r.player
      /\ (r.player = "none" => n.logout = r.logout) /\ n.recent = r.recent
  BY DEF SessionObjects, Offline
<1> HIDE DEF n
<1>2. Passes(r, c, n, c) /\ Calms(r, n)
  BY <1>1 DEF Passes, Calms
<1> QED
  BY <1>2 DEF n

\* A step that changes one session of the list is quiet, and calm if it is so
\* for that session.
LEMMA OneChanges ==
    ASSUME TypeOK, Places, NEW x \in Listed, NEW r1, NEW c1 \in Int,
           session' = [session EXCEPT ![x] = r1],
           chars' = [chars EXCEPT ![AccountOf[x]] = c1],
           Passes(session[x], chars[AccountOf[x]], r1, c1),
           Shifts, SamePlaces
    PROVE  /\ Quiet
           /\ c1 <= chars[AccountOf[x]] /\ Calms(session[x], r1)
                => Calm
<1>1. /\ x \in Sockets /\ AccountOf[x] \in Accounts /\ sessions[AccountOf[x]] = x
      /\ session[x] \in SessionObjects
      /\ \A a \in Accounts : sessions[a] = x => a = AccountOf[x]
  BY OfAccount
<1>2. r1 \in SessionObjects /\ r1.inQueue = session[x].inQueue /\ r1 # None /\ session[x] # None
  BY <1>1, NullSessionAssumption DEF Passes
<1>3. /\ session \in [Sockets -> SessionObjects \cup {None}] /\ chars \in [Accounts -> Nat]
      /\ \A a \in Accounts : sessions[a] \in Sockets \cup {None}
      /\ \A a \in Accounts : sessions[a] # None => session[sessions[a]] \in SessionObjects
  BY DEF TypeOK, Places
<1>4. session'[x] = r1 /\ \A y \in Sockets \ {x} : session'[y] = session[y]
  BY <1>1, <1>3
<1>5. session' \in [Sockets -> SessionObjects \cup {None}] /\ chars' \in [Accounts -> Int]
  BY <1>1, <1>2, <1>3
<1>6. ASSUME NEW a \in Accounts
      PROVE  IF sessions[a] = None THEN chars'[a] = chars[a]
             ELSE Passes(session[sessions[a]], chars[a], session'[sessions[a]], chars'[a])
  <2>1. CASE a = AccountOf[x]
    BY <1>1, <1>3, <1>4, <2>1, AccountsAssumption
  <2>2. CASE a # AccountOf[x]
    <3>1. chars'[a] = chars[a] /\ sessions[a] # x
      BY <1>1, <1>3, <2>2
    <3>2. CASE sessions[a] = None
      BY <3>1, <3>2
    <3>3. CASE sessions[a] # None
      <4>1. session'[sessions[a]] = session[sessions[a]]
        BY <1>3, <1>4, <3>1, <3>3
      <4> QED
        BY <1>3, <3>1, <3>3, <4>1, SameRecord
    <3> QED
      BY <3>2, <3>3
  <2> QED
    BY <2>1, <2>2
<1>7. ASSUME NEW y \in Sockets
      PROVE  /\ session[y] = None <=> session'[y] = None
             /\ session[y] # None => session'[y].inQueue = session[y].inQueue
             /\ session[y] # None /\ y \notin Listed => session'[y].player = session[y].player
  BY <1>2, <1>4
<1>8. ASSUME c1 <= chars[AccountOf[x]], Calms(session[x], r1)
      PROVE  Calm
  <2>0. \A a \in Accounts : chars'[a] <= chars[a]
    BY <1>1, <1>3, <1>8
  <2> SUFFICES ASSUME NEW a \in Accounts, sessions[a] # None
               PROVE  Calms(session[sessions[a]], session'[sessions[a]])
    BY <2>0 DEF Calm
  <2>1. CASE sessions[a] = x
    BY <1>1, <1>4, <1>8, <2>1
  <2>2. CASE sessions[a] # x
    BY <1>3, <1>4, <2>2, SameRecord
  <2> QED
    BY <2>1, <2>2
<1> QED
  BY <1>5, <1>6, <1>7, <1>8 DEF Quiet, Passing, SamePlaces

\* A step that changes no session.
LEMMA NoneChanges ==
    ASSUME TypeOK, Places, UNCHANGED <<session, chars>>, Shifts, SamePlaces
    PROVE  Quiet /\ Calm
<1>1. /\ session \in [Sockets -> SessionObjects \cup {None}] /\ chars \in [Accounts -> Nat]
      /\ \A a \in Accounts : sessions[a] # None => session[sessions[a]] \in SessionObjects
  BY DEF TypeOK, Places
<1>2. chars' \in [Accounts -> Int]
  BY <1>1
<1>3. \A a \in Accounts : sessions[a] # None =>
        /\ Passes(session[sessions[a]], chars[a], session'[sessions[a]], chars'[a])
        /\ Calms(session[sessions[a]], session'[sessions[a]])
  BY <1>1, SameRecord
<1>4. \A a \in Accounts : chars'[a] <= chars[a]
  BY <1>1
<1> QED
  BY <1>1, <1>2, <1>3, <1>4 DEF Quiet, Passing, SamePlaces, Calm
-----------------------------------------------------------------------------
(* The quiet steps.                                                        *)

\* The session being updated is in the list.
LEMMA Updated ==
    ASSUME TypeOK, Places, InLoop, NEW x \in Sockets,
           step \in {"packets", "switch"}, sessions[cur] = x
    PROVE  /\ x \in Listed /\ AccountOf[x] = cur /\ cur \in Accounts
           /\ session[x] \in SessionObjects /\ chars[AccountOf[x]] \in Int
<1>1. cur \in Accounts /\ x # None
  BY DEF InLoop
<1>2. x \in Listed
  BY <1>1 DEF Listed
<1> QED
  BY <1>1, <1>2, OfAccount DEF TypeOK

LEMMA CloseShifts ==
    ASSUME TypeOK, NEW S, Close(S), ref' \in [Sockets -> Sockets \cup {None}]
    PROVE  Shifts
BY DEF TypeOK, Close, Shifts

LEMMA FinalizeShifts ==
    ASSUME TypeOK, NEW S, Finalize(S)
    PROVE  Shifts
<1>1. Close(S) /\ ref' \in [Sockets -> Sockets \cup {None}]
  BY DEF Finalize, TypeOK
<1> QED
  BY <1>1, CloseShifts

LEMMA NothingShifts ==
    ASSUME TypeOK, UNCHANGED netVars
    PROVE  Shifts
BY DEF TypeOK, netVars, Shifts

\* LogoutPlayer of a session.
LEMMA LogoutQuiet ==
    ASSUME TypeOK, Places, NEW x \in Listed, LogoutPlayer(x, session[x]),
           UNCHANGED ref, SamePlaces
    PROVE  Quiet /\ Calm
<1> DEFINE r == session[x]
           a == AccountOf[x]
<1>1. r \in SessionObjects /\ chars[a] \in Int
  BY OfAccount DEF TypeOK
<1>2. /\ session' = [session EXCEPT ![x] = Logout(r)]
      /\ chars' = [chars EXCEPT ![a] = chars[a] - LogoutRemoves(r)]
      /\ Shifts
  BY CloseShifts DEF LogoutPlayer, TypeOK
<1>3. chars[a] - LogoutRemoves(r) \in Int /\ chars[a] - LogoutRemoves(r) <= chars[a]
  BY <1>1 DEF LogoutRemoves
<1>4. Passes(r, chars[a], Logout(r), chars[a] - LogoutRemoves(r))
  BY <1>1, LogoutRecord
<1>5. Calms(r, Logout(r))
  BY <1>1, LogoutRecord DEF Calms
<1> QED
  BY <1>2, <1>3, <1>4, <1>5, OneChanges

\* A step that changes one session of the list and no character.
LEMMA OneRewritten ==
    ASSUME TypeOK, Places, NEW x \in Listed, NEW r1,
           session' = [session EXCEPT ![x] = r1], UNCHANGED chars,
           Passes(session[x], chars[AccountOf[x]], r1, chars[AccountOf[x]]),
           Shifts, SamePlaces
    PROVE  /\ Quiet
           /\ Calms(session[x], r1) => Calm
<1>1. AccountOf[x] \in Accounts /\ chars \in [Accounts -> Nat]
  BY OfAccount DEF TypeOK
<1>2. /\ chars' = [chars EXCEPT ![AccountOf[x]] = chars[AccountOf[x]]]
      /\ chars[AccountOf[x]] \in Int /\ chars[AccountOf[x]] <= chars[AccountOf[x]]
  BY <1>1
<1> QED
  BY <1>2, OneChanges

LEMMA NetworkQuiet ==
    ASSUME TypeOK, Places, NEW s \in Sockets, FindSession(s) \/ PostRequest(s) \/ Disconnect(s)
    PROVE  Quiet /\ Calm
<1>1. ASSUME FindSession(s) \/ Disconnect(s) PROVE Quiet /\ Calm
  <2>1. UNCHANGED <<session, chars>> /\ SamePlaces
    BY <1>1 DEF FindSession, Disconnect, listVars, loopVars, charVars, SamePlaces
  <2>2. Shifts
    BY <1>1, AccountsAssumption DEF FindSession, Disconnect, TypeOK, Shifts
  <2> QED
    BY <2>1, <2>2, NoneChanges
<1>2. ASSUME PostRequest(s) PROVE Quiet /\ Calm
  <2>1. chars' = chars /\ SamePlaces /\ Shifts /\ ref[s] \in Sockets
    BY <1>2 DEF PostRequest, listVars, loopVars, charVars, SamePlaces, Shifts, TypeOK
  <2>2. CASE session[ref[s]] = None
    BY <1>2, <2>1, <2>2, NoneChanges DEF PostRequest
  <2>3. CASE session[ref[s]] # None
    <3> DEFINE y == ref[s]
               r == session[y]
               r1 == [r EXCEPT !.mail = Append(r.mail, s)]
    <3>1. r \in SessionObjects /\ session \in [Sockets -> SessionObjects \cup {None}] /\ y \in Sockets
      BY <2>1, <2>3 DEF TypeOK
    <3>2. session' = [session EXCEPT ![y] = r1]
      BY <1>2, <2>3 DEF PostRequest
    <3>3. Append(r.mail, s) \in Seq(Sockets)
      BY <3>1, Added DEF SessionObjects
    <3>4. /\ r1 \in SessionObjects /\ r1.inQueue = r.inQueue /\ r1.player = r.player
          /\ r1.logout = r.logout /\ r1.recent = r.recent
      BY <3>1, <3>3 DEF SessionObjects
    <3> HIDE DEF r1
    <3>5. \A c : Passes(r, c, r1, c) /\ Calms(r, r1)
      BY <3>4 DEF Passes, Calms
    <3>6. CASE y \in Listed
      BY <2>1, <3>2, <3>5, <3>6, OneRewritten
    <3>7. CASE y \notin Listed
      <4>1. /\ session' \in [Sockets -> SessionObjects \cup {None}] /\ session'[y] = r1
            /\ \A z \in Sockets \ {y} : session'[z] = session[z]
        BY <3>1, <3>2, <3>4
      <4>2. ASSUME NEW a \in Accounts, sessions[a] # None
            PROVE  /\ Passes(session[sessions[a]], chars[a], session'[sessions[a]], chars'[a])
                   /\ Calms(session[sessions[a]], session'[sessions[a]])
        <5>1. sessions[a] \in Listed /\ sessions[a] \in Sockets
          BY <4>2 DEF Listed, TypeOK
        <5>2. session'[sessions[a]] = session[sessions[a]] /\ session[sessions[a]] \in SessionObjects
          BY <3>7, <4>1, <5>1, OfAccount
        <5> QED
          BY <2>1, <5>2, SameRecord
      <4>3. ASSUME NEW z \in Sockets
            PROVE  /\ session[z] = None <=> session'[z] = None
                   /\ session[z] # None => session'[z].inQueue = session[z].inQueue
                   /\ session[z] # None /\ z \notin Listed => session'[z].player = session[z].player
        BY <2>3, <3>4, <4>1, NullSessionAssumption
      <4>4. chars' \in [Accounts -> Int]
        BY <2>1 DEF TypeOK
      <4>5. Quiet
        BY <2>1, <4>1, <4>2, <4>3, <4>4 DEF Quiet, Passing, SamePlaces
      <4>6. \A a \in Accounts : chars'[a] <= chars[a]
        BY <2>1 DEF TypeOK
      <4> QED
        BY <4>2, <4>5, <4>6 DEF Calm
    <3> QED
      BY <3>6, <3>7
  <2> QED
    BY <2>2, <2>3
<1> QED
  BY <1>1, <1>2

\* Steps that change neither a session nor a list.
LEMMA IdleQuiet ==
    ASSUME TypeOK, Places, UNCHANGED <<netVars, session, chars>>, SamePlaces
    PROVE  Quiet /\ Calm
BY NothingShifts, NoneChanges

LEMMA BeginUpdateQuiet ==
    ASSUME TypeOK, Places, InLoop, NEW a \in Accounts, BeginUpdate(a)
    PROVE  Quiet /\ Calm
<1> DEFINE x == sessions[a]
<1>1. x # None /\ x \in Listed
  BY DEF BeginUpdate, InLoop, Listed
<1>2. session' = [session EXCEPT ![x] = RequestNewSocket(session[x])]
  BY DEF BeginUpdate
<1>3. Shifts /\ SamePlaces /\ chars' = chars
  BY NothingShifts DEF BeginUpdate, listVars, charVars, SamePlaces
<1>4. session[x] \in SessionObjects
  BY <1>1, OfAccount
<1> QED
  BY <1>1, <1>2, <1>3, <1>4, RequestRecord, OneRewritten

LEMMA PacketsQuiet ==
    ASSUME TypeOK, Places, InLoop, NEW x \in Sockets, Packets(x)
    PROVE  Quiet /\ Calm
<1> DEFINE r == session[x]
<1>0. ASSUME Handling(x)
      PROVE  /\ x \in Listed /\ r \in SessionObjects
             /\ session \in [Sockets -> SessionObjects \cup {None}]
  BY <1>0, Updated DEF Handling, TypeOK
<1>1. CASE HandleAuthed(x) \/ HandlePlayerLoginOpcode(x)
  <2> DEFINE r1 == [r EXCEPT !.recent = FALSE]
  <2>1. /\ Handling(x) /\ chars' = chars /\ SamePlaces /\ UNCHANGED netVars
        /\ session' = [session EXCEPT ![x] = r1]
    BY <1>1 DEF HandleAuthed, HandlePlayerLoginOpcode, listVars, loopVars, charVars, SamePlaces
  <2>2. /\ r1 \in SessionObjects /\ r1.inQueue = r.inQueue /\ r1.player = r.player
        /\ r1.logout = r.logout /\ r1.recent = FALSE
    BY <1>0, <2>1 DEF SessionObjects
  <2> HIDE DEF r1
  <2>3. \A c : Passes(r, c, r1, c) /\ Calms(r, r1)
    BY <2>2 DEF Passes, Calms
  <2> QED
    BY <1>0, <2>1, <2>3, NothingShifts, OneRewritten
<1>2. CASE HandlePlayerReconnect(x)
  <2> DEFINE r1 == [r EXCEPT !.recent = FALSE, !.logout = "none", !.kick = FALSE, !.state = "ready"]
  <2>1. /\ Handling(x) /\ chars' = chars /\ SamePlaces /\ UNCHANGED netVars
        /\ session' = [session EXCEPT ![x] = r1]
    BY <1>2 DEF HandlePlayerReconnect, listVars, loopVars, charVars, SamePlaces
  <2>2. /\ r1 \in SessionObjects /\ r1.inQueue = r.inQueue /\ r1.player = r.player
        /\ r1.logout = "none" /\ r1.recent = FALSE
    BY <1>0, <2>1 DEF SessionObjects
  <2> HIDE DEF r1
  <2>3. \A c : Passes(r, c, r1, c) /\ Calms(r, r1)
    BY <2>2 DEF Passes, Calms
  <2> QED
    BY <1>0, <2>1, <2>3, NothingShifts, OneRewritten
<1>3. CASE HandleLogoutRequestOpcode(x)
  <2>1. /\ Handling(x) /\ r.player = "world" /\ SamePlaces /\ ref' = ref
    BY <1>3 DEF HandleLogoutRequestOpcode, listVars, loopVars, SamePlaces
  <2>2. CASE LogoutPlayer(x, r)
    BY <1>0, <2>1, <2>2, LogoutQuiet
  <2>3. ASSUME NEW when \in {"none", "asked"}, UNCHANGED <<conn, chars>>,
               session' = [session EXCEPT ![x].logout = when, ![x].kick = FALSE]
        PROVE  Quiet /\ Calm
    <3> DEFINE r1 == [r EXCEPT !.logout = when, !.kick = FALSE]
    <3>1. session' = [session EXCEPT ![x] = r1]
      BY <1>0, <2>1, <2>3
    <3>2. /\ r1 \in SessionObjects /\ r1.inQueue = r.inQueue /\ r1.player = r.player
          /\ r1.recent = r.recent
      BY <1>0, <2>1 DEF SessionObjects
    <3> HIDE DEF r1
    <3>3. \A c : Passes(r, c, r1, c) /\ Calms(r, r1)
      BY <2>1, <3>2 DEF Passes, Calms
    <3>4. Shifts
      BY <2>1, <2>3, NothingShifts DEF netVars
    <3> QED
      BY <1>0, <2>1, <2>3, <3>1, <3>3, <3>4, OneRewritten
  <2> QED
    BY <1>3, <2>2, <2>3 DEF HandleLogoutRequestOpcode
<1> QED
  BY <1>1, <1>2, <1>3 DEF Packets

LEMMA KickQuiet ==
    ASSUME TypeOK, Places, NEW x \in Sockets, KickPlayer(x)
    PROVE  Quiet /\ Calm
<1> DEFINE r == session[x]
           r1 == [r EXCEPT !.logout = "kicked", !.kick = TRUE]
<1>1. /\ x \in Listed /\ r \in SessionObjects
      /\ session \in [Sockets -> SessionObjects \cup {None}]
  BY OfAccount DEF KickPlayer, TypeOK
<1>2. /\ chars' = chars /\ SamePlaces /\ UNCHANGED netVars
      /\ session' = [session EXCEPT ![x] = r1]
  BY <1>1 DEF KickPlayer, listVars, loopVars, charVars, SamePlaces
<1>3. /\ r1 \in SessionObjects /\ r1.inQueue = r.inQueue /\ r1.player = r.player
      /\ r1.recent = r.recent
  BY <1>1 DEF SessionObjects
<1> HIDE DEF r1
<1>4. Passes(r, chars[AccountOf[x]], r1, chars[AccountOf[x]]) /\ Calms(r, r1)
  BY <1>3 DEF Passes, Calms
<1> QED
  BY <1>1, <1>2, <1>4, NothingShifts, OneRewritten

LEMMA SwitchQuiet ==
    ASSUME TypeOK, Places, InLoop, NEW x \in Sockets, Switch(x), ~RemoveSession(x)
    PROVE  Quiet /\ Calm
<1> DEFINE r == session[x]
<1>0. ASSUME NEW state, Updating(x, state)
      PROVE  /\ x \in Listed /\ r \in SessionObjects
             /\ session \in [Sockets -> SessionObjects \cup {None}]
  BY <1>0, Updated DEF Updating, TypeOK
<1>1. CASE UpdateCreated(x)
  <2> DEFINE r1 == [r EXCEPT !.state = "charsel"]
  <2>1. /\ Updating(x, "created") /\ chars' = chars /\ SamePlaces /\ UNCHANGED netVars
        /\ session' = [session EXCEPT ![x] = r1]
    BY <1>1 DEF UpdateCreated, Continue, listVars, charVars, SamePlaces
  <2>2. /\ r1 \in SessionObjects /\ r1.inQueue = r.inQueue /\ r1.player = r.player
        /\ r1.logout = r.logout /\ r1.recent = r.recent
    BY <1>0, <2>1 DEF SessionObjects
  <2> HIDE DEF r1
  <2>3. \A c : Passes(r, c, r1, c) /\ Calms(r, r1)
    BY <2>2 DEF Passes, Calms
  <2> QED
    BY <1>0, <2>1, <2>3, NothingShifts, OneRewritten
<1>2. CASE SwitchSocket(x)
  <2> DEFINE o == Offline(r)
             r1 == [o EXCEPT !.sock = r.req, !.req = None, !.state = "charsel"]
  <2>1. /\ Updating(x, "created") /\ chars' = chars /\ SamePlaces
        /\ Finalize({r.sock} \ {None})
        /\ session' = [session EXCEPT ![x] = r1]
    BY <1>2 DEF SwitchSocket, Continue, listVars, charVars, SamePlaces
  <2>2. o \in SessionObjects /\ r.req \in Sockets \cup {None}
    BY <1>0, <2>1, OfflineRecord DEF Passes, SessionObjects
  <2>3. \A c : Passes(r, c, o, c) /\ Calms(r, o)
    BY <1>0, <2>1, OfflineRecord
  <2> HIDE DEF o
  <2>4. /\ r1 \in SessionObjects /\ r1.inQueue = o.inQueue /\ r1.player = o.player
        /\ r1.logout = o.logout /\ r1.recent = o.recent
    BY <2>2 DEF SessionObjects
  <2> HIDE DEF r1
  <2>5. \A c : Passes(r, c, r1, c) /\ Calms(r, r1)
    BY <2>3, <2>4 DEF Passes, Calms
  <2> QED
    BY <1>0, <2>1, <2>5, FinalizeShifts, OneRewritten
<1>3. CASE StaysConnected(x)
  <2>1. /\ \E state : Updating(x, state)
        /\ SamePlaces /\ ref' = ref
    BY <1>3 DEF StaysConnected, Continue, listVars, SamePlaces
  <2>2. CASE UNCHANGED <<session, conn, chars>>
    BY <2>1, <2>2, IdleQuiet DEF netVars
  <2>3. CASE LogoutPlayer(x, r)
    BY <1>0, <2>1, <2>3, LogoutQuiet
  <2> QED
    BY <1>3, <2>2, <2>3 DEF StaysConnected
<1>4. CASE GoesOffline(x)
  <2>1. /\ Updating(x, "ready") /\ chars' = chars /\ SamePlaces
        /\ Finalize({r.sock} \ {None})
        /\ session' = [session EXCEPT ![x] = Offline(r)]
    BY <1>4 DEF GoesOffline, Continue, listVars, charVars, SamePlaces
  <2> QED
    BY <1>0, <2>1, OfflineRecord, FinalizeShifts, OneRewritten
<1>5. CASE StaysOffline(x)
  <2>1. UNCHANGED <<netVars, session, chars>> /\ SamePlaces
    BY <1>5 DEF StaysOffline, Continue, listVars, charVars, SamePlaces
  <2> QED
    BY <2>1, IdleQuiet
<1> QED
  BY <1>1, <1>2, <1>3, <1>4, <1>5 DEF Switch

\* The answer to a login gives a session a player.
LEMMA LoginQuiet ==
    ASSUME TypeOK, Places, HandlePlayerLogin
    PROVE  /\ Quiet
           /\ LET a == Head(logins) IN
                /\ a \in Accounts
                /\ \A b \in Accounts \ {a} :
                     sessions[b] # None => session'[sessions[b]] = session[sessions[b]]
                /\ sessions[a] # None =>
                     /\ chars'[a] = chars[a] + 1 /\ session'[sessions[a]].player # "none"
                     /\ session'[sessions[a]].recent = session[sessions[a]].recent
                /\ \A b \in Accounts \ {a} : chars'[b] = chars[b]
                /\ late' = IF sessions[a] # None /\ TooLate(session[sessions[a]])
                              THEN late \cup {a} ELSE late
<1> DEFINE a == Head(logins)
           x == sessions[a]
           r == session[x]
           online == [r EXCEPT !.player = "world",
                               !.state = IF Closed(r.sock) THEN r.state ELSE "ready"]
           refused == [online EXCEPT !.player = "refused", !.logout = "kicked", !.kick = TRUE]
<1>1. a \in Accounts
  BY FirstTaken DEF HandlePlayerLogin, TypeOK
<1>2. SamePlaces /\ Shifts
  BY NothingShifts DEF HandlePlayerLogin, listVars, loopVars, SamePlaces
<1>3. chars \in [Accounts -> Nat] /\ session \in [Sockets -> SessionObjects \cup {None}]
  BY DEF TypeOK
<1>4. CASE x = None
  <2>1. UNCHANGED <<session, chars, late>>
    BY <1>4 DEF HandlePlayerLogin
  <2> QED
    BY <1>1, <1>2, <1>4, <2>1, NoneChanges
<1>5. CASE x # None
  <2>1. x \in Listed /\ AccountOf[x] = a /\ r \in SessionObjects /\ x \in Sockets
    BY <1>1, <1>5, OfAccount DEF Listed
  <2>2. PICK r1 \in {online, refused} : session' = [session EXCEPT ![x] = r1]
    BY <1>5 DEF HandlePlayerLogin
  <2>3. chars' = [chars EXCEPT ![a] = chars[a] + 1] /\ chars[a] \in Nat /\ chars[a] + 1 \in Int
    BY <1>1, <1>3, <1>5 DEF HandlePlayerLogin
  <2>4. /\ online \in SessionObjects /\ online.inQueue = r.inQueue /\ online.player = "world"
        /\ online.recent = r.recent
    BY <2>1 DEF SessionObjects
  <2> HIDE DEF online
  <2>5. /\ refused \in SessionObjects /\ refused.inQueue = r.inQueue /\ refused.player = "refused"
        /\ refused.recent = r.recent
    BY <2>4 DEF SessionObjects
  <2> HIDE DEF refused
  <2>6. /\ r1 \in SessionObjects /\ r1.inQueue = r.inQueue /\ r1.player # "none"
        /\ r1.recent = r.recent
    BY <2>2, <2>4, <2>5
  <2>7. Passes(r, chars[a], r1, chars[a] + 1)
    BY <2>6 DEF Passes
  <2>8. Quiet
    BY <1>2, <2>1, <2>2, <2>3, <2>7, OneChanges
  <2>9. session'[x] = r1 /\ chars'[a] = chars[a] + 1 /\ \A b \in Accounts \ {a} : chars'[b] = chars[b]
    BY <1>1, <1>3, <2>1, <2>2, <2>3
  <2>10. \A b \in Accounts \ {a} : sessions[b] # None => session'[sessions[b]] = session[sessions[b]]
    <3>1. \A b \in Accounts \ {a} : sessions[b] # None => sessions[b] \in Sockets \ {x}
      BY <2>1 DEF TypeOK, Places
    <3> QED
      BY <1>3, <2>2, <3>1
  <2>11. late' = IF TooLate(r) THEN late \cup {a} ELSE late
    BY <1>5 DEF HandlePlayerLogin
  <2> QED
    BY <1>1, <1>5, <2>6, <2>8, <2>9, <2>10, <2>11
<1> QED
  BY <1>4, <1>5
-----------------------------------------------------------------------------
(* What every step preserves.                                              *)

QuietStep ==
    \/ \E s \in Sockets : FindSession(s) \/ PostRequest(s) \/ Disconnect(s)
    \/ \E x \in Sockets : Packets(x) \/ KickPlayer(x) \/ (Switch(x) /\ ~RemoveSession(x))
    \/ \E a \in Accounts : BeginUpdate(a)
    \/ AllAdded \/ AllUpdated \/ EndPackets \/ EndTick
    \/ HandlePlayerLogin \/ SetPlayerLimit \/ UNCHANGED vars

\* The actions of Next.
LEMMA Steps ==
    ASSUME [Next]_vars
    PROVE  \/ QuietStep
           \/ \E s \in Sockets : AddSession(s) \/ RemoveSession(s)
           \/ BeginUpdateSessions \/ AddSession_ \/ CleanupsBeforeStop
BY DEF Next, Network, Loop, Stopped, QuietStep

LEMMA QuietSteps ==
    ASSUME TypeOK, Places, InLoop, QuietStep
    PROVE  Quiet
<1>1. CASE AllAdded \/ AllUpdated \/ EndPackets \/ EndTick \/ SetPlayerLimit \/ UNCHANGED vars
  <2>1. UNCHANGED <<netVars, session, chars>> /\ SamePlaces
    BY <1>1 DEF AllAdded, AllUpdated, EndPackets, EndTick, SetPlayerLimit, vars, netVars, listVars,
                loopVars, charVars, SamePlaces
  <2> QED
    BY <2>1, IdleQuiet
<1> QED
  BY <1>1, NetworkQuiet, PacketsQuiet, KickQuiet, SwitchQuiet, BeginUpdateQuiet, LoginQuiet DEF QuietStep

\* Counting characters, and sessions still to be added.
LEMMA PassingKeeps ==
    ASSUME TypeOK, Places, Counted, Passing
    PROVE  /\ Listed' = Listed
           /\ \A x \in Sockets : Fresh(x) => Fresh(x)'
           /\ \A s \in Sockets : conn'[s] \in {"away", "found"} => session'[s] = None
           /\ \A a \in Accounts : sessions'[a] # None =>
                 AccountOf[sessions'[a]] = a /\ session'[sessions'[a]] # None
           /\ Counted' /\ chars' \in [Accounts -> Nat]
<1>1. sessions' = sessions /\ Listed' = Listed
  BY DEF Passing, Listed
<1>2. \A x \in Sockets : Fresh(x) => Fresh(x)'
  BY <1>1 DEF Fresh, Passing
<1>3. \A s \in Sockets : conn'[s] \in {"away", "found"} => session'[s] = None
  BY DEF Passing, Shifts, Places
<1>4. \A a \in Accounts : sessions[a] # None => sessions[a] \in Sockets /\ session[sessions[a]] # None
  BY DEF TypeOK, Places
<1>5. \A a \in Accounts : sessions'[a] # None =>
        AccountOf[sessions'[a]] = a /\ session'[sessions'[a]] # None
  BY <1>1, <1>4 DEF Passing, Places
<1>6. ASSUME NEW a \in Accounts
      PROVE  /\ chars'[a] \in Nat
             /\ sessions[a] # None /\ session'[sessions[a]].player # "none" => chars'[a] >= 1
  <2>1. chars[a] \in Nat /\ (sessions[a] # None /\ session[sessions[a]].player # "none" => chars[a] >= 1)
    BY DEF TypeOK, Counted
  <2>2. CASE sessions[a] = None
    BY <2>1, <2>2 DEF Passing
  <2>3. CASE sessions[a] # None
    <3>1. Passes(session[sessions[a]], chars[a], session'[sessions[a]], chars'[a])
      BY <2>3 DEF Passing
    <3> QED
      BY <2>1, <2>3, <3>1 DEF Passes
  <2> QED
    BY <2>2, <2>3
<1>7. Counted'
  BY <1>1, <1>6 DEF Counted
<1>8. chars' \in [Accounts -> Nat]
  BY <1>6 DEF Passing
<1> QED
  BY <1>1, <1>2, <1>3, <1>5, <1>7, <1>8

LEMMA QuietKeeps ==
    ASSUME TypeOK, Places, QueueConsistent, Counted, Quiet
    PROVE  Places' /\ QueueConsistent' /\ Counted' /\ Listed' = Listed /\ InLine' = InLine
<1>1. /\ UNCHANGED <<addQueue, adding, sessions, waiting, stopping>> /\ Passing
      /\ addQueue \in Seq(Sockets) /\ adding \in Seq(Sockets)
  BY DEF Quiet, SamePlaces, TypeOK
<1>2. InLine' = InLine /\ Listed' = Listed
  BY <1>1, PassingKeeps DEF InLine
<1>3. Places'
  <2>1. Elements(addQueue) \cup Elements(adding) \subseteq Sockets
    BY <1>1 DEF Elements
  <2>2. \A x \in Elements(addQueue) \cup Elements(adding) : Fresh(x)'
    BY <1>1, <2>1, PassingKeeps DEF Places
  <2>3. /\ Elements(addQueue)' = Elements(addQueue) /\ Elements(adding)' = Elements(adding)
        /\ Distinct(addQueue)' = Distinct(addQueue) /\ Distinct(adding)' = Distinct(adding)
    BY <1>1 DEF Elements, Distinct
  <2> QED
    BY <1>1, <2>2, <2>3, PassingKeeps DEF Places
<1>4. QueueConsistent'
  <2>1. \A x \in Sockets : session[x] # None <=> session'[x] # None
    BY <1>1 DEF Passing
  <2>2. \A x \in Sockets : session[x] # None => session'[x].inQueue = session[x].inQueue
    BY <1>1 DEF Passing
  <2>3. InLine \subseteq Sockets
    BY DEF InLine, TypeOK
  <2> QED
    BY <1>1, <1>2, <2>1, <2>2, <2>3 DEF QueueConsistent
<1> QED
  BY <1>1, <1>2, <1>3, <1>4, PassingKeeps
-----------------------------------------------------------------------------
(* The steps that move sessions.                                           *)

LEMMA AddSessionKeeps ==
    ASSUME TypeOK, Places, QueueConsistent, Counted, NEW s \in Sockets, AddSession(s)
    PROVE  /\ Places' /\ QueueConsistent' /\ Counted' /\ Listed' = Listed
           /\ session' \in [Sockets -> SessionObjects \cup {None}] /\ Shifts
           /\ addQueue' \in Seq(Sockets) /\ chars' = chars /\ sessions' = sessions
           /\ \A y \in Listed : session'[y] = session[y]
<1> DEFINE n == NewSession(s)
<1>1. /\ conn[s] = "found" /\ session[s] = None /\ s \notin Listed
      /\ session \in [Sockets -> SessionObjects \cup {None}] /\ addQueue \in Seq(Sockets)
      /\ Listed \subseteq Sockets
  <2>1. conn[s] = "found" /\ session[s] = None
    BY DEF AddSession, Places
  <2>2. s \notin Listed
    BY <2>1 DEF Listed, Places
  <2> QED
    BY <2>1, <2>2 DEF TypeOK, Listed
<1>2. n \in SessionObjects /\ n.player = "none" /\ ~n.inQueue /\ n # None
  <2>1. <<>> \in Seq(Sockets)
    BY NothingThere
  <2>2. n \in SessionObjects /\ n.player = "none" /\ ~n.inQueue
    BY <2>1 DEF SessionObjects, NewSession
  <2> QED
    BY <2>2, NullSessionAssumption
<1> HIDE DEF n
<1>3. /\ session' = [session EXCEPT ![s] = n] /\ addQueue' = Append(addQueue, s)
      /\ UNCHANGED <<adding, sessions, waiting, stopping, chars>>
  BY DEF AddSession, loopVars, charVars, n
<1>4. /\ session' \in [Sockets -> SessionObjects \cup {None}] /\ session'[s] = n
      /\ \A y \in Sockets \ {s} : session'[y] = session[y]
  BY <1>1, <1>2, <1>3
<1>5. Listed' = Listed /\ InLine' = InLine
  BY <1>3 DEF Listed, InLine
<1>6. Shifts /\ conn'[s] = "open"
  BY DEF AddSession, Shifts, TypeOK
<1>7. Fresh(s)' /\ \A x \in Sockets : Fresh(x) => Fresh(x)'
  BY <1>1, <1>2, <1>4, <1>5 DEF Fresh
<1>8. s \notin Elements(addQueue) \cup Elements(adding)
  BY <1>1 DEF Places, Fresh
<1>9. /\ addQueue' \in Seq(Sockets) /\ Distinct(addQueue')
      /\ Elements(addQueue') = Elements(addQueue) \cup {s}
  BY <1>1, <1>3, <1>8, Added DEF Places
<1>10. \A y \in Listed : session'[y] = session[y]
  BY <1>1, <1>4
<1>11. Places'
  <2>1. \A c \in Sockets : conn'[c] \in {"away", "found"} => session'[c] = None
    BY <1>4, <1>6 DEF Places, Shifts
  <2>2. \A a \in Accounts : sessions'[a] # None =>
          AccountOf[sessions'[a]] = a /\ session'[sessions'[a]] # None
    BY <1>3, <1>10 DEF Places, Listed
  <2>3. Elements(adding) \subseteq Sockets /\ Elements(addQueue) \subseteq Sockets
    BY DEF TypeOK, Elements
  <2>4. \A x \in Elements(addQueue') \cup Elements(adding) : Fresh(x)'
    BY <1>7, <1>9, <2>3 DEF Places
  <2>5. /\ Elements(adding)' = Elements(adding) /\ Distinct(adding)' = Distinct(adding)
        /\ Elements(addQueue)' = Elements(addQueue') /\ Distinct(addQueue)' = Distinct(addQueue')
    BY <1>3 DEF Elements, Distinct
  <2>6. Elements(addQueue') \cap Elements(adding) = {}
    BY <1>8, <1>9 DEF Places
  <2>7. Distinct(adding)
    BY DEF Places
  <2> QED
    BY <1>9, <2>1, <2>2, <2>4, <2>5, <2>6, <2>7 DEF Places
<1>12. Counted'
  BY <1>3, <1>10 DEF Counted, Listed
<1>13. QueueConsistent'
  <2>1. \A x \in InLine : x \in Listed /\ session'[x] # None /\ session'[x].inQueue
    BY <1>10 DEF QueueConsistent
  <2>2. ~stopping => \A x \in Sockets : session'[x] # None /\ session'[x].inQueue => x \in InLine
    BY <1>2, <1>4 DEF QueueConsistent
  <2> QED
    BY <1>3, <1>5, <2>1, <2>2 DEF QueueConsistent
<1> QED
  BY <1>3, <1>4, <1>5, <1>6, <1>9, <1>10, <1>11, <1>12, <1>13

\* std::swap of the queue and the copy that the loop adds from.
LEMMA SwapKeeps ==
    ASSUME TypeOK, Places, Counted, Passing, SwapAddQueue
    PROVE  Places' /\ addQueue' \in Seq(Sockets) /\ adding' \in Seq(Sockets)
<1>1. adding' = addQueue /\ addQueue' = <<>> /\ addQueue \in Seq(Sockets)
  BY DEF SwapAddQueue, TypeOK
<1>2. /\ Elements(adding)' = Elements(addQueue) /\ Elements(addQueue)' = {}
      /\ Distinct(adding)' = Distinct(addQueue) /\ Distinct(addQueue)
      /\ Distinct(addQueue)' /\ <<>> \in Seq(Sockets)
  BY <1>1, NothingThere DEF Elements, Distinct, Places
<1>3. \A x \in Elements(addQueue) : Fresh(x)'
  BY <1>1, PassingKeeps DEF Elements, Places
<1> QED
  BY <1>1, <1>2, <1>3, PassingKeeps DEF Places

LEMMA BeginKeeps ==
    ASSUME TypeOK, Places, QueueConsistent, Counted, BeginUpdateSessions
    PROVE  /\ Passing /\ Places' /\ QueueConsistent' /\ Counted'
           /\ addQueue' \in Seq(Sockets) /\ adding' \in Seq(Sockets)
<1>1. UNCHANGED <<netVars, session, sessions, waiting, stopping, chars>> /\ SwapAddQueue
  BY DEF BeginUpdateSessions, charVars
<1>2. Shifts
  BY <1>1, NothingShifts
<1>3. \A a \in Accounts : sessions[a] # None =>
        Passes(session[sessions[a]], chars[a], session'[sessions[a]], chars'[a])
  BY <1>1, SameRecord DEF TypeOK, Places
<1>4. session' \in [Sockets -> SessionObjects \cup {None}] /\ chars' \in [Accounts -> Int]
  BY <1>1 DEF TypeOK
<1>5. Passing
  BY <1>1, <1>2, <1>3, <1>4 DEF Passing
<1>6. QueueConsistent'
  BY <1>1 DEF QueueConsistent, InLine, Listed
<1> QED
  BY <1>1, <1>5, <1>6, SwapKeeps, PassingKeeps

\* AddSession_ puts a session that has no player into the list.
LEMMA AddingKeeps ==
    ASSUME TypeOK, Places, QueueConsistent, Counted, AddSession_
    PROVE  /\ Places' /\ QueueConsistent' /\ Counted'
           /\ session' \in [Sockets -> SessionObjects \cup {None}]
           /\ adding' \in Seq(Sockets) /\ waiting' \in Seq(Sockets)
           /\ sessions' \in [Accounts -> Sockets \cup {None}]
           /\ \A a \in Accounts : sessions[a] # None =>
                 sessions'[a] = sessions[a] /\ session'[sessions[a]] = session[sessions[a]]
           /\ \A a \in Accounts : sessions[a] = None /\ sessions'[a] # None =>
                 session'[sessions'[a]].player = "none"
           /\ UNCHANGED <<netVars, addQueue, stopping, chars>>
<1> DEFINE x == Head(adding)
           a == AccountOf[x]
<1>1. /\ adding \in Seq(Sockets) /\ adding # <<>> /\ adding' = Tail(adding)
      /\ UNCHANGED <<netVars, addQueue, stopping, chars>>
  BY DEF AddSession_, loopVars, charVars, TypeOK
<1>2. /\ x \in Sockets /\ x \in Elements(adding) /\ adding' \in Seq(Sockets)
      /\ Elements(adding) = Elements(adding') \cup {x}
      /\ Distinct(adding') /\ x \notin Elements(adding')
  BY <1>1, FirstTaken DEF Places
<1> HIDE DEF x
<1>3. /\ Fresh(x) /\ a \in Accounts
      /\ session[x] \in SessionObjects /\ session \in [Sockets -> SessionObjects \cup {None}]
      /\ sessions \in [Accounts -> Sockets \cup {None}] /\ waiting \in Seq(Sockets)
      /\ x \notin InLine
  <2>1. Fresh(x) /\ a \in Accounts
    BY <1>2, AccountsAssumption DEF Places
  <2>2. x \notin InLine
    BY <2>1 DEF Fresh, QueueConsistent
  <2> QED
    BY <1>2, <2>1, <2>2 DEF TypeOK, Fresh
<1>4. /\ Elements(adding)' = Elements(adding') /\ Distinct(adding)' = Distinct(adding')
      /\ Elements(addQueue)' = Elements(addQueue) /\ Distinct(addQueue)' = Distinct(addQueue)
      /\ Elements(addQueue) \cap Elements(adding') = {} /\ Distinct(addQueue)
      /\ x \notin Elements(addQueue)
      /\ Elements(addQueue) \subseteq Sockets /\ Elements(adding') \subseteq Sockets
  <2>1. /\ Elements(adding)' = Elements(adding') /\ Distinct(adding)' = Distinct(adding')
        /\ Elements(addQueue)' = Elements(addQueue) /\ Distinct(addQueue)' = Distinct(addQueue)
    BY <1>1 DEF Elements, Distinct
  <2>2. Elements(addQueue) \cap Elements(adding) = {} /\ Distinct(addQueue)
    BY DEF Places
  <2>3. Elements(addQueue) \cap Elements(adding') = {} /\ x \notin Elements(addQueue)
    BY <1>2, <2>2
  <2>4. Elements(addQueue) \subseteq Sockets /\ Elements(adding') \subseteq Sockets
    BY <1>2 DEF Elements, TypeOK
  <2> QED
    BY <2>1, <2>2, <2>3, <2>4
<1>5. CASE sessions[a] # None /\ UNCHANGED <<sessions, waiting, session>>
  <2>1. \A y : Fresh(y) => Fresh(y)'
    BY <1>5 DEF Fresh, Listed
  <2>2. Places'
    BY <1>1, <1>2, <1>4, <1>5, <2>1 DEF Places, netVars
  <2>3. QueueConsistent' /\ Counted'
    <3>1. InLine' = InLine /\ Listed' = Listed
      BY <1>5 DEF InLine, Listed
    <3>2. QueueConsistent'
      BY <1>1, <1>5, <3>1 DEF QueueConsistent
    <3>3. Counted'
      BY <1>1, <1>5 DEF Counted
    <3> QED
      BY <3>2, <3>3
  <2> QED
    BY <1>1, <1>2, <1>3, <1>5, <2>2, <2>3
<1>6. CASE sessions[a] = None /\ sessions' = [sessions EXCEPT ![a] = x]
           /\ (AddQueuedSession(x) \/ UNCHANGED <<waiting, session>>)
  <2>1. /\ sessions'[a] = x /\ \A b \in Accounts \ {a} : sessions'[b] = sessions[b]
        /\ sessions' \in [Accounts -> Sockets \cup {None}]
    BY <1>2, <1>3, <1>6
  <2>2. x # None /\ x \notin Listed /\ \A b \in Accounts : sessions[b] # x
    BY <1>2, <1>3, AccountsAssumption DEF Fresh, Listed
  <2>3. Listed' = Listed \cup {x}
    BY <1>3, <1>6, <2>1, <2>2 DEF Listed
  <2>4. \E q \in BOOLEAN :
          /\ session'[x].player = "none" /\ session'[x].inQueue = q /\ session'[x] \in SessionObjects
          /\ \A y \in Sockets \ {x} : session'[y] = session[y]
          /\ session' \in [Sockets -> SessionObjects \cup {None}]
          /\ waiting' = IF q THEN Append(waiting, x) ELSE waiting
    <3>1. CASE UNCHANGED <<waiting, session>>
      <4>1. session[x].player = "none" /\ session[x].inQueue = FALSE
        BY <1>3 DEF Fresh, SessionObjects
      <4> QED
        BY <1>3, <3>1, <4>1
    <3>2. CASE AddQueuedSession(x)
      <4> DEFINE r1 == [session[x] EXCEPT !.inQueue = TRUE]
      <4>1. session' = [session EXCEPT ![x] = r1] /\ waiting' = Append(waiting, x)
        BY <3>2 DEF AddQueuedSession
      <4>2. r1 \in SessionObjects /\ r1.player = "none" /\ r1.inQueue = TRUE
        BY <1>3 DEF SessionObjects, Fresh
      <4> HIDE DEF r1
      <4>3. /\ session'[x] = r1 /\ \A y \in Sockets \ {x} : session'[y] = session[y]
            /\ session' \in [Sockets -> SessionObjects \cup {None}]
        BY <1>2, <1>3, <4>1, <4>2
      <4> QED
        BY <4>1, <4>2, <4>3
    <3> QED
      BY <1>6, <3>1, <3>2
  <2>5. PICK q \in BOOLEAN :
          /\ session'[x].player = "none" /\ session'[x].inQueue = q /\ session'[x] \in SessionObjects
          /\ \A y \in Sockets \ {x} : session'[y] = session[y]
          /\ session' \in [Sockets -> SessionObjects \cup {None}]
          /\ waiting' = IF q THEN Append(waiting, x) ELSE waiting
    BY <2>4
  <2>6. \A b \in Accounts : sessions[b] # None =>
          sessions'[b] = sessions[b] /\ session'[sessions[b]] = session[sessions[b]]
    BY <1>3, <1>6, <2>1, <2>2, <2>5
  <2>7. \A b \in Accounts : sessions[b] = None /\ sessions'[b] # None => b = a
    BY <2>1
  <2>8. \A y \in Sockets \ {x} : Fresh(y) => Fresh(y)'
    BY <2>3, <2>5 DEF Fresh
  <2>9. Places'
    <3>1. \A c \in Sockets : conn'[c] \in {"away", "found"} => session'[c] = None
      BY <1>1, <1>3, <2>5 DEF Places, netVars, Fresh
    <3>2. \A b \in Accounts : sessions'[b] # None =>
            AccountOf[sessions'[b]] = b /\ session'[sessions'[b]] # None
      BY <2>1, <2>5, <2>6, <2>7, NullSessionAssumption DEF Places
    <3>3. \A y \in Elements(addQueue) \cup Elements(adding') : Fresh(y)'
      BY <1>2, <1>4, <2>8 DEF Places
    <3> QED
      BY <1>2, <1>4, <3>1, <3>2, <3>3 DEF Places
  <2>10. Counted'
    BY <1>1, <2>1, <2>5, <2>6, <2>7 DEF Counted
  <2>11. /\ waiting' \in Seq(Sockets) /\ Distinct(waiting')
         /\ Elements(waiting') = InLine \cup (IF q THEN {x} ELSE {})
    <3>1. Elements(waiting) = InLine /\ Distinct(waiting)
      BY DEF Elements, InLine, Distinct, QueueConsistent
    <3> QED
      BY <1>2, <1>3, <2>5, <3>1, Added
  <2>12. QueueConsistent'
    <3>1. InLine' = Elements(waiting')
      BY DEF InLine, Elements
    <3>2. InLine \subseteq Sockets
      BY <1>3 DEF InLine
    <3>3. \A y \in InLine' : y \in Listed' /\ session'[y] # None /\ session'[y].inQueue
      BY <1>3, <2>3, <2>5, <2>11, <3>1, <3>2, NullSessionAssumption DEF QueueConsistent
    <3>4. ~stopping => \A y \in Sockets : session'[y] # None /\ session'[y].inQueue => y \in InLine'
      BY <2>5, <2>11, <3>1 DEF QueueConsistent
    <3> QED
      BY <1>1, <2>11, <3>3, <3>4 DEF QueueConsistent, Distinct
  <2> QED
    BY <1>1, <1>2, <2>1, <2>5, <2>6, <2>7, <2>9, <2>10, <2>11, <2>12
<1> QED
  BY <1>5, <1>6 DEF AddSession_, x

LEMMA CleanupsKeeps ==
    ASSUME TypeOK, Places, Counted, CleanupsBeforeStop
    PROVE  /\ Passing /\ Places' /\ QueueConsistent' /\ Counted'
           /\ addQueue' \in Seq(Sockets) /\ adding' \in Seq(Sockets)
           /\ \A a \in Accounts : LET r == session[sessions[a]] IN
                 sessions[a] # None /\ (~r.recent \/ r.player = "none") =>
                    session'[sessions[a]].player = "none"
<1>1. /\ SwapAddQueue /\ stopping' = TRUE /\ waiting' = <<>> /\ UNCHANGED <<ref, sessions>>
      /\ session \in [Sockets -> SessionObjects \cup {None}] /\ chars \in [Accounts -> Nat]
  BY DEF CleanupsBeforeStop, TypeOK
<1>2. Shifts
  BY <1>1, CloseShifts DEF CleanupsBeforeStop, TypeOK
<1>3. \A x \in Sockets :
         session'[x] = IF x \in Listed THEN Logout(Kicked(session[x])) ELSE session[x]
  BY DEF CleanupsBeforeStop
<1>4. \A a \in Accounts :
         chars'[a] = IF sessions[a] = None THEN chars[a]
                     ELSE chars[a] - LogoutRemoves(session[sessions[a]])
  BY DEF CleanupsBeforeStop
<1>5. ASSUME NEW x \in Listed
      PROVE  LET r == session[x]
                 a == AccountOf[x]
             IN /\ a \in Accounts /\ sessions[a] = x /\ x \in Sockets /\ r # None
                /\ Passes(r, chars[a], session'[x], chars'[a])
                /\ ~r.recent \/ r.player = "none" => session'[x].player = "none"
  <2> DEFINE r == session[x]
             a == AccountOf[x]
  <2>1. a \in Accounts /\ sessions[a] = x /\ x \in Sockets /\ r \in SessionObjects /\ x # None
    BY OfAccount DEF Listed
  <2>2. chars[a] \in Int /\ session'[x] = Logout(Kicked(r)) /\ chars'[a] = chars[a] - LogoutRemoves(r)
    BY <1>1, <1>3, <1>4, <2>1
  <2> QED
    BY <2>1, <2>2, LogoutRecord, NullSessionAssumption
<1>6. ASSUME NEW a \in Accounts, sessions[a] # None
      PROVE  /\ sessions[a] \in Listed /\ AccountOf[sessions[a]] = a
  BY <1>6 DEF Listed, Places
<1>7. \A x \in Listed : session'[x] \in SessionObjects /\ session'[x].inQueue = session[x].inQueue
  BY <1>5 DEF Passes
<1>8. session' \in [Sockets -> SessionObjects \cup {None}]
  <2>1. \A x \in Sockets : session'[x] \in SessionObjects \cup {None}
    BY <1>1, <1>3, <1>7
  <2> QED
    BY <2>1 DEF CleanupsBeforeStop
<1>9. chars' \in [Accounts -> Int]
  <2>1. \A a \in Accounts : chars'[a] \in Int
    BY <1>1, <1>4 DEF LogoutRemoves
  <2> QED
    BY <2>1 DEF CleanupsBeforeStop
<1>10. \A y \in Sockets :
          /\ session[y] = None <=> session'[y] = None
          /\ session[y] # None => session'[y].inQueue = session[y].inQueue
          /\ session[y] # None /\ y \notin Listed => session'[y].player = session[y].player
  BY <1>3, <1>5, <1>7, NullSessionAssumption
<1>11. \A a \in Accounts :
          IF sessions[a] = None THEN chars'[a] = chars[a]
          ELSE Passes(session[sessions[a]], chars[a], session'[sessions[a]], chars'[a])
  BY <1>4, <1>5, <1>6
<1>12. Passing
  BY <1>1, <1>2, <1>8, <1>9, <1>10, <1>11 DEF Passing
<1>13. QueueConsistent'
  <2>1. InLine' = {} /\ \A i, j \in DOMAIN waiting' : i = j
    BY <1>1, NothingThere DEF InLine
  <2> QED
    BY <1>1, <2>1 DEF QueueConsistent
<1> QED
  BY <1>1, <1>5, <1>6, <1>12, <1>13, SwapKeeps, PassingKeeps

\* What is left of the queue when x leaves the list.
LEMMA QueueLeft ==
    ASSUME TypeOK, Places, QueueConsistent, NEW x \in Listed
    PROVE  LET rest == Without(waiting, x)
               queue == RemoveQueuedSession(x)
           IN /\ rest \in Seq(Sockets) /\ Distinct(rest) /\ Elements(rest) = InLine \ {x}
              /\ queue.line \in Seq(Sockets) /\ Distinct(queue.line)
              /\ Elements(rest) = Elements(queue.line) \cup queue.admitted
              /\ queue.admitted \cap Elements(queue.line) = {}
              /\ \/ queue.line = rest /\ queue.admitted = {}
                 \/ rest # <<>> /\ queue.line = Tail(rest) /\ queue.admitted = {Head(rest)}
<1> DEFINE rest == Without(waiting, x)
           queue == RemoveQueuedSession(x)
<1>1. waiting \in Seq(Sockets) /\ Distinct(waiting) /\ Elements(waiting) = InLine
  BY DEF TypeOK, QueueConsistent, Distinct, Elements, InLine
<1>2. rest \in Seq(Sockets) /\ Distinct(rest) /\ Elements(rest) = InLine \ {x}
  BY <1>1, WithoutElement
<1>3. \/ queue.line = rest /\ queue.admitted = {}
      \/ rest # <<>> /\ queue.line = Tail(rest) /\ queue.admitted = {Head(rest)}
  BY DEF RemoveQueuedSession
<1> HIDE DEF rest, queue
<1>4. rest # <<>> => /\ Tail(rest) \in Seq(Sockets) /\ Distinct(Tail(rest))
                     /\ Elements(rest) = Elements(Tail(rest)) \cup {Head(rest)}
                     /\ Head(rest) \notin Elements(Tail(rest))
  BY <1>2, FirstTaken
<1>5. /\ queue.line \in Seq(Sockets) /\ Distinct(queue.line)
      /\ Elements(rest) = Elements(queue.line) \cup queue.admitted
      /\ queue.admitted \cap Elements(queue.line) = {}
  BY <1>2, <1>3, <1>4
<1> QED
  BY <1>2, <1>3, <1>5 DEF rest, queue

LEMMA Removing ==
    ASSUME TypeOK, Places, InLoop, QueueConsistent, NEW x \in Sockets, RemoveSession(x)
    PROVE  LET queue == RemoveQueuedSession(x) IN
           /\ x \in Listed /\ sessions[cur] = x /\ AccountOf[x] = cur /\ cur \in Accounts \ todo
           /\ step = "switch" /\ step' = "pick"
           /\ waiting' = queue.line /\ InLine' = Elements(queue.line)
           /\ InLine \ {x} = InLine' \cup queue.admitted /\ queue.admitted \cap InLine' = {}
           /\ queue.admitted \subseteq Listed \ {x}
           /\ sessions'[cur] = None /\ \A a \in Accounts \ {cur} : sessions'[a] = sessions[a]
           /\ sessions' \in [Accounts -> Sockets \cup {None}]
           /\ Listed' = Listed \ {x}
           /\ session' \in [Sockets -> SessionObjects \cup {None}] /\ session'[x] = None
           /\ \A y \in Sockets \ {x} :
                 /\ session'[y] = None <=> session[y] = None
                 /\ session[y] # None =>
                      /\ session'[y].inQueue = IF y \in queue.admitted THEN FALSE ELSE session[y].inQueue
                      /\ session'[y].player = session[y].player
                      /\ session'[y].recent = session[y].recent
                      /\ session'[y].logout = session[y].logout
           /\ chars' = [chars EXCEPT ![cur] = chars[cur] - LogoutRemoves(session[x])]
           /\ Shifts /\ UNCHANGED <<addQueue, adding, limit, stopping, logins, used, todo>>
<1> DEFINE queue == RemoveQueuedSession(x)
<1>1. step = "switch" /\ sessions[cur] = x
  BY DEF RemoveSession, Ends, Updating
<1>2. x \in Listed /\ AccountOf[x] = cur /\ cur \in Accounts \ todo /\ x # None
  BY <1>1, Updated DEF InLoop, Listed
<1>3. /\ waiting' = queue.line /\ sessions' = [sessions EXCEPT ![cur] = None]
      /\ chars' = [chars EXCEPT ![cur] = chars[cur] - LogoutRemoves(session[x])]
      /\ step' = "pick" /\ UNCHANGED <<addQueue, adding, limit, stopping, logins, used, todo>>
      /\ Close({session[x].sock} \ {None})
      /\ ref' \in [Sockets -> Sockets \cup {None}]
  BY <1>2 DEF RemoveSession, Continue, TypeOK
<1>4. \A y \in Sockets :
         session'[y] = IF y = x THEN None
                       ELSE IF y \in queue.admitted THEN [session[y] EXCEPT !.inQueue = FALSE]
                       ELSE session[y]
  BY DEF RemoveSession
<1>5. /\ Elements(Without(waiting, x)) = InLine \ {x}
      /\ Elements(Without(waiting, x)) = Elements(queue.line) \cup queue.admitted
      /\ queue.admitted \cap Elements(queue.line) = {}
  BY <1>2, QueueLeft
<1> HIDE DEF queue
<1>6. InLine' = Elements(queue.line)
  BY <1>3 DEF InLine, Elements
<1>7. queue.admitted \subseteq Listed \ {x}
  BY <1>5 DEF QueueConsistent
<1>8. /\ sessions'[cur] = None /\ \A a \in Accounts \ {cur} : sessions'[a] = sessions[a]
      /\ sessions' \in [Accounts -> Sockets \cup {None}]
  BY <1>2, <1>3 DEF TypeOK
<1>9. Listed' = Listed \ {x}
  <2>1. \A a \in Accounts \ {cur} : sessions[a] # x
    BY <1>2, OfAccount
  <2> QED
    BY <1>1, <1>2, <1>8, <2>1 DEF Listed
<1>10. Shifts
  BY <1>3, CloseShifts
<1>11. ASSUME NEW y \in Sockets \ {x}
       PROVE  /\ session'[y] \in SessionObjects \cup {None}
              /\ session'[y] = None <=> session[y] = None
              /\ session[y] # None =>
                   /\ session'[y].inQueue = IF y \in queue.admitted THEN FALSE ELSE session[y].inQueue
                   /\ session'[y].player = session[y].player
                   /\ session'[y].recent = session[y].recent
                   /\ session'[y].logout = session[y].logout
  <2>1. CASE y \notin queue.admitted
    BY <1>4, <2>1 DEF TypeOK
  <2>2. CASE y \in queue.admitted
    <3> DEFINE r1 == [session[y] EXCEPT !.inQueue = FALSE]
    <3>1. session[y] \in SessionObjects
      BY <1>7, <2>2, OfAccount
    <3>2. /\ r1 \in SessionObjects /\ r1.inQueue = FALSE /\ r1.player = session[y].player
          /\ r1.recent = session[y].recent /\ r1.logout = session[y].logout
      BY <3>1 DEF SessionObjects
    <3>3. session'[y] = r1
      BY <1>4, <2>2
    <3> HIDE DEF r1
    <3> QED
      BY <2>2, <3>1, <3>2, <3>3, NullSessionAssumption
  <2> QED
    BY <2>1, <2>2
<1>12. session'[x] = None
  BY <1>4
<1>13. session' \in [Sockets -> SessionObjects \cup {None}]
  <2>1. \A y \in Sockets : session'[y] \in SessionObjects \cup {None}
    BY <1>11, <1>12
  <2> QED
    BY <2>1 DEF RemoveSession
<1> QED
  BY <1>1, <1>2, <1>3, <1>5, <1>6, <1>7, <1>8, <1>9, <1>10, <1>11, <1>12, <1>13 DEF queue

LEMMA RemovingKeeps ==
    ASSUME TypeOK, Places, InLoop, QueueConsistent, Counted, NEW x \in Sockets, RemoveSession(x)
    PROVE  /\ Places' /\ QueueConsistent' /\ Counted'
           /\ chars' \in [Accounts -> Nat] /\ waiting' \in Seq(Sockets)
<1> DEFINE queue == RemoveQueuedSession(x)
<1>1. /\ x \in Listed /\ sessions[cur] = x /\ AccountOf[x] = cur /\ cur \in Accounts
      /\ waiting' = queue.line /\ InLine' = Elements(queue.line)
      /\ InLine \ {x} = InLine' \cup queue.admitted /\ queue.admitted \cap InLine' = {}
      /\ queue.admitted \subseteq Listed \ {x}
      /\ sessions'[cur] = None /\ \A a \in Accounts \ {cur} : sessions'[a] = sessions[a]
      /\ Listed' = Listed \ {x} /\ session'[x] = None
      /\ chars' = [chars EXCEPT ![cur] = chars[cur] - LogoutRemoves(session[x])]
      /\ Shifts /\ UNCHANGED <<addQueue, adding, stopping>>
  BY Removing
<1>2. \A y \in Sockets \ {x} :
         /\ session'[y] = None <=> session[y] = None
         /\ session[y] # None =>
              /\ session'[y].inQueue = IF y \in queue.admitted THEN FALSE ELSE session[y].inQueue
              /\ session'[y].player = session[y].player
  BY Removing
<1>3. queue.line \in Seq(Sockets) /\ Distinct(queue.line)
  BY <1>1, QueueLeft
<1> HIDE DEF queue
<1>4. Listed \subseteq Sockets /\ InLine \subseteq Sockets
      /\ \A a \in Accounts \ {cur} : sessions[a] # x
  BY <1>1, OfAccount DEF Listed, InLine, TypeOK
<1>5. Places'
  <2>1. \A c \in Sockets : conn'[c] \in {"away", "found"} => session'[c] = None
    BY <1>1, <1>2 DEF Places, Shifts
  <2>2. \A a \in Accounts : sessions'[a] # None =>
          AccountOf[sessions'[a]] = a /\ session'[sessions'[a]] # None
    <3> SUFFICES ASSUME NEW a \in Accounts, sessions'[a] # None
                 PROVE  AccountOf[sessions'[a]] = a /\ session'[sessions'[a]] # None
      OBVIOUS
    <3>1. a # cur /\ sessions'[a] = sessions[a] /\ sessions[a] \in Sockets \ {x}
      BY <1>1, <1>4 DEF TypeOK
    <3>2. AccountOf[sessions[a]] = a /\ session[sessions[a]] # None
      BY <3>1 DEF Places
    <3> QED
      BY <1>2, <3>1, <3>2
  <2>3. /\ Elements(addQueue) \cup Elements(adding) \subseteq Sockets
        /\ Elements(addQueue)' = Elements(addQueue) /\ Elements(adding)' = Elements(adding)
        /\ Distinct(addQueue)' = Distinct(addQueue) /\ Distinct(adding)' = Distinct(adding)
    BY <1>1 DEF Elements, Distinct, TypeOK
  <2>4. ASSUME NEW y \in Sockets, Fresh(y) PROVE Fresh(y)'
    <3>1. y # x /\ session'[y] # None /\ y \notin Listed'
      BY <1>1, <1>2, <2>4 DEF Fresh
    <3>2. session'[y].player = "none" /\ ~session'[y].inQueue
      BY <1>1, <1>2, <2>4, <3>1 DEF Fresh
    <3> QED
      BY <3>1, <3>2 DEF Fresh
  <2> QED
    BY <2>1, <2>2, <2>3, <2>4 DEF Places
<1>6. QueueConsistent'
  <2>1. \A y \in InLine' : y \in Listed' /\ session'[y] # None /\ session'[y].inQueue
    BY <1>1, <1>2, <1>4 DEF QueueConsistent
  <2>2. \A i, j \in DOMAIN waiting' : waiting'[i] = waiting'[j] => i = j
    BY <1>1, <1>3 DEF Distinct
  <2>3. ASSUME ~stopping, NEW y \in Sockets, session'[y] # None, session'[y].inQueue
        PROVE  y \in InLine'
    <3>1. y # x /\ session[y] # None
      BY <1>1, <1>2, <2>3
    <3>2. y \notin queue.admitted /\ session[y].inQueue
      BY <1>2, <2>3, <3>1
    <3> QED
      BY <1>1, <2>3, <3>1, <3>2 DEF QueueConsistent
  <2> QED
    BY <1>1, <2>1, <2>2, <2>3 DEF QueueConsistent
<1>7. chars \in [Accounts -> Nat] /\ (session[x].player # "none" => chars[cur] >= 1)
  BY <1>1, AccountsAssumption DEF TypeOK, Counted, Listed
<1>8. chars' \in [Accounts -> Nat] /\ \A a \in Accounts \ {cur} : chars'[a] = chars[a]
  <2>1. chars[cur] - LogoutRemoves(session[x]) \in Nat
    BY <1>1, <1>7 DEF LogoutRemoves
  <2> QED
    BY <1>1, <1>7, <2>1
<1>9. Counted'
  <2> SUFFICES ASSUME NEW a \in Accounts, sessions'[a] # None, session'[sessions'[a]].player # "none"
               PROVE  chars'[a] >= 1
    BY DEF Counted
  <2>1. a # cur /\ sessions'[a] = sessions[a] /\ sessions[a] \in Sockets \ {x}
    BY <1>1, <1>4 DEF TypeOK
  <2>2. session[sessions[a]] # None
    BY <2>1 DEF Places
  <2> QED
    BY <1>2, <1>8, <2>1, <2>2 DEF Counted
<1> QED
  BY <1>1, <1>3, <1>5, <1>6, <1>8, <1>9
-----------------------------------------------------------------------------
(* The loop of UpdateSessions, and the inductive invariant.                *)

\* The variables of the world thread that are not about one session.
ThreadTypes ==
    /\ limit \in Limits
    /\ step \in {"between", "add", "pick", "packets", "switch", "callbacks", "stopped"}
    /\ todo \in SUBSET Accounts /\ cur \in Accounts \cup {None}
    /\ logins \in Seq(Accounts) /\ late \in SUBSET Accounts /\ stopping \in BOOLEAN
    /\ used \in [{"logins", "kicks", "changes"} -> Nat]

LEMMA UsedTyped ==
    ASSUME TypeOK, NEW what \in {"logins", "kicks", "changes"}, NEW bound, Use(what, bound)
    PROVE  used' \in [{"logins", "kicks", "changes"} -> Nat]
BY DEF TypeOK, Use

LEMMA ThreadKeeps ==
    ASSUME TypeOK, InLoop, [Next]_vars
    PROVE  /\ ThreadTypes'
           /\ sessions' = sessions => InLoop'
<1>0. ThreadTypes
  BY DEF TypeOK, ThreadTypes
<1>1. ASSUME UNCHANGED <<limit, loopVars, logins, late, used>>
      PROVE  ThreadTypes' /\ (sessions' = sessions => InLoop')
  BY <1>0, <1>1 DEF ThreadTypes, InLoop, loopVars
<1>2. ASSUME NEW s \in Sockets,
             Network(s) \/ HandleAuthed(s) \/ HandlePlayerReconnect(s) \/ HandleLogoutRequestOpcode(s)
      PROVE  UNCHANGED <<limit, loopVars, logins, late, used>>
  BY <1>2 DEF Network, FindSession, PostRequest, AddSession, Disconnect, HandleAuthed,
              HandlePlayerReconnect, HandleLogoutRequestOpcode, listVars, charVars
<1>3. AddSession_ \/ UNCHANGED vars => UNCHANGED <<limit, loopVars, logins, late, used>>
  BY DEF AddSession_, vars, listVars, charVars, loopVars
<1>4. ASSUME NEW s \in Sockets, HandlePlayerLoginOpcode(s)
      PROVE  ThreadTypes' /\ (sessions' = sessions => InLoop')
  <2>1. UNCHANGED <<limit, step, todo, cur, stopping, late>> /\ logins' = Append(logins, AccountOf[s])
    BY <1>4 DEF HandlePlayerLoginOpcode, listVars, loopVars
  <2>2. logins' \in Seq(Accounts)
    BY <1>0, <2>1, Added, AccountsAssumption DEF ThreadTypes
  <2>3. used' \in [{"logins", "kicks", "changes"} -> Nat]
    BY <1>4, UsedTyped DEF HandlePlayerLoginOpcode
  <2> QED
    BY <1>0, <2>1, <2>2, <2>3 DEF ThreadTypes, InLoop
<1>5. ASSUME NEW s \in Sockets, KickPlayer(s) \/ SetPlayerLimit
      PROVE  ThreadTypes' /\ (sessions' = sessions => InLoop')
  <2>1. UNCHANGED <<step, todo, cur, stopping, logins, late>> /\ limit' \in Limits
    BY <1>0, <1>5 DEF KickPlayer, SetPlayerLimit, listVars, loopVars, charVars, ThreadTypes
  <2>2. used' \in [{"logins", "kicks", "changes"} -> Nat]
    BY <1>5, UsedTyped DEF KickPlayer, SetPlayerLimit
  <2> QED
    BY <1>0, <2>1, <2>2 DEF ThreadTypes, InLoop
<1>6. ASSUME SetPlayerLimit
      PROVE  ThreadTypes' /\ (sessions' = sessions => InLoop')
  <2>1. UNCHANGED <<step, todo, cur, stopping, logins, late>> /\ limit' \in Limits
    BY <1>0, <1>6 DEF SetPlayerLimit, loopVars, charVars
  <2>2. used' \in [{"logins", "kicks", "changes"} -> Nat]
    BY <1>6, UsedTyped DEF SetPlayerLimit
  <2> QED
    BY <1>0, <2>1, <2>2 DEF ThreadTypes, InLoop
<1>7. ASSUME BeginUpdateSessions \/ AllAdded \/ AllUpdated \/ EndPackets \/ EndTick
      PROVE  ThreadTypes' /\ (sessions' = sessions => InLoop')
  <2>1. UNCHANGED <<limit, cur, logins, late, stopping, used>>
    BY <1>7 DEF BeginUpdateSessions, AllAdded, AllUpdated, EndPackets, EndTick, listVars, charVars
  <2>2. /\ step' \in {"between", "add", "pick", "switch", "callbacks", "stopped"}
        /\ step' = "switch" => step = "packets"
        /\ todo' \in {todo, {a \in Accounts : sessions[a] # None}}
        /\ step' = "switch" => todo' = todo
    BY <1>7 DEF BeginUpdateSessions, SwapAddQueue, AllAdded, AllUpdated, EndPackets, EndTick
  <2> QED
    BY <1>0, <2>1, <2>2 DEF ThreadTypes, InLoop
<1>8. ASSUME NEW a \in Accounts, BeginUpdate(a)
      PROVE  ThreadTypes' /\ (sessions' = sessions => InLoop')
  <2>1. /\ UNCHANGED <<limit, logins, late, stopping, used>>
        /\ todo' = todo \ {a} /\ cur' = a /\ step' = "packets" /\ a \in todo
    BY <1>8 DEF BeginUpdate, listVars, charVars
  <2> QED
    BY <1>0, <2>1 DEF ThreadTypes, InLoop
<1>9. ASSUME NEW x \in Sockets, Switch(x)
      PROVE  ThreadTypes' /\ (sessions' = sessions => InLoop')
  <2>1. /\ UNCHANGED <<limit, logins, late, todo, stopping, used>> /\ step' = "pick" /\ cur' = None
    BY <1>9 DEF Switch, UpdateCreated, SwitchSocket, StaysConnected, GoesOffline, StaysOffline,
                RemoveSession, Continue, listVars, charVars
  <2> QED
    BY <1>0, <2>1 DEF ThreadTypes, InLoop
<1>10. ASSUME HandlePlayerLogin
       PROVE  ThreadTypes' /\ (sessions' = sessions => InLoop')
  <2>1. UNCHANGED <<limit, step, todo, cur, stopping, used>> /\ logins' = Tail(logins) /\ logins # <<>>
    BY <1>10 DEF HandlePlayerLogin, listVars, loopVars
  <2>2. logins' \in Seq(Accounts) /\ Head(logins) \in Accounts
    BY <1>0, <2>1, FirstTaken DEF ThreadTypes
  <2>3. late' \in {late, late \cup {Head(logins)}}
    BY <1>10 DEF HandlePlayerLogin
  <2>4. late' \in SUBSET Accounts
    BY <1>0, <2>2, <2>3 DEF ThreadTypes
  <2> QED
    BY <1>0, <2>1, <2>2, <2>4 DEF ThreadTypes, InLoop
<1>11. ASSUME CleanupsBeforeStop
       PROVE  ThreadTypes' /\ (sessions' = sessions => InLoop')
  <2>1. UNCHANGED <<limit, todo, cur, logins, late, used>> /\ step' = "add" /\ stopping' = TRUE
    BY <1>11 DEF CleanupsBeforeStop, SwapAddQueue
  <2> QED
    BY <1>0, <2>1 DEF ThreadTypes, InLoop
<1> QED
  BY <1>1, <1>2, <1>3, <1>4, <1>5, <1>6, <1>7, <1>8, <1>9, <1>10, <1>11
  DEF Next, Loop, Packets, Stopped

\* Whatever happens, sessions, lists and counts stay consistent.
Structure == TypeOK /\ Places /\ InLoop /\ QueueConsistent /\ Counted

LEMMA StructureKept ==
    ASSUME Structure, [Next]_vars
    PROVE  Structure'
<1>0. TypeOK /\ Places /\ InLoop /\ QueueConsistent /\ Counted
  BY DEF Structure
<1>1. ThreadTypes' /\ (sessions' = sessions => InLoop')
  BY <1>0, ThreadKeeps
<1>2. ASSUME Shifts, session' \in [Sockets -> SessionObjects \cup {None}],
             addQueue' \in Seq(Sockets), adding' \in Seq(Sockets), waiting' \in Seq(Sockets),
             sessions' \in [Accounts -> Sockets \cup {None}], chars' \in [Accounts -> Nat]
      PROVE  TypeOK'
  BY <1>1, <1>2 DEF TypeOK, ThreadTypes, Shifts
<1>3. CASE QuietStep
  <2>1. Quiet
    BY <1>0, <1>3, QuietSteps
  <2>2. Places' /\ QueueConsistent' /\ Counted'
    BY <1>0, <2>1, QuietKeeps
  <2>3. /\ Passing /\ UNCHANGED <<addQueue, adding, sessions, waiting>>
    BY <2>1 DEF Quiet, SamePlaces
  <2>4. TypeOK'
    BY <1>0, <1>2, <2>3, PassingKeeps DEF Passing, TypeOK
  <2> QED
    BY <1>1, <2>2, <2>3, <2>4 DEF Structure
<1>4. ASSUME NEW s \in Sockets, AddSession(s) PROVE Structure'
  <2>1. /\ Places' /\ QueueConsistent' /\ Counted'
        /\ session' \in [Sockets -> SessionObjects \cup {None}] /\ Shifts
        /\ addQueue' \in Seq(Sockets) /\ chars' = chars /\ sessions' = sessions
    BY <1>0, <1>4, AddSessionKeeps
  <2>2. UNCHANGED <<adding, waiting>>
    BY <1>4 DEF AddSession
  <2>3. TypeOK'
    BY <1>0, <1>2, <2>1, <2>2 DEF TypeOK
  <2> QED
    BY <1>1, <2>1, <2>3 DEF Structure
<1>5. ASSUME NEW x \in Sockets, RemoveSession(x) PROVE Structure'
  <2>1. /\ Places' /\ QueueConsistent' /\ Counted'
        /\ chars' \in [Accounts -> Nat] /\ waiting' \in Seq(Sockets)
    BY <1>0, <1>5, RemovingKeeps
  <2>2. /\ session' \in [Sockets -> SessionObjects \cup {None}] /\ Shifts
        /\ sessions' \in [Accounts -> Sockets \cup {None}]
        /\ UNCHANGED <<addQueue, adding, todo>> /\ step' = "pick"
        /\ cur \in Accounts \ todo /\ \A a \in Accounts \ {cur} : sessions'[a] = sessions[a]
    BY <1>0, <1>5, Removing
  <2>3. TypeOK'
    BY <1>0, <1>2, <2>1, <2>2 DEF TypeOK
  <2>4. InLoop'
    <3>1. \A a \in todo : sessions'[a] # None
      BY <1>0, <2>2 DEF InLoop, TypeOK
    <3> QED
      BY <2>2, <3>1 DEF InLoop
  <2> QED
    BY <2>1, <2>3, <2>4 DEF Structure
<1>6. CASE BeginUpdateSessions
  <2>1. /\ Passing /\ Places' /\ QueueConsistent' /\ Counted'
        /\ addQueue' \in Seq(Sockets) /\ adding' \in Seq(Sockets)
    BY <1>0, <1>6, BeginKeeps
  <2>2. UNCHANGED <<sessions, waiting>>
    BY <1>6 DEF BeginUpdateSessions
  <2>3. chars' \in [Accounts -> Nat]
    BY <1>0, <2>1, PassingKeeps
  <2>4. TypeOK'
    BY <1>0, <1>2, <2>1, <2>2, <2>3 DEF TypeOK, Passing
  <2> QED
    BY <1>1, <2>1, <2>2, <2>4 DEF Structure
<1>7. CASE AddSession_
  <2>1. /\ Places' /\ QueueConsistent' /\ Counted'
        /\ session' \in [Sockets -> SessionObjects \cup {None}]
        /\ adding' \in Seq(Sockets) /\ waiting' \in Seq(Sockets)
        /\ sessions' \in [Accounts -> Sockets \cup {None}]
        /\ \A a \in Accounts : sessions[a] # None => sessions'[a] = sessions[a]
        /\ UNCHANGED <<netVars, addQueue, chars>>
    BY <1>0, <1>7, AddingKeeps
  <2>2. Shifts
    BY <1>0, <2>1, NothingShifts
  <2>3. TypeOK'
    BY <1>0, <1>2, <2>1, <2>2 DEF TypeOK
  <2>4. step = "add" /\ step' = step /\ todo' = todo
    BY <1>7 DEF AddSession_, loopVars
  <2>5. InLoop'
    BY <1>0, <2>1, <2>4 DEF InLoop, TypeOK
  <2> QED
    BY <2>1, <2>3, <2>5 DEF Structure
<1>8. CASE CleanupsBeforeStop
  <2>1. /\ Passing /\ Places' /\ QueueConsistent' /\ Counted'
        /\ addQueue' \in Seq(Sockets) /\ adding' \in Seq(Sockets)
    BY <1>0, <1>8, CleanupsKeeps
  <2>2. sessions' = sessions /\ waiting' = <<>>
    BY <1>8 DEF CleanupsBeforeStop
  <2>3. chars' \in [Accounts -> Nat]
    BY <1>0, <2>1, PassingKeeps
  <2>4. waiting' \in Seq(Sockets)
    BY <2>2, NothingThere
  <2>5. TypeOK'
    BY <1>0, <1>2, <2>1, <2>2, <2>3, <2>4 DEF TypeOK, Passing
  <2> QED
    BY <1>1, <2>1, <2>2, <2>5 DEF Structure
<1> QED
  BY <1>3, <1>4, <1>5, <1>6, <1>7, <1>8, Steps

LEMMA StructureBegins ==
    ASSUME Init
    PROVE  Structure
<1>1. Listed = {} /\ InLine = {} /\ DOMAIN waiting = {}
  BY NothingThere DEF Init, Listed, InLine
<1>2. TypeOK
  <2>1. <<>> \in Seq(Sockets) /\ <<>> \in Seq(Accounts)
    BY NothingThere
  <2>2. used \in [{"logins", "kicks", "changes"} -> Nat]
    <3>1. used = [logins |-> 0, kicks |-> 0, changes |-> 0]
      BY DEF Init
    <3> QED
      BY <3>1
  <2> QED
    BY <2>1, <2>2 DEF Init, TypeOK
<1>3. Places
  BY NothingThere DEF Init, Places
<1>4. InLoop /\ Counted
  BY DEF Init, InLoop, Counted
<1>5. QueueConsistent
  BY <1>1 DEF Init, QueueConsistent
<1> QED
  BY <1>2, <1>3, <1>4, <1>5 DEF Structure

LEMMA StructureHolds == Spec => []Structure
<1>1. Structure /\ [Next]_vars => Structure'
  BY StructureKept
<1> QED
  BY <1>1, StructureBegins, PTL DEF Spec

\* Every variable has its type; above all no count of characters falls below 0.
THEOREM TypesHold == Spec => []TypeOK
<1>1. Structure => TypeOK
  BY DEF Structure
<1> QED
  BY <1>1, StructureHolds, PTL

\* The player queue: World::AddQueuedSession, RemoveQueuedSession and the
\* reconnections, kicks and halts between them leave no session in the queue
\* that is not in the list or does not know it, and none outside that thinks it
\* is queued.
THEOREM QueueStaysConsistent == Spec => []QueueConsistent
<1>1. Structure => QueueConsistent
  BY DEF Structure
<1> QED
  BY <1>1, StructureHolds, PTL
-----------------------------------------------------------------------------
(* Characters.                                                             *)

Owned == CharactersOwned /\ Removable /\ Halting

\* Every quiet step but the answer to a login is calm.
LEMMA CalmSteps ==
    ASSUME Structure, QuietStep, ~HandlePlayerLogin
    PROVE  /\ Calm /\ late' = late
           /\ step' \in {"between", "callbacks"} => step \in {"between", "callbacks"} \/ ~stopping
           /\ step' = "stopped" => step = "stopped" \/ stopping
<1>0. TypeOK /\ Places /\ InLoop
  BY DEF Structure
<1>1. CASE AllAdded \/ AllUpdated \/ EndPackets \/ EndTick \/ SetPlayerLimit \/ UNCHANGED vars
  <2>1. UNCHANGED <<netVars, session, chars>> /\ SamePlaces /\ late' = late
    BY <1>1 DEF AllAdded, AllUpdated, EndPackets, EndTick, SetPlayerLimit, vars, netVars, listVars,
                loopVars, charVars, SamePlaces
  <2>2. /\ step' \in {"between", "callbacks"} => step \in {"between", "callbacks"} \/ ~stopping
        /\ step' = "stopped" => step = "stopped" \/ stopping
    BY <1>1, <2>1 DEF AllAdded, AllUpdated, EndPackets, EndTick, SetPlayerLimit, vars, loopVars
  <2> QED
    BY <1>0, <2>1, <2>2, IdleQuiet
<1>2. ASSUME NEW s \in Sockets, FindSession(s) \/ PostRequest(s) \/ Disconnect(s)
      PROVE  Calm /\ late' = late /\ step' = step
  <2>1. step' = step /\ late' = late
    BY <1>2 DEF FindSession, PostRequest, Disconnect, loopVars, charVars
  <2> QED
    BY <1>0, <1>2, <2>1, NetworkQuiet
<1>3. ASSUME NEW x \in Sockets, Packets(x)
      PROVE  Calm /\ late' = late /\ step' = step
  <2>1. step' = step /\ late' = late
    BY <1>3 DEF Packets, HandleAuthed, HandlePlayerLoginOpcode, HandlePlayerReconnect,
                HandleLogoutRequestOpcode, loopVars, charVars
  <2> QED
    BY <1>0, <1>3, <2>1, PacketsQuiet
<1>4. ASSUME NEW x \in Sockets, KickPlayer(x)
      PROVE  Calm /\ late' = late /\ step' = step
  <2>1. step' = step /\ late' = late
    BY <1>4 DEF KickPlayer, loopVars, charVars
  <2> QED
    BY <1>0, <1>4, <2>1, KickQuiet
<1>5. ASSUME NEW x \in Sockets, Switch(x), ~RemoveSession(x)
      PROVE  Calm /\ late' = late /\ step' = "pick"
  <2>1. step' = "pick" /\ late' = late
    BY <1>5 DEF Switch, UpdateCreated, SwitchSocket, StaysConnected, GoesOffline, StaysOffline,
                Continue, charVars
  <2> QED
    BY <1>0, <1>5, <2>1, SwitchQuiet
<1>6. ASSUME NEW a \in Accounts, BeginUpdate(a)
      PROVE  Calm /\ late' = late /\ step' = "packets"
  <2>1. step' = "packets" /\ late' = late
    BY <1>6 DEF BeginUpdate, charVars
  <2> QED
    BY <1>0, <1>6, <2>1, BeginUpdateQuiet
<1> QED
  BY <1>1, <1>2, <1>3, <1>4, <1>5, <1>6 DEF QuietStep

LEMMA CalmKeeps ==
    ASSUME Structure, Owned, QuietStep, ~HandlePlayerLogin
    PROVE  Owned'
<1>0. TypeOK /\ Places /\ InLoop
  BY DEF Structure
<1>1. Passing /\ sessions' = sessions /\ stopping' = stopping
  BY <1>0, QuietSteps DEF Quiet, SamePlaces
<1>2. /\ Calm /\ late' = late
      /\ step' \in {"between", "callbacks"} => step \in {"between", "callbacks"} \/ ~stopping
      /\ step' = "stopped" => step = "stopped" \/ stopping
  BY CalmSteps
<1>3. ASSUME NEW a \in Accounts \ late, sessions[a] # None
      PROVE  LET r == session[sessions[a]]
                 r1 == session'[sessions[a]]
             IN /\ Passes(r, chars[a], r1, chars'[a]) /\ Calms(r, r1)
                /\ chars'[a] <= chars[a] /\ chars[a] = IF r.player # "none" THEN 1 ELSE 0
                /\ r.player # "none" => ~r.recent
  BY <1>1, <1>2, <1>3 DEF Passing, Calm, Owned, CharactersOwned, Removable
<1>4. CharactersOwned'
  <2>1. ASSUME NEW a \in Accounts \ late, sessions[a] # None
        PROVE  chars'[a] = IF session'[sessions[a]].player # "none" THEN 1 ELSE 0
    BY <1>3, <2>1 DEF Passes, Calms
  <2>2. ASSUME NEW a \in Accounts \ late, sessions[a] = None
        PROVE  chars'[a] = 0
    BY <1>1, <2>2 DEF Passing, Owned, CharactersOwned
  <2> QED
    BY <1>1, <1>2, <2>1, <2>2 DEF CharactersOwned
<1>5. Removable'
  BY <1>1, <1>2, <1>3 DEF Calms, Removable
<1>6. Halting'
  BY <1>1, <1>2, <1>3 DEF Owned, Halting, Calms
<1> QED
  BY <1>4, <1>5, <1>6 DEF Owned

\* An answer that is not too late finds a session without a player, and whose
\* next LogoutPlayer will do its work.
LEMMA LoginKeeps ==
    ASSUME Structure, Owned, HandlePlayerLogin
    PROVE  Owned'
<1> DEFINE a == Head(logins)
<1>0. TypeOK /\ Places /\ InLoop
  BY DEF Structure
<1>1. /\ Passing /\ sessions' = sessions /\ stopping' = stopping
      /\ a \in Accounts
      /\ \A b \in Accounts \ {a} : sessions[b] # None => session'[sessions[b]] = session[sessions[b]]
      /\ sessions[a] # None => /\ chars'[a] = chars[a] + 1
                               /\ session'[sessions[a]].player # "none"
                               /\ session'[sessions[a]].recent = session[sessions[a]].recent
      /\ \A b \in Accounts \ {a} : chars'[b] = chars[b]
      /\ late' = IF sessions[a] # None /\ TooLate(session[sessions[a]]) THEN late \cup {a} ELSE late
  BY <1>0, LoginQuiet DEF Quiet, SamePlaces
<1>2. step = "callbacks" /\ step' = step /\ ~stopping
  BY DEF HandlePlayerLogin, loopVars, Owned, Halting
<1> HIDE DEF a
<1>3. /\ late \subseteq late'
      /\ sessions[a] # None /\ a \notin late' =>
            session[sessions[a]].player = "none" /\ ~session[sessions[a]].recent
  BY <1>1 DEF TooLate
<1>4. ASSUME NEW b \in Accounts \ late', sessions[b] # None
      PROVE  /\ chars'[b] = IF session'[sessions[b]].player # "none" THEN 1 ELSE 0
             /\ session'[sessions[b]].player # "none" => ~session'[sessions[b]].recent
  <2>1. /\ chars[b] = IF session[sessions[b]].player # "none" THEN 1 ELSE 0
        /\ session[sessions[b]].player # "none" => ~session[sessions[b]].recent
    BY <1>3, <1>4 DEF Owned, CharactersOwned, Removable
  <2>2. CASE b = a
    BY <1>1, <1>3, <1>4, <2>1, <2>2
  <2>3. CASE b # a
    BY <1>1, <1>4, <2>1, <2>3
  <2> QED
    BY <2>2, <2>3
<1>5. ASSUME NEW b \in Accounts \ late', sessions[b] = None
      PROVE  chars'[b] = 0
  BY <1>1, <1>3, <1>5 DEF Passing, Owned, CharactersOwned
<1>6. CharactersOwned' /\ Removable'
  BY <1>1, <1>4, <1>5 DEF CharactersOwned, Removable
<1>7. Halting'
  BY <1>1, <1>2 DEF Halting
<1> QED
  BY <1>6, <1>7 DEF Owned

\* Steps that leave what the session of every account says as it is.
LEMMA UnrelatedKeeps ==
    ASSUME Structure, Owned, AddSession_ \/ BeginUpdateSessions \/ \E s \in Sockets : AddSession(s)
    PROVE  Owned'
<1>0. TypeOK /\ Places /\ InLoop /\ QueueConsistent /\ Counted
  BY DEF Structure
<1>1. /\ \A a \in Accounts : sessions[a] # None =>
            sessions'[a] = sessions[a] /\ session'[sessions[a]] = session[sessions[a]]
      /\ \A a \in Accounts : sessions[a] = None /\ sessions'[a] # None =>
            session'[sessions'[a]].player = "none"
      /\ chars' = chars /\ late' = late /\ stopping' = stopping
      /\ step' = step \/ (step = "between" /\ step' = "add")
  <2>1. ASSUME NEW s \in Sockets, AddSession(s)
        PROVE  /\ sessions' = sessions /\ \A y \in Listed : session'[y] = session[y]
               /\ chars' = chars /\ late' = late /\ stopping' = stopping /\ step' = step
    BY <1>0, <2>1, AddSessionKeeps DEF AddSession, loopVars, charVars
  <2>2. ASSUME BeginUpdateSessions
        PROVE  UNCHANGED <<sessions, session, chars, late, stopping>> /\ step = "between" /\ step' = "add"
    BY <2>2 DEF BeginUpdateSessions, SwapAddQueue, charVars
  <2>3. CASE AddSession_
    <3>1. step = "add" /\ step' = step /\ late' = late
      BY <2>3 DEF AddSession_, loopVars, charVars
    <3> QED
      BY <1>0, <2>3, <3>1, AddingKeeps
  <2>4. \A a \in Accounts : sessions[a] # None => sessions[a] \in Listed
    BY DEF Listed
  <2> QED
    BY <2>1, <2>2, <2>3, <2>4
<1>2. CharactersOwned'
  <2>1. \A a \in Accounts \ late :
          chars[a] = IF sessions[a] # None /\ session[sessions[a]].player # "none" THEN 1 ELSE 0
    BY DEF Owned, CharactersOwned
  <2> QED
    BY <1>1, <2>1 DEF CharactersOwned
<1>3. Removable'
  BY <1>1 DEF Owned, Removable
<1>4. Halting'
  <2>1. ASSUME stopping', NEW a \in Accounts \ late, sessions'[a] # None
        PROVE  session'[sessions'[a]].player = "none"
    BY <1>1, <2>1 DEF Owned, Halting
  <2> QED
    BY <1>1, <2>1 DEF Owned, Halting
<1> QED
  BY <1>2, <1>3, <1>4 DEF Owned

\* ~WorldSession takes the character out of the world with the session.
LEMMA RemovalKeeps ==
    ASSUME Structure, Owned, NEW x \in Sockets, RemoveSession(x)
    PROVE  Owned'
<1>0. TypeOK /\ Places /\ InLoop /\ QueueConsistent
  BY DEF Structure
<1>1. /\ sessions[cur] = x /\ cur \in Accounts /\ AccountOf[x] = cur /\ x \in Listed
      /\ step = "switch" /\ step' = "pick"
      /\ sessions'[cur] = None /\ \A a \in Accounts \ {cur} : sessions'[a] = sessions[a]
      /\ chars' = [chars EXCEPT ![cur] = chars[cur] - LogoutRemoves(session[x])]
      /\ stopping' = stopping
  BY <1>0, Removing
<1>2. late' = late
  BY DEF RemoveSession
<1>3. \A y \in Sockets \ {x} : session[y] # None =>
        /\ session'[y].player = session[y].player
        /\ session'[y].recent = session[y].recent
  BY <1>0, Removing
<1>4. ASSUME NEW a \in Accounts \ {cur}, sessions[a] # None
      PROVE  /\ session'[sessions[a]].player = session[sessions[a]].player
             /\ session'[sessions[a]].recent = session[sessions[a]].recent
  <2>1. sessions[a] \in Sockets \ {x} /\ session[sessions[a]] # None
    BY <1>0, <1>1, <1>4, OfAccount DEF TypeOK, Places
  <2> QED
    BY <1>3, <2>1
<1>5. /\ cur \notin late => chars'[cur] = 0
      /\ \A a \in Accounts \ {cur} : chars'[a] = chars[a]
  <2>1. ASSUME cur \notin late PROVE chars[cur] - LogoutRemoves(session[x]) = 0
    <3>1. /\ chars[cur] = IF session[x].player # "none" THEN 1 ELSE 0
          /\ session[x].player # "none" => ~session[x].recent
      BY <1>1, <2>1 DEF Owned, CharactersOwned, Removable, Listed
    <3> QED
      BY <3>1 DEF LogoutRemoves
  <2> QED
    BY <1>0, <1>1, <2>1 DEF TypeOK
<1>6. CharactersOwned'
  <2>1. ASSUME NEW a \in Accounts \ late, a # cur
        PROVE  chars'[a] = IF sessions'[a] # None /\ session'[sessions'[a]].player # "none" THEN 1 ELSE 0
    BY <1>1, <1>4, <1>5, <2>1 DEF Owned, CharactersOwned
  <2> QED
    BY <1>1, <1>2, <1>5, <2>1 DEF CharactersOwned
<1>7. Removable'
  <2>1. ASSUME NEW a \in Accounts \ late, sessions'[a] # None
        PROVE  session'[sessions'[a]].player # "none" => ~session'[sessions'[a]].recent
    <3>1. a \in Accounts \ {cur} /\ sessions'[a] = sessions[a] /\ sessions[a] # None
      BY <1>1, <2>1
    <3> QED
      BY <1>4, <2>1, <3>1 DEF Owned, Removable
  <2> QED
    BY <1>2, <2>1 DEF Removable
<1>8. Halting'
  BY <1>1, <1>2, <1>4 DEF Owned, Halting
<1> QED
  BY <1>6, <1>7, <1>8 DEF Owned

\* KickAll logs out whoever has a player.
LEMMA CleanupsOwned ==
    ASSUME Structure, Owned, CleanupsBeforeStop
    PROVE  Owned'
<1>0. TypeOK /\ Places /\ Counted
  BY DEF Structure
<1>1. /\ sessions' = sessions /\ Passing /\ late' = late
      /\ step' = "add" /\ stopping' = TRUE
  BY <1>0, CleanupsKeeps DEF CleanupsBeforeStop, SwapAddQueue
<1>2. ASSUME NEW a \in Accounts \ late, sessions[a] # None
      PROVE  session'[sessions[a]].player = "none" /\ chars'[a] = 0
  <2>1. /\ ~session[sessions[a]].recent \/ session[sessions[a]].player = "none"
        /\ chars[a] = IF session[sessions[a]].player # "none" THEN 1 ELSE 0
    BY <1>2 DEF Owned, Removable, CharactersOwned
  <2>2. session'[sessions[a]].player = "none"
    BY <1>0, <1>2, <2>1, CleanupsKeeps
  <2>3. Passes(session[sessions[a]], chars[a], session'[sessions[a]], chars'[a])
    BY <1>1, <1>2 DEF Passing
  <2> QED
    BY <2>1, <2>2, <2>3 DEF Passes
<1>3. ASSUME NEW a \in Accounts \ late, sessions[a] = None
      PROVE  chars'[a] = 0
  BY <1>1, <1>3 DEF Passing, Owned, CharactersOwned
<1>4. CharactersOwned'
  BY <1>1, <1>2, <1>3 DEF CharactersOwned
<1>5. Removable'
  BY <1>1, <1>2 DEF Removable
<1>6. Halting'
  BY <1>1, <1>2 DEF Halting
<1> QED
  BY <1>4, <1>5, <1>6 DEF Owned

LEMMA OwnedHolds == Spec => [](Structure /\ Owned)
<1>1. Init => Structure /\ Owned
  <2> SUFFICES ASSUME Init PROVE Structure /\ Owned
    OBVIOUS
  <2>1. CharactersOwned /\ Removable /\ Halting
    BY DEF Init, CharactersOwned, Removable, Halting
  <2> QED
    BY <2>1, StructureBegins DEF Owned
<1>2. Structure /\ Owned /\ [Next]_vars => Structure' /\ Owned'
  BY StructureKept, Steps, CalmKeeps, LoginKeeps, UnrelatedKeeps, RemovalKeeps, CleanupsOwned
<1> QED
  BY <1>1, <1>2, PTL DEF Spec

\* A character is in the world exactly while a session of the list has it, whatever
\* comes between a login and its answer: LogoutPlayer, SetOffline, the switch of the
\* socket, a kick and ~WorldSession neither lose nor repeat a logout.  Only an account
\* whose login was answered too late, for a session that had a character already or had
\* just been logged out, is not claimed.
THEOREM CharactersStayOwned == Spec => []CharactersOwned
<1>1. Structure /\ Owned => CharactersOwned
  BY DEF Owned
<1> QED
  BY <1>1, OwnedHolds, PTL

\* The halt, which kicks everybody and updates the sessions once more, leaves no
\* character in the world, with any number of logins unanswered.
THEOREM StopLogsEveryoneOut == Spec => []StopLogsOut
<1>1. Structure /\ Owned => StopLogsOut
  BY DEF Owned, Halting, CharactersOwned, StopLogsOut
<1> QED
  BY <1>1, OwnedHolds, PTL
-----------------------------------------------------------------------------
(* The player queue, counted.                                              *)

\* World::GetActiveSessionCount counts the sessions of the list that do not wait.
LEMMA ActiveCounted ==
    ASSUME Structure
    PROVE  /\ Listed \subseteq Sockets /\ InLine \subseteq Listed
           /\ IsFiniteSet(Listed) /\ IsFiniteSet(Active)
           /\ Cardinality(Listed) \in Nat /\ Cardinality(Active) \in Nat /\ Len(waiting) \in Nat
           /\ Cardinality(Listed) = Cardinality(Active) + Len(waiting)
           /\ ActiveCount = Cardinality(Active)
<1>1. /\ Listed \subseteq Sockets /\ InLine \subseteq Listed
      /\ waiting \in Seq(Sockets) /\ Distinct(waiting)
  BY DEF Structure, QueueConsistent, Distinct, Listed, TypeOK
<1>2. IsFiniteSet(Listed)
  BY <1>1, AccountsAssumption, FS_Subset
<1>3. Cardinality(InLine) = Len(waiting) /\ Len(waiting) \in Nat
  <2>1. Len(waiting) \in Nat /\ DOMAIN waiting = 1..Len(waiting)
    BY <1>1, LenProperties
  <2>2. waiting \in [1..Len(waiting) -> InLine]
    BY <1>1, <2>1 DEF InLine
  <2>3. waiting \in Bijection(1..Len(waiting), InLine)
    <3>1. \A i, j \in 1..Len(waiting) : waiting[i] = waiting[j] => i = j
      BY <1>1, <2>1 DEF Distinct
    <3>2. \A y \in InLine : \E i \in 1..Len(waiting) : waiting[i] = y
      BY <2>1 DEF InLine
    <3> QED
      BY <2>2, <3>1, <3>2 DEF Bijection, Injection, Surjection, IsInjective
  <2> QED
    BY <2>1, <2>3, FS_CountingElements DEF ExistsBijection
<1>4. IsFiniteSet(Active) /\ Cardinality(Active) = Cardinality(Listed) - Cardinality(InLine)
  <2>1. Listed \cap InLine = InLine
    BY <1>1
  <2> QED
    BY <1>2, <2>1, FS_Difference DEF Active
<1>5. Cardinality(Listed) \in Nat /\ Cardinality(Active) \in Nat
  BY <1>2, <1>4, FS_CardinalityType
<1>6. Cardinality(Listed) = Cardinality(Active) + Len(waiting) /\ ActiveCount = Cardinality(Active)
  BY <1>3, <1>4, <1>5 DEF ActiveCount
<1> QED
  BY <1>1, <1>2, <1>3, <1>4, <1>5, <1>6

\* What the steps do to the player queue.
Enters(x) == /\ x \in Sockets \ Listed
             /\ AccountOf[x] \in Staff \/ ~(limit > 0 /\ Cardinality(Listed) >= limit)
             /\ Active' = Active \cup {x} /\ waiting' = waiting

Waits(x) == /\ x \in Sockets \ Listed /\ AccountOf[x] \notin Staff
            /\ limit > 0 /\ Cardinality(Listed) >= limit
            /\ Active' = Active /\ waiting' = Append(waiting, x)

Leaves(x) == /\ x \in Listed
             /\ LET rest == Without(waiting, x)
                    stay == Active \ {x}
                IN IF Room(Cardinality(stay)) /\ rest # <<>>
                   THEN Active' = stay \cup {Head(rest)} /\ waiting' = Tail(rest)
                   ELSE Active' = stay /\ waiting' = rest

LEMMA AddingCounts ==
    ASSUME Structure, AddSession_
    PROVE  UNCHANGED <<Active, waiting>> \/ \E x \in Sockets : Enters(x) \/ Waits(x)
<1> DEFINE x == Head(adding)
           a == AccountOf[x]
<1>1. TypeOK /\ Places /\ QueueConsistent
  BY DEF Structure
<1>2. x \in Sockets /\ x \in Elements(adding)
  BY <1>1, FirstTaken DEF AddSession_, TypeOK
<1>3. Fresh(x) /\ a \in Accounts /\ x # None
  BY <1>1, <1>2, AccountsAssumption DEF Places
<1> HIDE DEF x
<1>4. limit \in Int /\ (AmountLimit > 0 <=> limit > 0) /\ (limit > 0 => AmountLimit = limit)
  BY <1>1, SessionBoundsAssumption DEF TypeOK, AmountLimit
<1>5. x \notin Listed /\ x \notin InLine
  BY <1>1, <1>3 DEF Fresh, QueueConsistent
<1>6. CASE UNCHANGED <<sessions, waiting, session>>
  BY <1>6 DEF Active, Listed, InLine
<1>7. CASE sessions[a] = None /\ sessions' = [sessions EXCEPT ![a] = x]
           /\ IF MustQueue(x) THEN AddQueuedSession(x) ELSE UNCHANGED <<waiting, session>>
  <2>1. Listed' = Listed \cup {x}
    <3>1. /\ sessions'[a] = x /\ \A b \in Accounts \ {a} : sessions'[b] = sessions[b]
      BY <1>1, <1>3, <1>7 DEF TypeOK
    <3> QED
      BY <1>3, <1>7, <3>1 DEF Listed
  <2>2. CASE ~MustQueue(x)
    <3>1. waiting' = waiting /\ InLine' = InLine
      BY <1>7, <2>2 DEF InLine
    <3>2. Active' = Active \cup {x}
      BY <1>5, <2>1, <3>1 DEF Active
    <3>3. AccountOf[x] \in Staff \/ ~(limit > 0 /\ Cardinality(Listed) >= limit)
      BY <1>4, <2>2 DEF MustQueue
    <3> QED
      BY <1>2, <1>5, <3>1, <3>2, <3>3 DEF Enters
  <2>3. CASE MustQueue(x)
    <3>1. waiting' = Append(waiting, x)
      BY <1>7, <2>3 DEF AddQueuedSession
    <3>2. Elements(waiting') = InLine \cup {x}
      <4>1. Elements(waiting) = InLine /\ waiting \in Seq(Sockets)
        BY <1>1 DEF Elements, InLine, TypeOK
      <4> QED
        BY <1>2, <3>1, <4>1, Added
    <3>3. InLine' = InLine \cup {x}
      BY <3>2 DEF InLine, Elements
    <3>4. Active' = Active
      BY <1>5, <2>1, <3>3 DEF Active
    <3>5. AccountOf[x] \notin Staff /\ limit > 0 /\ Cardinality(Listed) >= limit
      BY <1>4, <2>3 DEF MustQueue
    <3> QED
      BY <1>2, <1>5, <3>1, <3>4, <3>5 DEF Waits
  <2> QED
    BY <2>2, <2>3
<1> QED
  BY <1>6, <1>7 DEF AddSession_, x

LEMMA RemovalCounts ==
    ASSUME Structure, NEW x \in Sockets, RemoveSession(x)
    PROVE  Leaves(x)
<1> DEFINE queue == RemoveQueuedSession(x)
           rest == Without(waiting, x)
           stay == Active \ {x}
           found == \E i \in DOMAIN waiting : waiting[i] = x
           count == IF found \/ ActiveCount = 0 THEN ActiveCount ELSE ActiveCount - 1
<1>1. /\ x \in Listed /\ waiting' = queue.line
      /\ InLine \ {x} = InLine' \cup queue.admitted /\ queue.admitted \cap InLine' = {}
      /\ queue.admitted \subseteq Listed \ {x} /\ Listed' = Listed \ {x}
  BY Removing DEF Structure
<1>2. /\ IsFiniteSet(Active) /\ Cardinality(Active) \in Nat /\ ActiveCount = Cardinality(Active)
  BY ActiveCounted
<1>3. Active' = stay \cup queue.admitted
  BY <1>1 DEF Active
<1>4. found <=> x \in InLine
  BY DEF InLine
<1>5. count = Cardinality(stay)
  <2>1. CASE x \in InLine
    <3>1. stay = Active
      BY <2>1 DEF Active
    <3> QED
      BY <1>2, <1>4, <2>1, <3>1
  <2>2. CASE x \notin InLine
    <3>1. x \in Active
      BY <1>1, <2>2 DEF Active
    <3>2. Cardinality(stay) = Cardinality(Active) - 1 /\ Cardinality(stay) \in Nat
      BY <1>2, <3>1, FS_RemoveElement, FS_CardinalityType
    <3>3. ActiveCount # 0
      BY <1>2, <3>2
    <3> QED
      BY <1>2, <1>4, <2>2, <3>2, <3>3
  <2> QED
    BY <2>1, <2>2
<1>6. queue = IF Room(count) /\ rest # <<>>
              THEN [line |-> Tail(rest), admitted |-> {Head(rest)}]
              ELSE [line |-> rest, admitted |-> {}]
  BY DEF RemoveQueuedSession
<1> HIDE DEF queue, rest, stay, count
<1>7. CASE Room(Cardinality(stay)) /\ rest # <<>>
  <2>1. waiting' = Tail(rest) /\ Active' = stay \cup {Head(rest)}
    BY <1>1, <1>3, <1>5, <1>6, <1>7
  <2> QED
    BY <1>1, <1>7, <2>1 DEF Leaves, rest, stay
<1>8. CASE ~(Room(Cardinality(stay)) /\ rest # <<>>)
  <2>1. waiting' = rest /\ Active' = stay
    BY <1>1, <1>3, <1>5, <1>6, <1>8
  <2> QED
    BY <1>1, <1>8, <2>1 DEF Leaves, rest, stay
<1> QED
  BY <1>7, <1>8

\* Every step, as the player queue sees it.
LEMMA QueueSteps ==
    ASSUME Structure, [Next]_vars
    PROVE  \/ /\ UNCHANGED <<limit, stopping>> /\ used'["changes"] = used["changes"]
              /\ \/ UNCHANGED <<Active, waiting>>
                 \/ \E x \in Sockets : Enters(x) \/ Waits(x) \/ Leaves(x)
           \/ /\ limit' \in Limits /\ used'["changes"] # 0 /\ UNCHANGED <<Active, waiting>>
           \/ /\ UNCHANGED limit /\ stopping' /\ Active' = Active \cup InLine /\ waiting' = <<>>
<1>0. TypeOK /\ Places /\ InLoop /\ QueueConsistent /\ Counted
  BY DEF Structure
<1>1. CASE QuietStep /\ ~SetPlayerLimit
  <2>1. /\ Listed' = Listed /\ InLine' = InLine /\ waiting' = waiting /\ stopping' = stopping
    BY <1>0, <1>1, QuietSteps, QuietKeeps DEF Quiet, SamePlaces
  <2>2. limit' = limit /\ used'["changes"] = used["changes"]
    <3>1. ASSUME NEW what \in {"logins", "kicks"}, NEW bound, Use(what, bound)
          PROVE  used'["changes"] = used["changes"]
      BY <1>0, <3>1 DEF Use, TypeOK
    <3>2. \/ UNCHANGED <<limit, used>>
          \/ limit' = limit /\ Use("logins", MaxLogins)
          \/ limit' = limit /\ Use("kicks", MaxKicks)
      BY <1>1 DEF QuietStep, FindSession, PostRequest, Disconnect, Packets, HandleAuthed,
                  HandlePlayerLoginOpcode, HandlePlayerReconnect, HandleLogoutRequestOpcode,
                  KickPlayer, Switch, UpdateCreated, SwitchSocket, StaysConnected, GoesOffline,
                  StaysOffline, BeginUpdate, AllAdded, AllUpdated, EndPackets, EndTick,
                  HandlePlayerLogin, vars, listVars
    <3> QED
      BY <3>1, <3>2
  <2> QED
    BY <2>1, <2>2 DEF Active
<1>2. CASE SetPlayerLimit
  <2>1. limit' \in Limits /\ UNCHANGED <<sessions, waiting>> /\ Use("changes", MaxChanges)
    BY <1>2 DEF SetPlayerLimit
  <2>2. used'["changes"] # 0
    <3>1. used["changes"] \in Nat /\ used'["changes"] = used["changes"] + 1
      BY <1>0, <2>1 DEF Use, TypeOK
    <3> QED
      BY <3>1
  <2> QED
    BY <2>1, <2>2 DEF Active, Listed, InLine
<1>3. ASSUME NEW s \in Sockets, AddSession(s)
      PROVE  UNCHANGED <<Active, waiting, limit, stopping, used>>
  <2>1. UNCHANGED <<sessions, waiting, limit, stopping, used>>
    BY <1>3 DEF AddSession, loopVars
  <2> QED
    BY <2>1 DEF Active, Listed, InLine
<1>4. ASSUME BeginUpdateSessions
      PROVE  UNCHANGED <<Active, waiting, limit, stopping, used>>
  <2>1. UNCHANGED <<sessions, waiting, limit, stopping, used>>
    BY <1>4 DEF BeginUpdateSessions
  <2> QED
    BY <2>1 DEF Active, Listed, InLine
<1>5. AddSession_ => UNCHANGED <<limit, stopping, used>>
  BY DEF AddSession_, loopVars
<1>6. ASSUME NEW s \in Sockets, RemoveSession(s)
      PROVE  UNCHANGED <<limit, stopping, used>>
  BY <1>6 DEF RemoveSession, Continue
<1>7. ASSUME CleanupsBeforeStop
      PROVE  /\ limit' = limit /\ stopping' /\ waiting' = <<>> /\ Active' = Active \cup InLine
  <2>1. UNCHANGED <<limit, sessions>> /\ stopping' = TRUE /\ waiting' = <<>>
    BY <1>7 DEF CleanupsBeforeStop
  <2>2. Listed' = Listed /\ InLine' = {}
    BY <2>1, NothingThere DEF Listed, InLine
  <2>3. InLine \subseteq Listed
    BY ActiveCounted
  <2> QED
    BY <2>1, <2>2, <2>3 DEF Active
<1> QED
  BY <1>1, <1>2, <1>3, <1>4, <1>5, <1>6, <1>7, Steps, AddingCounts, RemovalCounts

\* What the queue promises of its length, as one invariant.
Promise == QueueMeansFull /\ PlayersWithinLimit

Players == {x \in Active : AccountOf[x] \notin Staff}

LEMMA PromiseKept ==
    ASSUME Structure, Promise, [Next]_vars
    PROVE  Promise'
<1>0. /\ Structure' /\ limit \in Int
  BY StructureKept, SessionBoundsAssumption DEF Structure, TypeOK
<1>1. /\ IsFiniteSet(Listed) /\ IsFiniteSet(Active) /\ Len(waiting) \in Nat
      /\ Cardinality(Listed) \in Nat /\ Cardinality(Active) \in Nat
      /\ Cardinality(Listed) = Cardinality(Active) + Len(waiting)
      /\ waiting \in Seq(Sockets) /\ (waiting = <<>> => Len(waiting) = 0)
  BY ActiveCounted, EmptySeq DEF Structure, TypeOK
<1>2. /\ IsFiniteSet(Players) /\ Cardinality(Players) \in Nat
      /\ Cardinality(Players) <= Cardinality(Active)
  <2>1. Players \in SUBSET Active
    BY DEF Players
  <2> QED
    BY <1>1, <2>1, FS_Subset, FS_CardinalityType
<1>3. Players' = {x \in Active' : AccountOf[x] \notin Staff}
  BY DEF Players
<1>4. /\ used["changes"] = 0 /\ waiting # <<>> => Cardinality(Active) >= limit
      /\ used["changes"] = 0 /\ limit > 0 /\ ~stopping => Cardinality(Players) <= limit
  BY DEF Promise, QueueMeansFull, PlayersWithinLimit, Players
<1>5. ASSUME /\ used'["changes"] = 0 /\ waiting' # <<>> => Cardinality(Active') >= limit'
             /\ used'["changes"] = 0 /\ limit' > 0 /\ ~stopping' => Cardinality(Players') <= limit'
      PROVE  Promise'
  BY <1>5 DEF Promise, QueueMeansFull, PlayersWithinLimit, Players
<1>6. CASE limit' = limit /\ stopping' = stopping /\ used'["changes"] = used["changes"]
  <2>1. ASSUME UNCHANGED <<Active, waiting>> PROVE Promise'
    <3>1. Players' = Players
      BY <1>3, <2>1 DEF Players
    <3> QED
      BY <1>4, <1>5, <1>6, <2>1, <3>1
  <2>2. ASSUME NEW x \in Sockets, Enters(x) PROVE Promise'
    <3>1. /\ Active' = Active \cup {x} /\ waiting' = waiting /\ x \notin Active
          /\ AccountOf[x] \in Staff \/ ~(limit > 0 /\ Cardinality(Listed) >= limit)
      BY <2>2 DEF Enters, Active
    <3>2. Cardinality(Active') = Cardinality(Active) + 1 /\ IsFiniteSet(Active')
      BY <1>1, <3>1, FS_AddElement
    <3>3. CASE AccountOf[x] \in Staff
      <4>1. Players' = Players
        BY <1>3, <3>1, <3>3 DEF Players
      <4> QED
        BY <1>0, <1>1, <1>4, <1>5, <1>6, <3>1, <3>2, <4>1
    <3>4. CASE ~(limit > 0 /\ Cardinality(Listed) >= limit)
      <4>1. Players' \in SUBSET Active'
        BY <1>3
      <4>2. Cardinality(Players') <= Cardinality(Active')
        BY <3>2, <4>1, FS_Subset
      <4>3. Cardinality(Players') \in Nat
        BY <3>2, <4>1, FS_Subset, FS_CardinalityType
      <4>4. limit > 0 => Cardinality(Players') <= limit
        BY <1>0, <1>1, <3>2, <3>4, <4>2, <4>3
      <4> QED
        BY <1>0, <1>1, <1>4, <1>5, <1>6, <3>1, <3>2, <4>4
    <3> QED
      BY <3>1, <3>3, <3>4
  <2>3. ASSUME NEW x \in Sockets, Waits(x) PROVE Promise'
    <3>1. Active' = Active /\ Cardinality(Listed) >= limit
      BY <2>3 DEF Waits
    <3>2. Players' = Players
      BY <1>3, <3>1 DEF Players
    <3>3. waiting = <<>> => Cardinality(Active) >= limit
      BY <1>0, <1>1, <3>1
    <3> QED
      BY <1>4, <1>5, <1>6, <3>1, <3>2, <3>3
  <2>4. ASSUME NEW x \in Sockets, Leaves(x) PROVE Promise'
    <3> DEFINE rest == Without(waiting, x)
               stay == Active \ {x}
    <3>1. /\ IsFiniteSet(stay) /\ Cardinality(stay) \in Nat
          /\ Cardinality(stay) >= Cardinality(Active) - 1
      <4>1. /\ IsFiniteSet(stay)
            /\ Cardinality(stay) = IF x \in Active THEN Cardinality(Active) - 1 ELSE Cardinality(Active)
        BY <1>1, FS_RemoveElement
      <4> HIDE DEF stay
      <4>2. Cardinality(stay) \in Nat
        BY <4>1, FS_CardinalityType
      <4> QED
        BY <1>1, <4>1, <4>2
    <3>2. IF Room(Cardinality(stay)) /\ rest # <<>>
          THEN Active' = stay \cup {Head(rest)} /\ waiting' = Tail(rest)
          ELSE Active' = stay /\ waiting' = rest
      BY <2>4 DEF Leaves
    <3>3. waiting = <<>> => rest = <<>>
      BY NothingThere DEF Without
    <3>4. rest # <<>> => Head(rest) \notin stay
      <4>1. /\ rest \in Seq(Sockets) /\ Elements(rest) = InLine \ {x}
        BY <2>4, QueueLeft DEF Leaves, Structure
      <4>2. rest # <<>> => Head(rest) \in Elements(rest)
        BY <4>1, FirstTaken
      <4> QED
        BY <4>1, <4>2 DEF Active
    <3> HIDE DEF rest, stay
    <3>5. CASE Room(Cardinality(stay)) /\ rest # <<>>
      <4>1. Cardinality(Active') = Cardinality(stay) + 1 /\ IsFiniteSet(Active')
        BY <3>1, <3>2, <3>4, <3>5, FS_AddElement
      <4>2. Players' \in SUBSET Active'
        BY <1>3
      <4>3. Cardinality(Players') <= Cardinality(Active') /\ Cardinality(Players') \in Nat
        BY <4>1, <4>2, FS_Subset, FS_CardinalityType
      <4>4. limit > 0 => Cardinality(Players') <= limit
        BY <1>0, <3>1, <3>5, <4>1, <4>3 DEF Room
      <4>5. Cardinality(Active') >= Cardinality(Active)
        BY <1>1, <3>1, <4>1
      <4>6. used["changes"] = 0 => Cardinality(Active') >= limit
        BY <1>0, <1>1, <1>4, <3>1, <3>3, <3>5, <4>1, <4>5
      <4> QED
        BY <1>5, <1>6, <4>4, <4>6
    <3>6. CASE ~(Room(Cardinality(stay)) /\ rest # <<>>)
      <4>1. Active' = stay /\ waiting' = rest
        BY <3>2, <3>6
      <4>2. Players' \in SUBSET Players
        BY <1>3, <4>1 DEF Players, stay
      <4>3. Cardinality(Players') <= Cardinality(Players) /\ Cardinality(Players') \in Nat
        BY <1>2, <4>2, FS_Subset, FS_CardinalityType
      <4>4. rest # <<>> => Cardinality(stay) >= limit
        BY <1>0, <3>1, <3>6 DEF Room
      <4>5. used["changes"] = 0 /\ limit > 0 /\ ~stopping => Cardinality(Players') <= limit
        BY <1>0, <1>2, <1>4, <4>3
      <4> QED
        BY <1>5, <1>6, <4>1, <4>4, <4>5
    <3> QED
      BY <3>5, <3>6
  <2> QED
    BY <1>5, <1>6, <2>1, <2>2, <2>3, <2>4, QueueSteps, StructureKept
<1>7. CASE used'["changes"] # 0
  BY <1>5, <1>7
<1>8. CASE stopping' /\ waiting' = <<>>
  BY <1>5, <1>8
<1> QED
  BY <1>6, <1>7, <1>8, QueueSteps

LEMMA PromiseHolds == Spec => [](Structure /\ Promise)
<1>1. Init => Structure /\ Promise
  <2> SUFFICES ASSUME Init PROVE Promise
    BY StructureBegins
  <2>1. waiting = <<>> /\ Active = {}
    BY DEF Init, Active, Listed
  <2>2. {x \in Active : AccountOf[x] \notin Staff} = {} /\ Cardinality({}) = 0
    BY <2>1, FS_EmptySet
  <2>3. limit \in Int
    BY SessionBoundsAssumption DEF Init
  <2> QED
    BY <2>1, <2>2, <2>3 DEF Promise, QueueMeansFull, PlayersWithinLimit
<1>2. Structure /\ Promise /\ [Next]_vars => Structure' /\ Promise'
  BY StructureKept, PromiseKept
<1> QED
  BY <1>1, <1>2, PTL DEF Spec

\* Nobody waits while there is room: RemoveQueuedSession lets the next one in
\* for whoever leaves, from the list or from the queue.
THEOREM QueueStaysFull == Spec => []QueueMeansFull
<1>1. Structure /\ Promise => QueueMeansFull
  BY DEF Promise
<1> QED
  BY <1>1, PromiseHolds, PTL

\* AddSession_ and RemoveQueuedSession never admit more players than the limit.
THEOREM PlayersStayWithinLimit == Spec => []PlayersWithinLimit
<1>1. Structure /\ Promise => PlayersWithinLimit
  BY DEF Promise
<1> QED
  BY <1>1, PromiseHolds, PTL

\* The sessions, with their sockets, logins and kicks, are a player queue as
\* SessionAdmission promises it, changes of the limit included.
THEOREM SessionsImplementAdmission == Spec => ImplementsAdmission
<1>1. Init => Admission!Init
  <2> SUFFICES ASSUME Init PROVE Admission!Init
    OBVIOUS
  <2>1. waiting = <<>> /\ Active = {} /\ limit \in Limits
    BY DEF Init, Active, Listed
  <2> QED
    BY <2>1 DEF Admission!Init
<1>2. Structure /\ [Next]_vars => [Admission!Next]_(Admission!vars)
  <2> SUFFICES ASSUME Structure, [Next]_vars PROVE [Admission!Next]_(Admission!vars)
    OBVIOUS
  <2>0. /\ Listed = Active \cup InLine /\ Active \subseteq Listed
        /\ Cardinality(Listed) = Cardinality(Active) + Len(waiting)
        /\ Admission!InLine = InLine
    BY ActiveCounted DEF Active, InLine, Admission!InLine
  <2>same. \A S : Admission!Cardinality(S) = Cardinality(S)
    BY DEF Admission!Cardinality, Cardinality
  <2>1. ASSUME UNCHANGED <<Active, waiting, limit>> PROVE UNCHANGED Admission!vars
    BY <2>1 DEF Admission!vars
  <2>2. ASSUME NEW x \in Sockets, Enters(x), limit' = limit PROVE Admission!Enter(x)
    BY <2>0, <2>2, <2>same DEF Enters, Admission!Enter, Admission!Full
  <2>3. ASSUME NEW x \in Sockets, Waits(x), limit' = limit PROVE Admission!Wait(x)
    BY <2>0, <2>3, <2>same DEF Waits, Admission!Wait, Admission!Full
  <2>4. ASSUME NEW x \in Sockets, Leaves(x), limit' = limit PROVE Admission!Leave(x)
    <3>1. Admission!Without(x) = Without(waiting, x)
      BY DEF Admission!Without, Without
    <3> QED
      BY <2>0, <2>4, <2>same, <3>1 DEF Leaves, Admission!Leave, Room
  <2>5. ASSUME limit' \in Limits, UNCHANGED <<Active, waiting>> PROVE Admission!ChangeLimit
    BY <2>5 DEF Admission!ChangeLimit
  <2>6. ASSUME limit' = limit, Active' = Active \cup InLine, waiting' = <<>> PROVE Admission!CloseDown
    BY <2>0, <2>6 DEF Admission!CloseDown
  <2> QED
    BY <2>1, <2>2, <2>3, <2>4, <2>5, <2>6, QueueSteps DEF Admission!Next
<1> QED
  BY <1>1, <1>2, StructureHolds, PTL DEF Spec, ImplementsAdmission, Admission!Spec
=============================================================================
