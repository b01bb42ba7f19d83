-------------------------- MODULE MapUpdaterProofs --------------------------
(***************************************************************************)
(* Theorems about MapUpdater, for any number of workers and any set of     *)
(* maps.  The inductive invariant says where a map of the current tick can *)
(* be (still to be scheduled, in the queue, in the hands of one thread),   *)
(* that pending_requests counts the last two, and at which point of        *)
(* MapManager::Update and of deactivate the counter is known to be 0.      *)
(***************************************************************************)
EXTENDS MapUpdater, SequenceTheorems, FiniteSetTheorems, TLAPS

Queued == {queue[i] : i \in DOMAIN queue}

\* The workers that hold a request or have still to report its end.
Busy == {w \in Workers : at[w] = "finish" \/ w \in Updating}

\* A thread has a request exactly while it is with the update of a map; a
\* worker without one passes the test of the token only after the queue was
\* cancelled.
Positions ==
    /\ \A w \in Workers :
          /\ at[w] \in {"update", "run"} => request[w] # NoMap
          /\ at[w] \in {"pop", "finish", "done"} => request[w] = NoMap
          /\ at[w] = "test" /\ request[w] = NoMap => shutdown
    /\ at[Main] \in {"pop", "update", "run"}
    /\ at[Main] = "pop" <=> request[Main] = NoMap
    /\ request[Main] # NoMap => mainPc = "schedule" /\ ~activated

\* A map is still to be scheduled, queued or in one thread's hands.
EachMapOnce ==
    /\ \A i, j \in DOMAIN queue : queue[i] = queue[j] => i = j
    /\ \A t, u \in Threads : request[t] # NoMap /\ request[t] = request[u] => t = u
    /\ \A t \in Threads : request[t] \notin Queued /\ request[t] \notin todo
    /\ Queued \cap todo = {}
    /\ Queued \subseteq maps /\ todo \subseteq maps
    /\ \A t \in Threads : request[t] \in maps \cup {NoMap}

\* What the world thread may rely on at each point.
Phases ==
    /\ todo # {} => mainPc = "schedule"
    /\ mainPc \notin {"schedule", "wait", "asleep"} => pending = 0
    /\ ~activated => pending = 0
    /\ token => mainPc \in {"cancel", "join", "stopped"}
    /\ mainPc = "cancel" => token
    /\ shutdown => token

Counts == pending = Len(queue) + Cardinality(Busy)

\* The messages of a map that were taken, then those that wait, are numbered
\* on from the last one run.
Numbered(tk, ml, r, p) ==
    /\ Len(tk) + Len(ml) + r = p
    /\ \A i \in 1..Len(tk) : tk[i] = r + i
    /\ \A i \in 1..Len(ml) : ml[i] = r + Len(tk) + i

\* Only a thread that runs messages has taken some.
Messages ==
    /\ \A m \in maps : Numbered(taken[m], mail[m], ran[m], posted[m])
    /\ \A m \in Maps : taken[m] # <<>> => \E t \in Threads : at[t] = "run" /\ request[t] = m

IInv == TypeOK /\ Positions /\ EachMapOnce /\ Phases /\ Counts /\ Messages
-----------------------------------------------------------------------------
(* Sequences and sets.                                                     *)

\* The elements of a queue after Push and after Pop.
LEMMA Pushed ==
    ASSUME NEW S, NEW s \in Seq(S), NEW x \in S
    PROVE  LET r == Append(s, x) IN
             /\ r \in Seq(S) /\ Len(r) = Len(s) + 1
             /\ {r[i] : i \in DOMAIN r} = {s[i] : i \in DOMAIN s} \cup {x}
             /\ \A i \in 1..Len(s) : r[i] = s[i]
             /\ r[Len(s) + 1] = x
<1> DEFINE r == Append(s, x)
<1>1. r \in Seq(S) /\ Len(r) = Len(s) + 1
  OBVIOUS
<1>2. (\A i \in 1..Len(s) : r[i] = s[i]) /\ r[Len(s) + 1] = x
  OBVIOUS
<1>3. DOMAIN r = 1..(Len(s) + 1) /\ DOMAIN s = 1..Len(s) /\ Len(s) \in Nat
  BY <1>1
<1> HIDE DEF r
<1>4. {r[i] : i \in DOMAIN r} = {s[i] : i \in DOMAIN s} \cup {x}
  BY <1>2, <1>3
<1> QED
  BY <1>1, <1>2, <1>4 DEF r

LEMMA Popped ==
    ASSUME NEW S, NEW s \in Seq(S), s # <<>>
    PROVE  LET r == Tail(s) IN
             /\ Head(s) \in S /\ Head(s) = s[1] /\ 1 \in DOMAIN s
             /\ r \in Seq(S) /\ Len(r) = Len(s) - 1 /\ Len(s) \in Nat \ {0}
             /\ \A i \in 1..Len(r) : r[i] = s[i + 1]
             /\ {s[i] : i \in DOMAIN s} = {r[i] : i \in DOMAIN r} \cup {Head(s)}
<1> DEFINE r == Tail(s)
<1>1. /\ Head(s) \in S /\ Head(s) = s[1] /\ 1 \in DOMAIN s
      /\ r \in Seq(S) /\ Len(r) = Len(s) - 1 /\ Len(s) \in Nat \ {0}
  OBVIOUS
<1>2. \A i \in 1..Len(r) : r[i] = s[i + 1]
  OBVIOUS
<1>3. DOMAIN r = 1..(Len(s) - 1) /\ DOMAIN s = 1..Len(s)
  BY <1>1
<1> HIDE DEF r
<1>4. {s[i] : i \in DOMAIN s} \subseteq {r[i] : i \in DOMAIN r} \cup {Head(s)}
  <2> SUFFICES ASSUME NEW i \in DOMAIN s, s[i] # s[1] PROVE s[i] \in {r[j] : j \in DOMAIN r}
    BY <1>1
  <2>1. i - 1 \in 1..Len(r) /\ i - 1 \in DOMAIN r /\ (i - 1) + 1 = i
    BY <1>1, <1>3
  <2>2. r[i - 1] = s[i]
    BY <1>2, <2>1
  <2> QED
    BY <2>1, <2>2
<1>5. {r[i] : i \in DOMAIN r} \cup {Head(s)} \subseteq {s[i] : i \in DOMAIN s}
  <2>1. \A i \in DOMAIN r : i + 1 \in DOMAIN s /\ r[i] = s[i + 1]
    BY <1>1, <1>2, <1>3
  <2> QED
    BY <1>1, <2>1
<1> QED
  BY <1>1, <1>2, <1>4, <1>5 DEF r

\* Messages are posted, taken and run without losing their numbers.
LEMMA NothingNumbered == Numbered(<<>>, <<>>, 0, 0)
BY EmptySeq DEF Numbered

LEMMA NumberedPosted ==
    ASSUME NEW tk \in Seq(Nat), NEW ml \in Seq(Nat), NEW r \in Nat, NEW p \in Nat,
           Numbered(tk, ml, r, p)
    PROVE  Numbered(tk, Append(ml, p + 1), r, p + 1)
<1> DEFINE l == Append(ml, p + 1)
<1>1. Len(tk) \in Nat /\ Len(ml) \in Nat /\ Len(tk) + Len(ml) + r = p
  BY LenProperties DEF Numbered
<1>2. /\ Len(l) = Len(ml) + 1 /\ l[Len(ml) + 1] = p + 1
      /\ \A i \in 1..Len(ml) : l[i] = ml[i]
  BY Pushed
<1> HIDE DEF l
<1>3. \A i \in 1..Len(l) : l[i] = r + Len(tk) + i
  <2>1. \A i \in 1..Len(l) : i \in 1..Len(ml) \/ i = Len(ml) + 1
    BY <1>1, <1>2
  <2>2. p + 1 = r + Len(tk) + (Len(ml) + 1)
    BY <1>1
  <2>3. \A i \in 1..Len(ml) : l[i] = r + Len(tk) + i
    BY <1>2 DEF Numbered
  <2> QED
    BY <1>2, <2>1, <2>2, <2>3
<1>4. Len(tk) + Len(l) + r = p + 1
  <2>1. \A a, b \in Nat : a + b + r = p => a + (b + 1) + r = p + 1
    OBVIOUS
  <2>2. Len(tk) + (Len(ml) + 1) + r = p + 1
    BY <1>1, <2>1
  <2> QED
    BY <1>2, <2>2
<1>5. Numbered(tk, l, r, p + 1)
  BY <1>3, <1>4 DEF Numbered
<1> QED
  BY <1>5 DEF l

LEMMA NumberedTaken ==
    ASSUME NEW ml \in Seq(Nat), NEW r \in Nat, NEW p \in Nat, Numbered(<<>>, ml, r, p)
    PROVE  Numbered(ml, <<>>, r, p)
<1>1. Len(<<>>) = 0 /\ Len(ml) \in Nat
  BY EmptySeq, LenProperties
<1>2. Len(ml) + r = p /\ \A i \in 1..Len(ml) : ml[i] = r + i
  BY <1>1 DEF Numbered
<1> QED
  BY <1>1, <1>2 DEF Numbered

LEMMA NumberedRun ==
    ASSUME NEW tk \in Seq(Nat), NEW ml \in Seq(Nat), NEW r \in Nat, NEW p \in Nat,
           Numbered(tk, ml, r, p), tk # <<>>
    PROVE  Numbered(Tail(tk), ml, Head(tk), p)
<1> DEFINE rest == Tail(tk)
           h == Head(tk)
<1>1. /\ h = tk[1] /\ Len(tk) \in Nat \ {0} /\ Len(rest) = Len(tk) - 1
      /\ \A i \in 1..Len(rest) : rest[i] = tk[i + 1]
  BY Popped
<1> HIDE DEF rest, h
<1>2. Len(ml) \in Nat /\ Len(tk) + Len(ml) + r = p /\ \A i \in 1..Len(tk) : tk[i] = r + i
  BY LenProperties DEF Numbered
<1>3. h = r + 1
  BY <1>1, <1>2
<1>4. Len(rest) + Len(ml) + h = p
  <2>1. \A a \in Nat \ {0}, b \in Nat : a + b + r = p => (a - 1) + b + (r + 1) = p
    OBVIOUS
  <2>2. (Len(tk) - 1) + Len(ml) + (r + 1) = p
    BY <1>1, <1>2, <2>1
  <2> QED
    BY <1>1, <1>3, <2>2
<1>5. \A i \in 1..Len(rest) : rest[i] = h + i
  <2>1. \A i \in 1..Len(rest) : i + 1 \in 1..Len(tk)
    BY <1>1
  <2>2. \A i \in 1..Len(rest) : rest[i] = r + (i + 1)
    BY <1>1, <1>2, <2>1
  <2> QED
    BY <1>3, <2>2
<1>6. \A i \in 1..Len(ml) : ml[i] = h + Len(rest) + i
  <2>1. \A i \in 1..Len(ml) : ml[i] = r + Len(tk) + i
    BY DEF Numbered
  <2>2. r + Len(tk) = h + Len(rest)
    BY <1>1, <1>3
  <2> QED
    BY <2>1, <2>2
<1> QED
  BY <1>4, <1>5, <1>6 DEF Numbered, rest, h

\* The workers are finite, so what they hold can be counted.
LEMMA Countable ==
    ASSUME NEW S \in SUBSET Workers
    PROVE  /\ IsFiniteSet(S) /\ Cardinality(S) \in Nat
           /\ Cardinality(S) = 0 <=> S = {}
           /\ \A w \in Workers : /\ w \notin S => Cardinality(S \cup {w}) = Cardinality(S) + 1
                                 /\ w \in S => Cardinality(S \ {w}) = Cardinality(S) - 1
<1>1. IsFiniteSet(S)
  BY ThreadsAssumption, FS_Subset
<1> QED
  BY <1>1, FS_CardinalityType, FS_EmptySet, FS_AddElement, FS_RemoveElement

\* Without pending requests no map is queued or in a worker's hands.
LEMMA NothingPending ==
    ASSUME IInv, pending = 0
    PROVE  /\ queue = <<>> /\ Queued = {}
           /\ \A w \in Workers : request[w] = NoMap /\ at[w] \notin {"update", "run", "finish"}
<1>1. Busy \in SUBSET Workers /\ queue \in Seq(Maps)
  BY DEF Busy, IInv, TypeOK
<1>2. Len(queue) \in Nat /\ Cardinality(Busy) \in Nat
  BY <1>1, Countable
<1>3. Len(queue) = 0 /\ Cardinality(Busy) = 0
  BY <1>2 DEF IInv, Counts
<1>4. queue = <<>> /\ Busy = {}
  BY <1>1, <1>3, Countable, EmptySeq
<1>5. Queued = {}
  BY <1>4 DEF Queued
<1>6. ASSUME NEW w \in Workers
      PROVE  request[w] = NoMap /\ at[w] \notin {"update", "run", "finish"}
  <2>1. at[w] # "finish" /\ ~(at[w] \in {"test", "update", "run"} /\ request[w] # NoMap)
    BY <1>4 DEF Busy, Updating, Threads
  <2> QED
    BY <2>1 DEF IInv, Positions, TypeOK, Threads
<1> QED
  BY <1>4, <1>5, <1>6
-----------------------------------------------------------------------------
(* The steps.                                                              *)

\* The actions of Next, each with its thread.
LEMMA Steps ==
    ASSUME [Next]_vars
    PROVE  \/ \E m \in Maps : CreateMap(m)
           \/ \E t \in Threads, m \in Maps : AddMessage(t, m)
           \/ BeginUpdate \/ ScheduleUpdate \/ UpdateInLine
           \/ \E t \in Threads : SwapMessages(t) \/ RunMessage(t) \/ EndMapUpdate(t)
           \/ AllScheduled \/ Wait \/ SpuriousWake \/ UnloadMaps
           \/ UnloadAll \/ CancelQueue \/ Join
           \/ \E w \in Workers : WaitAndPop(w) \/ TestToken(w) \/ UpdateFinished(w) \/ WakeForNothing(w)
           \/ UNCHANGED vars
<1>1. Main \in Threads /\ Workers \subseteq Threads
  BY DEF Threads
<1>2. ASSUME InUpdate
      PROVE  \/ ScheduleUpdate \/ UpdateInLine \/ AllScheduled \/ Wait \/ UnloadMaps
             \/ \E t \in Threads : SwapMessages(t) \/ RunMessage(t) \/ EndMapUpdate(t)
  BY <1>1, <1>2 DEF InUpdate, MapUpdate
<1>3. ASSUME NEW w \in Workers, Work(w)
      PROVE  \/ WaitAndPop(w) \/ TestToken(w) \/ UpdateFinished(w)
             \/ \E t \in Threads : SwapMessages(t) \/ RunMessage(t) \/ EndMapUpdate(t)
  BY <1>1, <1>3 DEF Work, MapUpdate
<1>4. Stopped => UNCHANGED vars
  BY DEF Stopped
<1>5. Deactivate => CancelQueue \/ Join
  BY DEF Deactivate
<1> QED
  BY <1>2, <1>3, <1>4, <1>5 DEF Next

\* A thread that is with the update of a map has one of the loaded maps.
LEMMA WithMap ==
    ASSUME IInv, NEW t \in Threads, at[t] = "run" \/ (at[t] = "update" /\ request[t] # NoMap)
    PROVE  /\ request[t] \in maps /\ request[t] \in Maps /\ request[t] # NoMap
           /\ mainPc \in {"schedule", "wait", "asleep"}
<1>1. request[t] # NoMap
  BY DEF IInv, Positions, Threads
<1>2. request[t] \in maps /\ request[t] \in Maps
  BY <1>1 DEF IInv, EachMapOnce, TypeOK
<1>3. mainPc \in {"schedule", "wait", "asleep"}
  <2>1. CASE t = Main
    BY <1>1, <2>1 DEF IInv, Positions
  <2>2. CASE t \in Workers
    BY <1>1, <2>2, NothingPending DEF IInv, Phases
  <2> QED
    BY <2>1, <2>2 DEF Threads
<1> QED
  BY <1>1, <1>2, <1>3

\* The end of an update was counted.
LEMMA FinishCounted ==
    ASSUME IInv, NEW w \in Workers, at[w] = "finish" \/ (at[w] = "test" /\ request[w] # NoMap)
    PROVE  pending \in Nat \ {0} /\ ~token /\ mainPc \in {"schedule", "wait", "asleep"}
<1>1. pending \in Nat /\ pending # 0
  BY NothingPending DEF IInv, TypeOK
<1> QED
  BY <1>1 DEF IInv, Phases

\* A worker that pops a request finds one that the world thread waits for.
LEMMA PopCounted ==
    ASSUME IInv, queue # <<>>
    PROVE  pending \in Nat \ {0} /\ ~token /\ mainPc \in {"schedule", "wait", "asleep"}
<1>1. pending \in Nat /\ pending # 0
  BY NothingPending DEF IInv, TypeOK
<1> QED
  BY <1>1 DEF IInv, Phases

LEMMA TypesKept == ASSUME IInv, [Next]_vars PROVE TypeOK'
<1>0. TypeOK
  BY DEF IInv
<1>1. ASSUME NEW m \in Maps, CreateMap(m) PROVE TypeOK'
  <2>1. mail' \in [Maps -> Seq(Nat)]
    BY <1>0, <1>1, EmptySeq DEF TypeOK, CreateMap
  <2> QED
    BY <1>0, <1>1, <2>1 DEF TypeOK, CreateMap, queueVars, workVars
<1>2. ASSUME NEW t \in Threads, NEW m \in Maps, AddMessage(t, m) PROVE TypeOK'
  <2>1. posted[m] + 1 \in Nat /\ mail[m] \in Seq(Nat)
    BY <1>0 DEF TypeOK
  <2>2. Append(mail[m], posted[m] + 1) \in Seq(Nat)
    BY <2>1, AppendProperties
  <2>3. mail' = [mail EXCEPT ![m] = Append(mail[m], posted[m] + 1)]
    BY <1>2 DEF AddMessage
  <2>4. mail' \in [Maps -> Seq(Nat)]
    BY <1>0, <2>2, <2>3 DEF TypeOK
  <2> QED
    BY <1>0, <1>2, <2>1, <2>4 DEF TypeOK, AddMessage, mainVars, queueVars, workVars
<1>3. CASE BeginUpdate
  <2>1. ticks' \in 0..MaxTicks
    BY <1>0, <1>3, MapBoundsAssumption DEF TypeOK, BeginUpdate
  <2> QED
    BY <1>0, <1>3, <2>1 DEF TypeOK, BeginUpdate, queueVars, workVars, mailVars
<1>4. CASE ScheduleUpdate
  <2>1. PICK m \in todo : Push(m) /\ todo' = todo \ {m}
    BY <1>4 DEF ScheduleUpdate
  <2>2. queue' \in Seq(Maps) /\ idle' \in SUBSET Workers
    BY <1>0, <2>1, AppendProperties DEF TypeOK, Push
  <2>3. pending' \in Nat
    BY <1>0, <1>4 DEF TypeOK, ScheduleUpdate
  <2> QED
    BY <1>0, <1>4, <2>1, <2>2, <2>3 DEF TypeOK, ScheduleUpdate, workVars, mailVars
<1>5. CASE UpdateInLine
  BY <1>0, <1>5 DEF TypeOK, UpdateInLine, Go, queueVars, mailVars, Threads
<1>6. ASSUME NEW t \in Threads, SwapMessages(t) PROVE TypeOK'
  <2>1. request[t] \in Maps
    BY <1>6, WithMap DEF SwapMessages
  <2>2. mail' \in [Maps -> Seq(Nat)] /\ taken' \in [Maps -> Seq(Nat)]
    BY <1>0, <1>6, <2>1, EmptySeq DEF TypeOK, SwapMessages
  <2> QED
    BY <1>0, <1>6, <2>2 DEF TypeOK, SwapMessages, Go, mainVars, queueVars
<1>7. ASSUME NEW t \in Threads, RunMessage(t) PROVE TypeOK'
  <2>1. request[t] \in Maps
    BY <1>7, WithMap DEF RunMessage
  <2> DEFINE m == request[t]
  <2>2. taken[m] \in Seq(Nat) /\ taken[m] # <<>>
    BY <1>0, <1>7, <2>1 DEF TypeOK, RunMessage
  <2>3. Head(taken[m]) \in Nat /\ Tail(taken[m]) \in Seq(Nat)
    BY <2>2, HeadTailProperties
  <2>4. taken' \in [Maps -> Seq(Nat)] /\ ran' \in [Maps -> Nat]
    BY <1>0, <1>7, <2>1, <2>3 DEF TypeOK, RunMessage
  <2> QED
    BY <1>0, <1>7, <2>4 DEF TypeOK, RunMessage, mainVars, queueVars, workVars
<1>8. ASSUME NEW t \in Threads, EndMapUpdate(t) PROVE TypeOK'
  BY <1>0, <1>8 DEF TypeOK, EndMapUpdate, Go, mainVars, queueVars, mailVars
<1>9. CASE AllScheduled \/ Wait \/ SpuriousWake \/ UnloadAll \/ Join
  BY <1>0, <1>9 DEF TypeOK, AllScheduled, Wait, SpuriousWake, UnloadAll, Join,
                    queueVars, workVars, mailVars
<1>10. CASE UnloadMaps
  BY <1>0, <1>10 DEF TypeOK, UnloadMaps, queueVars, workVars, mailVars
<1>11. CASE CancelQueue
  BY <1>0, <1>11, EmptySeq DEF TypeOK, CancelQueue, workVars, mailVars
<1>12. ASSUME NEW w \in Workers, WaitAndPop(w) PROVE TypeOK'
  <2>1. queue # <<>> => Head(queue) \in Maps /\ Tail(queue) \in Seq(Maps)
    BY <1>0, HeadTailProperties DEF TypeOK
  <2> QED
    BY <1>0, <1>12, <2>1 DEF TypeOK, WaitAndPop, Go, mainVars, mailVars, Threads
<1>13. ASSUME NEW w \in Workers, TestToken(w) PROVE TypeOK'
  BY <1>0, <1>13 DEF TypeOK, TestToken, Go, mainVars, queueVars, mailVars, Threads
<1>14. ASSUME NEW w \in Workers, UpdateFinished(w) PROVE TypeOK'
  <2>1. pending' \in Nat
    BY <1>14, FinishCounted DEF UpdateFinished
  <2> QED
    BY <1>0, <1>14, <2>1 DEF TypeOK, UpdateFinished, Go, mailVars, Threads
<1>15. ASSUME NEW w \in Workers, WakeForNothing(w) PROVE TypeOK'
  BY <1>0, <1>15 DEF TypeOK, WakeForNothing, mainVars, workVars, mailVars
<1>16. CASE UNCHANGED vars
  BY <1>0, <1>16 DEF TypeOK, vars, mainVars, queueVars, workVars, mailVars
<1> QED
  BY Steps, <1>1, <1>2, <1>3, <1>4, <1>5, <1>6, <1>7, <1>8, <1>9, <1>10, <1>11, <1>12,
     <1>13, <1>14, <1>15, <1>16, Zenon

LEMMA PositionsKept == ASSUME IInv, [Next]_vars PROVE Positions'
<1>0. /\ Positions /\ at \in [Threads -> {"pop", "test", "update", "run", "finish", "done"}]
      /\ request \in [Threads -> Maps \cup {NoMap}]
      /\ Main \notin Workers /\ Threads = Workers \cup {Main} /\ NoMap \notin Maps
  BY ThreadsAssumption DEF IInv, TypeOK, Threads
<1>1. ASSUME UNCHANGED <<at, request, activated>>, shutdown => shutdown',
             request[Main] # NoMap => mainPc' = mainPc
      PROVE  Positions'
  BY <1>0, <1>1 DEF Positions
<1>2. ASSUME NEW m \in Maps, CreateMap(m) PROVE Positions'
  BY <1>1, <1>2 DEF CreateMap, queueVars, workVars
<1>3. ASSUME NEW t \in Threads, NEW m \in Maps, AddMessage(t, m) PROVE Positions'
  BY <1>1, <1>3 DEF AddMessage, mainVars, queueVars, workVars
<1>4. CASE BeginUpdate
  BY <1>0, <1>1, <1>4 DEF BeginUpdate, queueVars, workVars, Positions
<1>5. CASE ScheduleUpdate
  BY <1>1, <1>5 DEF ScheduleUpdate, workVars
<1>6. CASE UpdateInLine
  <2>1. PICK m \in todo : request' = [request EXCEPT ![Main] = m]
    BY <1>6 DEF UpdateInLine
  <2>2. m \in Maps
    BY DEF IInv, TypeOK
  <2>3. /\ request'[Main] = m /\ at'[Main] = "update"
        /\ \A w \in Workers : request'[w] = request[w] /\ at'[w] = at[w]
        /\ UNCHANGED <<mainPc, activated, shutdown>> /\ mainPc = "schedule" /\ ~activated
    BY <1>0, <1>6, <2>1 DEF UpdateInLine, Go, queueVars
  <2> QED
    BY <1>0, <2>2, <2>3 DEF Positions
<1>7. ASSUME NEW t \in Threads, SwapMessages(t) PROVE Positions'
  <2>1. /\ at' = [at EXCEPT ![t] = "run"] /\ at[t] = "update" /\ request[t] # NoMap
        /\ UNCHANGED <<request, mainPc, activated, shutdown>>
    BY <1>7 DEF SwapMessages, Go, mainVars, queueVars
  <2> QED
    BY <1>0, <2>1 DEF Positions
<1>8. ASSUME NEW t \in Threads, RunMessage(t) PROVE Positions'
  BY <1>1, <1>8 DEF RunMessage, mainVars, queueVars, workVars
<1>9. ASSUME NEW t \in Threads, EndMapUpdate(t) PROVE Positions'
  <2>1. /\ at' = [at EXCEPT ![t] = IF t = Main THEN "pop" ELSE "finish"] /\ at[t] = "run"
        /\ request' = [request EXCEPT ![t] = NoMap]
        /\ UNCHANGED <<mainPc, activated, shutdown>>
    BY <1>9 DEF EndMapUpdate, Go, mainVars, queueVars
  <2> QED
    BY <1>0, <2>1 DEF Positions
<1>10. CASE AllScheduled \/ Wait \/ SpuriousWake \/ UnloadMaps \/ UnloadAll \/ Join
  <2>1. AllScheduled => request[Main] = NoMap
    BY DEF AllScheduled
  <2>2. ~AllScheduled => mainPc # "schedule"
    BY <1>10 DEF Wait, SpuriousWake, UnloadMaps, UnloadAll, Join
  <2>3. UNCHANGED <<at, request, activated, shutdown>>
    BY <1>10 DEF AllScheduled, Wait, SpuriousWake, UnloadMaps, UnloadAll, Join, queueVars, workVars
  <2> QED
    BY <1>0, <1>1, <2>1, <2>2, <2>3 DEF Positions
<1>11. CASE CancelQueue
  BY <1>0, <1>1, <1>11 DEF CancelQueue, workVars, Positions
<1>12. ASSUME NEW w \in Workers, WaitAndPop(w) PROVE Positions'
  <2>1. /\ at[w] = "pop" /\ UNCHANGED <<mainPc, activated, shutdown>>
        /\ \/ shutdown /\ at' = [at EXCEPT ![w] = "test"] /\ request' = request
           \/ /\ \E m \in Maps : request' = [request EXCEPT ![w] = m]
              /\ at' = [at EXCEPT ![w] = "test"]
           \/ UNCHANGED <<at, request>>
    <3>1. queue # <<>> => Head(queue) \in Maps
      BY HeadTailProperties DEF IInv, TypeOK
    <3> QED
      BY <1>12, <3>1 DEF WaitAndPop, Go, mainVars
  <2> QED
    BY <1>0, <2>1 DEF Positions
<1>13. ASSUME NEW w \in Workers, TestToken(w) PROVE Positions'
  <2>1. /\ at[w] = "test" /\ UNCHANGED <<mainPc, activated, shutdown>>
        /\ \/ at' = [at EXCEPT ![w] = "done"] /\ request' = [request EXCEPT ![w] = NoMap]
           \/ ~token /\ at' = [at EXCEPT ![w] = "update"] /\ request' = request
    BY <1>13 DEF TestToken, Go, mainVars, queueVars
  <2>2. shutdown => token
    BY DEF IInv, Phases
  <2> QED
    BY <1>0, <2>1, <2>2 DEF Positions
<1>14. ASSUME NEW w \in Workers, UpdateFinished(w) PROVE Positions'
  <2>1. /\ at[w] = "finish" /\ at' = [at EXCEPT ![w] = "pop"]
        /\ UNCHANGED <<request, activated, shutdown>>
        /\ mainPc = "schedule" => mainPc' = mainPc
    BY <1>14 DEF UpdateFinished, Go
  <2> QED
    BY <1>0, <2>1 DEF Positions
<1>15. ASSUME NEW w \in Workers, WakeForNothing(w) PROVE Positions'
  BY <1>1, <1>15 DEF WakeForNothing, mainVars, workVars
<1>16. CASE UNCHANGED vars
  BY <1>1, <1>16 DEF vars, mainVars, queueVars, workVars
<1> QED
  BY Steps, <1>2, <1>3, <1>4, <1>5, <1>6, <1>7, <1>8, <1>9, <1>10, <1>11, <1>12,
     <1>13, <1>14, <1>15, <1>16, Zenon

LEMMA PhasesKept == ASSUME IInv, [Next]_vars PROVE Phases'
<1>0. /\ Phases /\ pending \in Nat
      /\ mainPc \in {"between", "schedule", "wait", "asleep", "unload",
                     "deactivate", "cancel", "join", "stopped"}
  BY DEF IInv, TypeOK
<1>1. ASSUME UNCHANGED <<todo, mainPc, pending, activated, token>>, shutdown' = shutdown
      PROVE  Phases'
  BY <1>0, <1>1 DEF Phases
<1>2. ASSUME NEW m \in Maps, CreateMap(m) PROVE Phases'
  BY <1>1, <1>2 DEF CreateMap, queueVars
<1>3. ASSUME NEW t \in Threads, NEW m \in Maps, AddMessage(t, m) PROVE Phases'
  BY <1>1, <1>3 DEF AddMessage, mainVars, queueVars
<1>4. CASE BeginUpdate
  BY <1>0, <1>4 DEF BeginUpdate, queueVars, Phases
<1>5. CASE ScheduleUpdate
  BY <1>0, <1>5 DEF ScheduleUpdate, Phases
<1>6. CASE UpdateInLine
  BY <1>0, <1>6 DEF UpdateInLine, queueVars, Phases
<1>7. ASSUME NEW t \in Threads, SwapMessages(t) \/ RunMessage(t) \/ EndMapUpdate(t) PROVE Phases'
  BY <1>1, <1>7 DEF SwapMessages, RunMessage, EndMapUpdate, mainVars, queueVars
<1>8. CASE AllScheduled
  BY <1>0, <1>8 DEF AllScheduled, queueVars, Phases
<1>9. CASE Wait \/ SpuriousWake
  BY <1>0, <1>9 DEF Wait, SpuriousWake, queueVars, Phases
<1>10. CASE UnloadMaps \/ UnloadAll \/ Join
  BY <1>0, <1>10 DEF UnloadMaps, UnloadAll, Join, queueVars, Phases
<1>11. CASE CancelQueue
  BY <1>0, <1>11 DEF CancelQueue, Phases
<1>12. ASSUME NEW w \in Workers, WaitAndPop(w) \/ TestToken(w) \/ WakeForNothing(w) PROVE Phases'
  BY <1>1, <1>12 DEF WaitAndPop, TestToken, WakeForNothing, mainVars, queueVars
<1>13. ASSUME NEW w \in Workers, UpdateFinished(w) PROVE Phases'
  <2>1. pending \in Nat \ {0} /\ ~token /\ mainPc \in {"schedule", "wait", "asleep"}
    BY <1>13, FinishCounted DEF UpdateFinished
  <2> QED
    BY <1>0, <1>13, <2>1 DEF UpdateFinished, Phases
<1>14. CASE UNCHANGED vars
  BY <1>1, <1>14 DEF vars, mainVars, queueVars
<1> QED
  BY Steps, <1>2, <1>3, <1>4, <1>5, <1>6, <1>7, <1>8, <1>9, <1>10, <1>11, <1>12, <1>13, <1>14, Zenon

\* Between two ticks, and from the halt on, nothing is left of a tick.
LEMMA NothingLeft ==
    ASSUME IInv, mainPc \notin {"schedule", "wait", "asleep"}
    PROVE  /\ pending = 0 /\ queue = <<>> /\ Queued = {} /\ todo = {}
           /\ \A t \in Threads : request[t] = NoMap
<1>1. pending = 0 /\ todo = {}
  BY DEF IInv, Phases
<1>2. request[Main] = NoMap
  BY DEF IInv, Positions
<1> QED
  BY <1>1, <1>2, NothingPending DEF Threads

LEMMA OnceKept == ASSUME IInv, [Next]_vars PROVE EachMapOnce'
<1>0. /\ EachMapOnce /\ queue \in Seq(Maps) /\ request \in [Threads -> Maps \cup {NoMap}]
      /\ Main \in Threads /\ Workers \subseteq Threads /\ NoMap \notin Maps
      /\ maps \subseteq Maps /\ todo \subseteq Maps
  BY ThreadsAssumption DEF IInv, TypeOK, Threads
<1>1. ASSUME UNCHANGED <<queue, request, todo>>, maps \subseteq maps'
      PROVE  EachMapOnce'
  <2>1. Queued' = Queued
    BY <1>1 DEF Queued
  <2> QED
    BY <1>0, <1>1, <2>1 DEF EachMapOnce
\* A thread gives up its request.
<1>2. ASSUME NEW t \in Threads, request' = [request EXCEPT ![t] = NoMap],
             UNCHANGED <<queue, todo, maps>>
      PROVE  EachMapOnce'
  <2>1. Queued' = Queued
    BY <1>2 DEF Queued
  <2>2. \A u \in Threads : request'[u] = request[u] \/ request'[u] = NoMap
    BY <1>0, <1>2
  <2>3. NoMap \notin Queued /\ NoMap \notin todo
    BY <1>0 DEF EachMapOnce
  <2>4. \A u, v \in Threads : request'[u] # NoMap /\ request'[u] = request'[v] => u = v
    BY <1>0, <2>2 DEF EachMapOnce
  <2>5. \A u \in Threads : /\ request'[u] \notin Queued' /\ request'[u] \notin todo'
                           /\ request'[u] \in maps' \cup {NoMap}
    BY <1>0, <1>2, <2>1, <2>2, <2>3 DEF EachMapOnce
  <2>6. /\ Queued' \cap todo' = {} /\ Queued' \subseteq maps' /\ todo' \subseteq maps'
        /\ \A i, j \in DOMAIN queue' : queue'[i] = queue'[j] => i = j
    BY <1>0, <1>2, <2>1 DEF EachMapOnce
  <2> QED
    BY <2>4, <2>5, <2>6 DEF EachMapOnce
\* Nothing of a tick is left.
<1>3. ASSUME mainPc \notin {"schedule", "wait", "asleep"}, UNCHANGED <<queue, request>>,
             todo' \subseteq maps'
      PROVE  EachMapOnce'
  <2>1. Queued' = {} /\ \A t \in Threads : request'[t] = NoMap
    BY <1>3, NothingLeft DEF Queued
  <2>2. queue' = <<>>
    BY <1>3, NothingLeft
  <2>3. todo' \subseteq maps' /\ NoMap \notin todo'
    <3>1. todo' \subseteq Maps
      BY TypesKept DEF TypeOK
    <3> QED
      BY <1>0, <1>3, <3>1
  <2> QED
    BY <2>1, <2>2, <2>3 DEF EachMapOnce
<1>4. ASSUME NEW m \in Maps, CreateMap(m) PROVE EachMapOnce'
  BY <1>1, <1>4 DEF CreateMap, queueVars, workVars
<1>5. ASSUME NEW t \in Threads, NEW m \in Maps, AddMessage(t, m) PROVE EachMapOnce'
  BY <1>1, <1>5 DEF AddMessage, mainVars, queueVars, workVars
<1>6. CASE BeginUpdate
  BY <1>3, <1>6 DEF BeginUpdate, queueVars, workVars
<1>7. CASE ScheduleUpdate
  <2>1. PICK m \in todo : Push(m) /\ todo' = todo \ {m}
    BY <1>7 DEF ScheduleUpdate
  <2>2. UNCHANGED <<request, maps>> /\ m \in Maps /\ queue' = Append(queue, m)
    BY <1>0, <1>7, <2>1 DEF ScheduleUpdate, workVars, Push
  <2>3. /\ Queued' = Queued \cup {m} /\ Len(queue') = Len(queue) + 1 /\ queue' \in Seq(Maps)
        /\ \A i \in 1..Len(queue) : queue'[i] = queue[i]
        /\ queue'[Len(queue) + 1] = m
    BY <1>0, <2>2, Pushed DEF Queued
  <2>4. m \notin Queued /\ \A t \in Threads : request[t] # m
    BY <1>0, <2>1 DEF EachMapOnce
  <2>5. /\ Len(queue) \in Nat /\ DOMAIN queue = 1..Len(queue)
        /\ DOMAIN queue' = 1..(Len(queue) + 1)
    BY <1>0, <2>3, LenProperties
  <2>6. \A i, j \in DOMAIN queue' : queue'[i] = queue'[j] => i = j
    <3>1. \A i \in 1..Len(queue) : queue'[i] # m /\ queue'[i] = queue[i]
      BY <2>3, <2>4, <2>5 DEF Queued
    <3>2. \A i \in DOMAIN queue' : i \in 1..Len(queue) \/ i = Len(queue) + 1
      BY <2>5
    <3>3. \A i, j \in 1..Len(queue) : queue[i] = queue[j] => i = j
      BY <1>0, <2>5 DEF EachMapOnce
    <3> QED
      BY <2>3, <3>1, <3>2, <3>3
  <2> QED
    BY <1>0, <2>1, <2>2, <2>3, <2>4, <2>6 DEF EachMapOnce
<1>8. CASE UpdateInLine
  <2>1. PICK m \in todo : request' = [request EXCEPT ![Main] = m] /\ todo' = todo \ {m}
    BY <1>8 DEF UpdateInLine
  <2>2. UNCHANGED <<queue, maps>> /\ Queued' = Queued
    BY <1>8 DEF UpdateInLine, queueVars, Queued
  <2>3. /\ m \notin Queued /\ m \in maps /\ \A t \in Threads : request[t] # m
        /\ request'[Main] = m /\ \A t \in Threads \ {Main} : request'[t] = request[t]
    BY <1>0, <2>1 DEF EachMapOnce
  <2> QED
    BY <1>0, <2>1, <2>2, <2>3 DEF EachMapOnce
<1>9. ASSUME NEW t \in Threads, SwapMessages(t) \/ RunMessage(t) PROVE EachMapOnce'
  BY <1>1, <1>9 DEF SwapMessages, RunMessage, mainVars, queueVars, workVars
<1>10. ASSUME NEW t \in Threads, EndMapUpdate(t) PROVE EachMapOnce'
  BY <1>2, <1>10 DEF EndMapUpdate, mainVars, queueVars
<1>11. CASE AllScheduled \/ Wait \/ SpuriousWake \/ Join
  BY <1>1, <1>11 DEF AllScheduled, Wait, SpuriousWake, Join, queueVars, workVars
<1>12. CASE UnloadMaps \/ UnloadAll
  <2>1. todo' = {}
    BY <1>12, NothingLeft DEF UnloadMaps, UnloadAll
  <2> QED
    BY <1>3, <1>12, <2>1 DEF UnloadMaps, UnloadAll, queueVars, workVars
<1>13. CASE CancelQueue
  <2>1. /\ mainPc \notin {"schedule", "wait", "asleep"}
        /\ UNCHANGED <<maps, request, todo>> /\ queue' \in {queue, <<>>}
    BY <1>13 DEF CancelQueue, workVars
  <2>2. queue' = queue
    BY <2>1, NothingLeft
  <2> QED
    BY <1>1, <2>1, <2>2
<1>14. ASSUME NEW w \in Workers, WaitAndPop(w) PROVE EachMapOnce'
  <2>1. UNCHANGED <<todo, maps>>
    BY <1>14 DEF WaitAndPop, mainVars
  <2>2. CASE UNCHANGED <<queue, request>>
    BY <1>1, <2>1, <2>2
  <2>3. CASE queue # <<>> /\ queue' = Tail(queue) /\ request' = [request EXCEPT ![w] = Head(queue)]
    <3> DEFINE m == Head(queue)
    <3>1. /\ m \in Maps /\ m = queue[1] /\ 1 \in DOMAIN queue
          /\ queue' \in Seq(Maps) /\ Len(queue') = Len(queue) - 1 /\ Len(queue) \in Nat \ {0}
          /\ \A i \in 1..Len(queue') : queue'[i] = queue[i + 1]
          /\ Queued = Queued' \cup {m}
      <4>1. LET r == Tail(queue) IN
              /\ m \in Maps /\ m = queue[1] /\ 1 \in DOMAIN queue
              /\ r \in Seq(Maps) /\ Len(r) = Len(queue) - 1 /\ Len(queue) \in Nat \ {0}
              /\ \A i \in 1..Len(r) : r[i] = queue[i + 1]
              /\ {queue[i] : i \in DOMAIN queue} = {r[i] : i \in DOMAIN r} \cup {m}
        BY <1>0, <2>3, Popped
      <4> HIDE DEF m
      <4> QED
        BY <2>3, <4>1 DEF Queued
    <3>2. DOMAIN queue = 1..Len(queue) /\ DOMAIN queue' = 1..(Len(queue) - 1)
      BY <1>0, <3>1, LenProperties
    <3> HIDE DEF m
    <3>3. \A i \in DOMAIN queue' : i + 1 \in DOMAIN queue /\ i + 1 # 1 /\ queue'[i] = queue[i + 1]
      BY <3>1, <3>2
    <3>4. \A i, j \in DOMAIN queue' : queue'[i] = queue'[j] => i = j
      <4>1. \A i, j \in DOMAIN queue' : queue'[i] = queue'[j] => i + 1 = j + 1
        BY <1>0, <3>3 DEF EachMapOnce
      <4> QED
        BY <3>2, <4>1
    <3>5. m \notin Queued'
      <4>1. \A i \in DOMAIN queue' : queue'[i] # m
        BY <1>0, <3>1, <3>3 DEF EachMapOnce
      <4> QED
        BY <4>1 DEF Queued
    <3>6. m \in Queued /\ m \notin todo /\ m \in maps /\ \A t \in Threads : request[t] # m
      BY <1>0, <3>1 DEF EachMapOnce
    <3>7. request'[w] = m /\ \A t \in Threads \ {w} : request'[t] = request[t]
      BY <1>0, <2>3 DEF m
    <3>8. \A t, u \in Threads : request'[t] # NoMap /\ request'[t] = request'[u] => t = u
      BY <1>0, <3>6, <3>7 DEF EachMapOnce
    <3>9. \A t \in Threads : /\ request'[t] \notin Queued' /\ request'[t] \notin todo
                             /\ request'[t] \in maps \cup {NoMap}
      BY <1>0, <3>1, <3>5, <3>6, <3>7 DEF EachMapOnce
    <3>10. Queued' \cap todo = {} /\ Queued' \subseteq maps
      BY <1>0, <3>1 DEF EachMapOnce
    <3> QED
      BY <1>0, <2>1, <3>4, <3>8, <3>9, <3>10 DEF EachMapOnce
  <2> QED
    BY <1>14, <2>2, <2>3 DEF WaitAndPop
<1>15. ASSUME NEW w \in Workers, TestToken(w) PROVE EachMapOnce'
  BY <1>0, <1>1, <1>2, <1>15 DEF TestToken, mainVars, queueVars
<1>16. ASSUME NEW w \in Workers, UpdateFinished(w) \/ WakeForNothing(w) PROVE EachMapOnce'
  BY <1>1, <1>16 DEF UpdateFinished, WakeForNothing, mainVars, workVars
<1>17. CASE UNCHANGED vars
  BY <1>1, <1>17 DEF vars, mainVars, queueVars, workVars
<1> QED
  BY Steps, <1>4, <1>5, <1>6, <1>7, <1>8, <1>9, <1>10, <1>11, <1>12, <1>13, <1>14,
     <1>15, <1>16, <1>17, Zenon

\* pending_requests follows the queue and the workers.
LEMMA CountsKept == ASSUME IInv, [Next]_vars PROVE Counts'
<1>0. /\ Counts /\ pending \in Nat /\ queue \in Seq(Maps) /\ Len(queue) \in Nat
      /\ at \in [Threads -> {"pop", "test", "update", "run", "finish", "done"}]
      /\ request \in [Threads -> Maps \cup {NoMap}]
      /\ Main \in Threads /\ Workers \subseteq Threads /\ Main \notin Workers /\ NoMap \notin Maps
  BY ThreadsAssumption, LenProperties DEF IInv, TypeOK, Threads
<1>1. Busy \in SUBSET Workers /\ Busy' \in SUBSET Workers
  BY DEF Busy
<1>2. /\ Busy = {w \in Workers : at[w] = "finish" \/ (at[w] \in {"test", "update", "run"} /\ request[w] # NoMap)}
      /\ Busy' = {w \in Workers : at'[w] = "finish" \/ (at'[w] \in {"test", "update", "run"} /\ request'[w] # NoMap)}
  BY <1>0 DEF Busy, Updating
<1>3. ASSUME UNCHANGED <<pending, queue>>,
             \A w \in Workers : at'[w] = at[w] /\ request'[w] = request[w]
      PROVE  Counts'
  <2>1. Busy' = Busy
    BY <1>2, <1>3
  <2> QED
    BY <1>0, <1>3, <2>1 DEF Counts
<1>4. ASSUME NEW m \in Maps, CreateMap(m) PROVE Counts'
  BY <1>3, <1>4 DEF CreateMap, queueVars, workVars
<1>5. ASSUME NEW t \in Threads, NEW m \in Maps, AddMessage(t, m) PROVE Counts'
  BY <1>3, <1>5 DEF AddMessage, queueVars, workVars
<1>6. CASE BeginUpdate \/ AllScheduled \/ Wait \/ SpuriousWake \/ UnloadMaps \/ UnloadAll \/ Join
  BY <1>3, <1>6 DEF BeginUpdate, AllScheduled, Wait, SpuriousWake, UnloadMaps, UnloadAll, Join,
                    queueVars, workVars
<1>7. CASE ScheduleUpdate
  <2>1. PICK m \in todo : Push(m)
    BY <1>7 DEF ScheduleUpdate
  <2>2. m \in Maps /\ queue' = Append(queue, m) /\ pending' = pending + 1 /\ UNCHANGED <<at, request>>
    BY <1>7, <2>1 DEF ScheduleUpdate, workVars, Push, IInv, TypeOK
  <2>3. Len(queue') = Len(queue) + 1
    BY <1>0, <2>2, Pushed
  <2>4. Busy' = Busy /\ Cardinality(Busy) \in Nat
    BY <1>1, <1>2, <2>2, Countable
  <2> QED
    BY <1>0, <2>2, <2>3, <2>4 DEF Counts
<1>8. CASE UpdateInLine
  BY <1>0, <1>3, <1>8 DEF UpdateInLine, Go, queueVars
<1>9. ASSUME NEW t \in Threads, RunMessage(t) PROVE Counts'
  BY <1>3, <1>9 DEF RunMessage, queueVars, workVars
<1>10. ASSUME NEW t \in Threads, SwapMessages(t) \/ EndMapUpdate(t) PROVE Counts'
  <2>1. UNCHANGED <<pending, queue>> /\ \A w \in Workers \ {t} : at'[w] = at[w] /\ request'[w] = request[w]
    BY <1>0, <1>10 DEF SwapMessages, EndMapUpdate, Go, queueVars
  <2>2. CASE t = Main
    BY <1>0, <1>3, <2>1, <2>2
  <2>3. CASE t \in Workers
    <3>1. t \in Busy
      <4>1. at[t] = "run" => request[t] # NoMap
        BY <2>3 DEF IInv, Positions
      <4> QED
        BY <1>2, <1>10, <2>3, <4>1 DEF SwapMessages, EndMapUpdate
    <3>2. t \in Busy'
      BY <1>0, <1>2, <1>10, <2>3 DEF SwapMessages, EndMapUpdate, Go
    <3>3. Busy' = Busy
      BY <1>2, <2>1, <2>3, <3>1, <3>2
    <3> QED
      BY <1>0, <2>1, <3>3 DEF Counts
  <2> QED
    BY <2>2, <2>3 DEF Threads
<1>11. CASE CancelQueue
  <2>1. /\ mainPc \notin {"schedule", "wait", "asleep"}
        /\ UNCHANGED <<at, request, pending>> /\ queue' \in {queue, <<>>}
    BY <1>11 DEF CancelQueue, workVars
  <2>2. queue' = queue
    BY <2>1, NothingLeft
  <2> QED
    BY <1>3, <2>1, <2>2
<1>12. ASSUME NEW w \in Workers, WaitAndPop(w) PROVE Counts'
  <2>1. /\ UNCHANGED pending /\ at[w] = "pop" /\ request[w] = NoMap
        /\ \A v \in Workers \ {w} : at'[v] = at[v] /\ request'[v] = request[v]
    BY <1>0, <1>12 DEF WaitAndPop, Go, IInv, Positions
  <2>2. w \notin Busy /\ Cardinality(Busy) \in Nat
    BY <1>1, <1>2, <2>1, Countable
  <2>3. CASE queue # <<>> /\ ~shutdown
    <3>1. /\ request' = [request EXCEPT ![w] = Head(queue)] /\ queue' = Tail(queue)
          /\ at' = [at EXCEPT ![w] = "test"]
      BY <1>12, <2>3 DEF WaitAndPop, Go
    <3>2. Head(queue) \in Maps /\ Len(queue') = Len(queue) - 1
      BY <1>0, <2>3, <3>1, Popped
    <3>3. at'[w] = "test" /\ request'[w] # NoMap
      BY <1>0, <3>1, <3>2
    <3>4. Busy' = Busy \cup {w}
      BY <1>2, <2>1, <3>3
    <3>5. Cardinality(Busy') = Cardinality(Busy) + 1
      BY <1>1, <2>2, <3>4, Countable
    <3> QED
      BY <1>0, <2>1, <2>2, <3>2, <3>5 DEF Counts
  <2>4. CASE ~(queue # <<>> /\ ~shutdown)
    <3>1. UNCHANGED <<queue, request>> /\ at'[w] \in {"pop", "test"}
      BY <1>0, <1>12, <2>4 DEF WaitAndPop, Go
    <3>2. w \notin Busy'
      BY <1>2, <2>1, <3>1
    <3>3. Busy' = Busy
      BY <1>2, <2>1, <2>2, <3>2
    <3> QED
      BY <1>0, <2>1, <3>1, <3>3 DEF Counts
  <2> QED
    BY <2>3, <2>4
<1>13. ASSUME NEW w \in Workers, TestToken(w) PROVE Counts'
  <2>1. /\ UNCHANGED <<pending, queue>> /\ at[w] = "test"
        /\ \A v \in Workers \ {w} : at'[v] = at[v] /\ request'[v] = request[v]
    BY <1>0, <1>13 DEF TestToken, Go, queueVars
  <2>2. w \in Busy <=> w \in Busy'
    <3>1. CASE token
      <4>1. request[w] = NoMap /\ at'[w] = "done"
        BY <1>0, <1>13, <3>1, FinishCounted DEF TestToken, Go
      <4> QED
        BY <1>2, <2>1, <4>1
    <3>2. CASE ~token
      <4>1. request' = request /\ at'[w] = "update"
        BY <1>0, <1>13, <3>2 DEF TestToken, Go
      <4> QED
        BY <1>2, <2>1, <4>1
    <3> QED
      BY <3>1, <3>2
  <2>3. Busy' = Busy
    BY <1>2, <2>1, <2>2
  <2> QED
    BY <1>0, <2>1, <2>3 DEF Counts
<1>14. ASSUME NEW w \in Workers, UpdateFinished(w) PROVE Counts'
  <2>1. /\ pending' = pending - 1 /\ at[w] = "finish" /\ at'[w] = "pop"
        /\ UNCHANGED <<queue, request>> /\ \A v \in Workers \ {w} : at'[v] = at[v]
    BY <1>0, <1>14 DEF UpdateFinished, Go
  <2>2. Busy' = Busy \ {w} /\ w \in Busy
    BY <1>2, <2>1
  <2>3. Cardinality(Busy') = Cardinality(Busy) - 1 /\ Cardinality(Busy) \in Nat
    BY <1>1, <2>2, Countable
  <2> QED
    BY <1>0, <2>1, <2>3 DEF Counts
<1>15. ASSUME NEW w \in Workers, WakeForNothing(w) PROVE Counts'
  BY <1>3, <1>15 DEF WakeForNothing, workVars
<1>16. CASE UNCHANGED vars
  BY <1>3, <1>16 DEF vars, queueVars, workVars
<1> QED
  BY Steps, <1>4, <1>5, <1>6, <1>7, <1>8, <1>9, <1>10, <1>11, <1>12, <1>13, <1>14, <1>15,
     <1>16, Zenon

LEMMA MessagesKept == ASSUME IInv, [Next]_vars PROVE Messages'
<1>0. /\ Messages
      /\ mail \in [Maps -> Seq(Nat)] /\ taken \in [Maps -> Seq(Nat)]
      /\ ran \in [Maps -> Nat] /\ posted \in [Maps -> Nat]
      /\ at \in [Threads -> {"pop", "test", "update", "run", "finish", "done"}]
      /\ request \in [Threads -> Maps \cup {NoMap}]
      /\ Main \in Threads /\ Workers \subseteq Threads /\ NoMap \notin Maps /\ maps \subseteq Maps
  BY ThreadsAssumption DEF IInv, TypeOK, Threads
\* What does not touch the messages, nor a thread that runs them.
<1>1. ASSUME UNCHANGED <<mail, taken, ran, posted>>, maps' \subseteq maps,
             \A t \in Threads : at[t] = "run" => at'[t] = "run" /\ request'[t] = request[t]
      PROVE  Messages'
  <2>1. \A m \in Maps : taken'[m] # <<>> => \E t \in Threads : at'[t] = "run" /\ request'[t] = m
    BY <1>0, <1>1 DEF Messages
  <2> QED
    BY <1>0, <1>1, <2>1 DEF Messages
<1>2. ASSUME NEW m \in Maps, CreateMap(m) PROVE Messages'
  <2>1. taken[m] = <<>>
    <3>1. ASSUME taken[m] # <<>> PROVE m \in maps
      <4>1. PICK t \in Threads : at[t] = "run" /\ request[t] = m
        BY <1>0, <3>1 DEF Messages
      <4> QED
        BY <1>0, <4>1 DEF IInv, EachMapOnce
    <3> QED
      BY <1>2, <3>1 DEF CreateMap
  <2>2. /\ maps' = maps \cup {m} /\ UNCHANGED <<at, request, taken>>
        /\ mail'[m] = <<>> /\ ran'[m] = 0 /\ posted'[m] = 0
        /\ \A x \in Maps \ {m} : mail'[x] = mail[x] /\ ran'[x] = ran[x] /\ posted'[x] = posted[x]
    BY <1>0, <1>2 DEF CreateMap, workVars
  <2>3. Numbered(taken'[m], mail'[m], ran'[m], posted'[m])
    BY <2>1, <2>2, NothingNumbered
  <2>4. \A x \in maps' \ {m} : Numbered(taken'[x], mail'[x], ran'[x], posted'[x])
    BY <1>0, <2>2 DEF Messages
  <2>5. \A x \in Maps : taken'[x] # <<>> => \E t \in Threads : at'[t] = "run" /\ request'[t] = x
    BY <1>0, <2>2 DEF Messages
  <2> QED
    BY <2>3, <2>4, <2>5 DEF Messages
<1>3. ASSUME NEW t \in Threads, NEW m \in Maps, AddMessage(t, m) PROVE Messages'
  <2>1. /\ m \in maps /\ UNCHANGED <<maps, at, request, taken, ran>>
        /\ posted'[m] = posted[m] + 1 /\ mail'[m] = Append(mail[m], posted[m] + 1)
        /\ \A x \in Maps \ {m} : mail'[x] = mail[x] /\ posted'[x] = posted[x]
    BY <1>0, <1>3 DEF AddMessage, mainVars, workVars
  <2>2. Numbered(taken'[m], mail'[m], ran'[m], posted'[m])
    BY <1>0, <2>1, NumberedPosted DEF Messages
  <2>3. \A x \in maps' \ {m} : Numbered(taken'[x], mail'[x], ran'[x], posted'[x])
    BY <1>0, <2>1 DEF Messages
  <2>4. \A x \in Maps : taken'[x] # <<>> => \E u \in Threads : at'[u] = "run" /\ request'[u] = x
    BY <1>0, <2>1 DEF Messages
  <2> QED
    BY <2>2, <2>3, <2>4 DEF Messages
<1>4. ASSUME NEW t \in Threads, SwapMessages(t) PROVE Messages'
  <2> DEFINE m == request[t]
  <2>1. m \in maps /\ m \in Maps /\ m # NoMap
    BY <1>4, WithMap DEF SwapMessages
  <2>2. taken[m] = <<>>
    <3>1. ASSUME NEW u \in Threads, at[u] = "run", request[u] = m PROVE FALSE
      <4>1. u = t
        BY <2>1, <3>1 DEF IInv, EachMapOnce
      <4> QED
        BY <1>4, <3>1, <4>1 DEF SwapMessages
    <3> QED
      BY <1>0, <2>1, <3>1 DEF Messages
  <2>3. /\ UNCHANGED <<maps, request, ran, posted>>
        /\ taken'[m] = mail[m] /\ mail'[m] = <<>>
        /\ \A x \in Maps \ {m} : taken'[x] = taken[x] /\ mail'[x] = mail[x]
        /\ at'[t] = "run" /\ \A u \in Threads \ {t} : at'[u] = at[u]
    BY <1>0, <1>4, <2>1 DEF SwapMessages, Go, mainVars
  <2>4. Numbered(taken[m], mail[m], ran[m], posted[m])
    BY <1>0, <2>1 DEF Messages
  <2>5. Numbered(taken'[m], mail'[m], ran'[m], posted'[m])
    BY <1>0, <2>1, <2>2, <2>3, <2>4, NumberedTaken
  <2> HIDE DEF m
  <2>6. \A x \in maps' \ {m} : Numbered(taken'[x], mail'[x], ran'[x], posted'[x])
    BY <1>0, <2>3 DEF Messages
  <2>7. ASSUME NEW x \in Maps, taken'[x] # <<>>
        PROVE  \E u \in Threads : at'[u] = "run" /\ request'[u] = x
    <3>1. CASE x = m
      BY <2>3, <3>1 DEF m
    <3>2. CASE x # m
      <4>1. PICK u \in Threads : at[u] = "run" /\ request[u] = x
        BY <1>0, <2>3, <2>7, <3>2 DEF Messages
      <4> QED
        BY <2>3, <4>1
    <3> QED
      BY <3>1, <3>2
  <2> QED
    BY <2>5, <2>6, <2>7 DEF Messages
<1>5. ASSUME NEW t \in Threads, RunMessage(t) PROVE Messages'
  <2> DEFINE m == request[t]
  <2>1. m \in maps /\ m \in Maps /\ taken[m] \in Seq(Nat) /\ taken[m] # <<>>
    BY <1>0, <1>5, WithMap DEF RunMessage
  <2>2. /\ UNCHANGED <<maps, at, request, mail, posted>> /\ at[t] = "run"
        /\ ran'[m] = Head(taken[m]) /\ taken'[m] = Tail(taken[m])
        /\ \A x \in Maps \ {m} : taken'[x] = taken[x] /\ ran'[x] = ran[x]
    BY <1>0, <1>5, <2>1 DEF RunMessage, mainVars, workVars
  <2>3. Numbered(taken[m], mail[m], ran[m], posted[m])
    BY <1>0, <2>1 DEF Messages
  <2>4. Numbered(taken'[m], mail'[m], ran'[m], posted'[m])
    BY <1>0, <2>1, <2>2, <2>3, NumberedRun
  <2> HIDE DEF m
  <2>5. \A x \in maps' \ {m} : Numbered(taken'[x], mail'[x], ran'[x], posted'[x])
    BY <1>0, <2>2 DEF Messages
  <2>6. ASSUME NEW x \in Maps, taken'[x] # <<>>
         PROVE  \E u \in Threads : at'[u] = "run" /\ request'[u] = x
    <3>1. CASE x = m
      BY <2>2, <3>1 DEF m
    <3>2. CASE x # m
      BY <1>0, <2>2, <2>6, <3>2 DEF Messages
    <3> QED
      BY <3>1, <3>2
  <2> QED
    BY <2>4, <2>5, <2>6 DEF Messages
<1>6. ASSUME NEW t \in Threads, EndMapUpdate(t) PROVE Messages'
  <2>1. /\ UNCHANGED <<mail, taken, ran, posted, maps>> /\ taken[request[t]] = <<>>
        /\ \A u \in Threads \ {t} : at'[u] = at[u] /\ request'[u] = request[u]
    BY <1>0, <1>6 DEF EndMapUpdate, Go, mainVars, mailVars
  <2>2. ASSUME NEW x \in Maps, taken'[x] # <<>>
        PROVE  \E u \in Threads : at'[u] = "run" /\ request'[u] = x
    <3>1. PICK u \in Threads : at[u] = "run" /\ request[u] = x
      BY <1>0, <2>1, <2>2 DEF Messages
    <3>2. u # t
      BY <2>1, <2>2, <3>1
    <3> QED
      BY <2>1, <3>1, <3>2
  <2> QED
    BY <1>0, <2>1, <2>2 DEF Messages
<1>7. CASE BeginUpdate \/ ScheduleUpdate \/ AllScheduled \/ Wait \/ SpuriousWake \/ Join \/ CancelQueue
  BY <1>1, <1>7 DEF BeginUpdate, ScheduleUpdate, AllScheduled, Wait, SpuriousWake, Join, CancelQueue,
                    workVars, mailVars
<1>8. CASE UnloadMaps \/ UnloadAll
  BY <1>1, <1>8 DEF UnloadMaps, UnloadAll, workVars, mailVars
<1>9. CASE UpdateInLine
  <2>1. at[Main] = "pop"
    BY <1>9 DEF UpdateInLine, IInv, Positions
  <2>2. \A t \in Threads \ {Main} : at'[t] = at[t] /\ request'[t] = request[t]
    BY <1>0, <1>9 DEF UpdateInLine, Go
  <2> QED
    BY <1>1, <1>9, <2>1, <2>2 DEF UpdateInLine, mailVars
<1>10. ASSUME NEW w \in Workers, WaitAndPop(w) \/ TestToken(w) \/ UpdateFinished(w) PROVE Messages'
  <2>1. at[w] # "run" /\ UNCHANGED <<maps, mail, taken, ran, posted>>
    BY <1>10 DEF WaitAndPop, TestToken, UpdateFinished, mainVars, mailVars
  <2>2. \A t \in Threads \ {w} : at'[t] = at[t] /\ request'[t] = request[t]
    BY <1>0, <1>10 DEF WaitAndPop, TestToken, UpdateFinished, Go
  <2> QED
    BY <1>1, <2>1, <2>2
<1>11. ASSUME NEW w \in Workers, WakeForNothing(w) PROVE Messages'
  BY <1>1, <1>11 DEF WakeForNothing, mainVars, workVars, mailVars
<1>12. CASE UNCHANGED vars
  BY <1>1, <1>12 DEF vars, mainVars, workVars, mailVars
<1> QED
  BY Steps, <1>2, <1>3, <1>4, <1>5, <1>6, <1>7, <1>8, <1>9, <1>10, <1>11, <1>12, Zenon
-----------------------------------------------------------------------------
LEMMA InitIInv == Init => IInv
<1> SUFFICES ASSUME Init PROVE IInv
  OBVIOUS
<1>0. queue = <<>> /\ Len(queue) = 0 /\ DOMAIN queue = {} /\ <<>> \in Seq(Maps) /\ <<>> \in Seq(Nat)
  BY EmptySeq DEF Init
<1>1. TypeOK
  <2>1. at \in [Threads -> {"pop", "test", "update", "run", "finish", "done"}]
    BY DEF Init
  <2>2. mail \in [Maps -> Seq(Nat)] /\ taken \in [Maps -> Seq(Nat)]
    BY <1>0 DEF Init
  <2>3. ran \in [Maps -> Nat] /\ posted \in [Maps -> Nat] /\ ticks \in 0..MaxTicks
    BY MapBoundsAssumption DEF Init
  <2>4. request \in [Threads -> Maps \cup {NoMap}] /\ pending \in Nat /\ queue \in Seq(Maps)
    BY <1>0 DEF Init
  <2>5. /\ activated \in BOOLEAN /\ maps \in SUBSET Maps /\ todo \in SUBSET Maps
        /\ mainPc = "between" /\ idle \in SUBSET Workers /\ shutdown \in BOOLEAN /\ token \in BOOLEAN
    BY DEF Init
  <2> QED
    BY <2>1, <2>2, <2>3, <2>4, <2>5 DEF TypeOK
<1>2. Positions
  BY DEF Init, Positions, Threads
<1>3. EachMapOnce
  <2>1. Queued = {}
    BY <1>0 DEF Queued
  <2>2. \A t \in Threads : request[t] = NoMap
    BY DEF Init
  <2> QED
    BY <1>0, <2>1, <2>2 DEF Init, EachMapOnce
<1>4. Phases
  BY DEF Init, Phases
<1>5. Counts
  <2>1. Busy = {}
    BY DEF Init, Busy, Updating, Threads
  <2> QED
    BY <1>0, <2>1, FS_EmptySet DEF Init, Counts
<1>6. Messages
  <2>1. \A m \in Maps : taken[m] = <<>> /\ mail[m] = <<>> /\ ran[m] = 0 /\ posted[m] = 0
    BY DEF Init
  <2>2. maps \subseteq Maps
    BY DEF Init
  <2> QED
    BY <2>1, <2>2, NothingNumbered DEF Messages
<1> QED
  BY <1>1, <1>2, <1>3, <1>4, <1>5, <1>6 DEF IInv

LEMMA NextIInv == IInv /\ [Next]_vars => IInv'
<1> SUFFICES ASSUME IInv, [Next]_vars PROVE IInv'
  OBVIOUS
<1>1. TypeOK' /\ Positions' /\ EachMapOnce' /\ Phases' /\ Counts' /\ Messages'
  BY TypesKept, PositionsKept, OnceKept, PhasesKept, CountsKept, MessagesKept, Zenon
<1> QED
  BY <1>1 DEF IInv

LEMMA InductiveInvariant == Spec => []IInv
BY InitIInv, NextIInv, PTL DEF Spec
-----------------------------------------------------------------------------
(* What follows from the invariant.                                        *)

\* A thread is with the update of a map exactly while it has its request.
LEMMA UpdatingHas ==
    ASSUME IInv
    PROVE  Updating = {t \in Threads : request[t] # NoMap}
<1>1. ASSUME NEW t \in Threads, request[t] # NoMap PROVE at[t] \in {"test", "update", "run"}
  BY <1>1 DEF IInv, TypeOK, Positions, Threads
<1> QED
  BY <1>1 DEF Updating

LEMMA ExclusiveUpdates == IInv => UpdatesExclusive
<1> SUFFICES ASSUME IInv PROVE UpdatesExclusive
  OBVIOUS
<1>1. /\ \A t, u \in Updating : request[t] = request[u] => t = u
      /\ \A t \in Updating : request[t] \in maps
  BY UpdatingHas DEF IInv, EachMapOnce
<1>2. Updating # {} => mainPc \in {"schedule", "wait", "asleep"}
  <2> SUFFICES ASSUME NEW t \in Updating PROVE mainPc \in {"schedule", "wait", "asleep"}
    OBVIOUS
  <2>1. t \in Threads /\ request[t] # NoMap
    BY UpdatingHas
  <2> QED
    BY <2>1, NothingLeft
<1> QED
  BY <1>1, <1>2 DEF UpdatesExclusive

LEMMA OrderedMessages == IInv => MessagesInOrder
<1> SUFFICES ASSUME IInv, NEW m \in maps
             PROVE  /\ taken[m] \o mail[m] = [i \in 1..(posted[m] - ran[m]) |-> ran[m] + i]
                    /\ taken[m] # <<>> => \E t \in Updating : request[t] = m
  BY DEF MessagesInOrder
<1>0. m \in Maps /\ m # NoMap
  BY ThreadsAssumption DEF IInv, TypeOK
<1> DEFINE tk == taken[m]
           ml == mail[m]
           r == ran[m]
           p == posted[m]
           all == tk \o ml
<1>1. /\ tk \in Seq(Nat) /\ ml \in Seq(Nat) /\ r \in Nat /\ p \in Nat
      /\ Numbered(tk, ml, r, p)
  BY <1>0 DEF IInv, TypeOK, Messages
<1>2. tk # <<>> => \E t \in Updating : request[t] = m
  BY <1>0, UpdatingHas DEF IInv, Messages
<1> HIDE DEF tk, ml, r, p
<1>3. /\ Len(tk) \in Nat /\ Len(ml) \in Nat /\ Len(tk) + Len(ml) + r = p
      /\ \A i \in 1..Len(tk) : tk[i] = r + i
      /\ \A i \in 1..Len(ml) : ml[i] = r + Len(tk) + i
  BY <1>1, LenProperties DEF Numbered
<1>4. /\ all \in Seq(Nat) /\ Len(all) = Len(tk) + Len(ml)
      /\ \A i \in 1..(Len(tk) + Len(ml)) : all[i] = IF i <= Len(tk) THEN tk[i] ELSE ml[i - Len(tk)]
  BY <1>1, ConcatProperties
<1> HIDE DEF all
<1>5. p - r = Len(tk) + Len(ml)
  <2>1. \A a, b \in Nat : a + b + r = p => p - r = a + b
    BY <1>1
  <2> QED
    BY <1>3, <2>1
<1>6. \A i \in 1..(p - r) : all[i] = r + i
  <2> SUFFICES ASSUME NEW i \in 1..(Len(tk) + Len(ml)) PROVE all[i] = r + i
    BY <1>5
  <2>1. CASE i <= Len(tk)
    <3>1. i \in 1..Len(tk)
      BY <1>3, <2>1
    <3> QED
      BY <1>3, <1>4, <2>1, <3>1
  <2>2. CASE ~(i <= Len(tk))
    <3>1. i - Len(tk) \in 1..Len(ml) /\ Len(tk) + (i - Len(tk)) = i
      BY <1>3, <2>2
    <3>2. all[i] = r + Len(tk) + (i - Len(tk))
      BY <1>3, <1>4, <2>2, <3>1
    <3>3. \A a, b \in Nat : r + a + (b - a) = r + b
      BY <1>1
    <3> QED
      BY <1>3, <3>2, <3>3
  <2> QED
    BY <2>1, <2>2
<1>7. DOMAIN all = 1..(p - r) /\ all = [i \in DOMAIN all |-> all[i]]
  BY <1>4, <1>5, LenProperties
<1>8. all = [i \in 1..(p - r) |-> r + i]
  BY <1>6, <1>7
<1> QED
  BY <1>2, <1>8 DEF all, tk, ml, r, p

\* In every reachable state the variables have their types: pending_requests
\* never passes below zero.
THEOREM TypesHold == Spec => []TypeOK
<1>1. IInv => TypeOK
  BY DEF IInv
<1> QED
  BY <1>1, InductiveInvariant, PTL

\* However many threads update maps, no map is updated by two of them, none
\* after it was unloaded, and the world thread waits for all of them before it
\* goes on in MapManager::Update.
THEOREM UpdatesStayExclusive == Spec => []UpdatesExclusive
BY ExclusiveUpdates, InductiveInvariant, PTL

\* No worker executes a request it has not got: WorkerThread needs no test
\* besides the token.
THEOREM RequestsNotNull == Spec => []NoNullRequest
<1>1. IInv => NoNullRequest
  BY DEF IInv, Positions, NoNullRequest
<1> QED
  BY <1>1, InductiveInvariant, PTL

\* Messages are run once, in the order in which they were posted, and by the
\* thread that updates the map, however many are posted by whom.
THEOREM MessagesStayInOrder == Spec => []MessagesInOrder
BY OrderedMessages, InductiveInvariant, PTL

\* The counter that MapUpdater::wait looks at counts what is queued and what
\* the workers hold.
THEOREM PendingIsExact == Spec => []PendingCounts
<1>1. IInv => PendingCounts
  BY DEF IInv, Counts, Busy, PendingCounts
<1> QED
  BY <1>1, InductiveInvariant, PTL
-----------------------------------------------------------------------------
(* MapUpdater implements MapTicks.                                         *)

\* The requests of the threads, the maps due, and the mode of MapTicks.
Held == {request[t] : t \in Updating}

Due == todo \cup Queued \cup Held

Mode == IF mainPc = "between" THEN "between"
        ELSE IF mainPc \in {"deactivate", "cancel", "join", "stopped"} THEN "stopped"
        ELSE "ticking"

\* Who holds what is the same in terms of the requests alone.
LEMMA HeldByRequest ==
    ASSUME IInv
    PROVE  Held = {request[t] : t \in Threads} \ {NoMap}
BY UpdatingHas DEF Held

LEMMA TicksStutter ==
    ASSUME UNCHANGED maps, Due' = Due, Mode' = Mode
    PROVE  [Ticks!Next]_(Ticks!vars)
BY DEF Ticks!vars, Due, Queued, Held, Mode

\* Requests and queue as they were, so is what is due.
LEMMA SameDue ==
    ASSUME UNCHANGED <<todo, queue>>, Held' = Held
    PROVE  Due' = Due
BY DEF Due, Queued

\* Every step is one of MapTicks, or none.
LEMMA StepsAreTicks ==
    ASSUME IInv, IInv', [Next]_vars
    PROVE  [Ticks!Next]_(Ticks!vars)
<1>0. /\ Main \in Threads /\ Workers \subseteq Threads /\ NoMap \notin Maps
      /\ queue \in Seq(Maps) /\ request \in [Threads -> Maps \cup {NoMap}]
      /\ maps \subseteq Maps /\ todo \subseteq Maps
      /\ mainPc \in {"between", "schedule", "wait", "asleep", "unload",
                     "deactivate", "cancel", "join", "stopped"}
  BY ThreadsAssumption DEF IInv, TypeOK, Threads
<1>1. Held = {request[t] : t \in Threads} \ {NoMap}
  BY HeldByRequest
<1>2. Held' = {request'[t] : t \in Threads} \ {NoMap}
  <2>1. Updating' = {t \in Threads : request'[t] # NoMap}
    <3>1. ASSUME NEW t \in Threads, request'[t] # NoMap PROVE at'[t] \in {"test", "update", "run"}
      BY <3>1 DEF IInv, TypeOK, Positions, Threads
    <3> QED
      BY <3>1 DEF Updating
  <2> QED
    BY <2>1 DEF Held
<1>3. ASSUME UNCHANGED <<maps, todo, queue, request>>, Mode' = Mode
      PROVE  [Ticks!Next]_(Ticks!vars)
  <2>1. Held' = Held
    BY <1>1, <1>2, <1>3
  <2> QED
    BY <1>3, <2>1, SameDue, TicksStutter
<1>4. UNCHANGED mainPc => Mode' = Mode
  BY DEF Mode
<1>5. ASSUME NEW m \in Maps, CreateMap(m) PROVE [Ticks!Next]_(Ticks!vars)
  <2>1. UNCHANGED <<todo, queue, request, mainPc>> /\ Mode = "between" /\ maps' = maps \cup {m}
    BY <1>5 DEF CreateMap, queueVars, workVars, Mode
  <2>2. Due' = Due /\ Mode' = Mode
    BY <1>1, <1>2, <1>4, <2>1, SameDue
  <2>3. Ticks!Load(m)
    BY <2>1, <2>2 DEF Ticks!Load, Due, Queued, Held, Mode
  <2> QED
    BY <2>3 DEF Ticks!Next
<1>6. ASSUME NEW t \in Threads, NEW m \in Maps, AddMessage(t, m) PROVE [Ticks!Next]_(Ticks!vars)
  BY <1>3, <1>4, <1>6 DEF AddMessage, mainVars, queueVars, workVars
<1>7. CASE BeginUpdate
  <2>1. UNCHANGED <<maps, queue, request>> /\ todo' = maps /\ mainPc = "between" /\ mainPc' = "schedule"
    BY <1>7 DEF BeginUpdate, queueVars, workVars
  <2>2. Queued' = {} /\ Held' = {}
    BY <1>1, <1>2, <2>1, NothingLeft DEF Queued
  <2>3. Due' = maps /\ Mode = "between" /\ Mode' = "ticking"
    BY <2>1, <2>2 DEF Due, Mode
  <2>4. Ticks!BeginTick
    BY <2>1, <2>3 DEF Ticks!BeginTick, Due, Queued, Held, Mode
  <2> QED
    BY <2>4 DEF Ticks!Next
\* A map goes from the loop into the queue, or into the hands of the world
\* thread: it is due as before.
<1>8. CASE ScheduleUpdate
  <2>1. PICK m \in todo : Push(m) /\ todo' = todo \ {m}
    BY <1>8 DEF ScheduleUpdate
  <2>2. UNCHANGED <<maps, request, mainPc>> /\ queue' = Append(queue, m) /\ m \in Maps
    BY <1>0, <1>8, <2>1 DEF ScheduleUpdate, Push, workVars
  <2>3. Queued' = Queued \cup {m}
    BY <1>0, <2>2, Pushed DEF Queued
  <2>4. Held' = Held
    BY <1>1, <1>2, <2>2
  <2>5. Due' = Due
    BY <2>1, <2>3, <2>4 DEF Due
  <2> QED
    BY <1>4, <2>2, <2>5, TicksStutter
<1>9. CASE UpdateInLine
  <2>1. PICK m \in todo : request' = [request EXCEPT ![Main] = m] /\ todo' = todo \ {m}
    BY <1>9 DEF UpdateInLine
  <2>2. UNCHANGED <<maps, queue, mainPc>> /\ request[Main] = NoMap /\ m # NoMap
    BY <1>0, <1>9, <2>1 DEF UpdateInLine, queueVars
  <2>3. Held' = Held \cup {m}
    <3>1. request'[Main] = m /\ \A t \in Threads \ {Main} : request'[t] = request[t]
      BY <1>0, <2>1
    <3> QED
      BY <1>0, <1>1, <1>2, <2>2, <3>1
  <2>4. Due' = Due
    BY <2>1, <2>2, <2>3 DEF Due, Queued
  <2> QED
    BY <1>4, <2>2, <2>4, TicksStutter
<1>10. ASSUME NEW t \in Threads, SwapMessages(t) \/ RunMessage(t) PROVE [Ticks!Next]_(Ticks!vars)
  BY <1>3, <1>4, <1>10 DEF SwapMessages, RunMessage, mainVars, queueVars, workVars
\* The end of its update: the map is no longer due.
<1>11. ASSUME NEW t \in Threads, EndMapUpdate(t) PROVE [Ticks!Next]_(Ticks!vars)
  <2>1. /\ UNCHANGED <<maps, todo, queue, mainPc>> /\ at[t] = "run"
        /\ request' = [request EXCEPT ![t] = NoMap]
    BY <1>11 DEF EndMapUpdate, mainVars, queueVars
  <2>2. PICK m \in Maps : m = request[t] /\ m # NoMap
    BY <2>1, WithMap
  <2>3. mainPc \in {"schedule", "wait", "asleep"}
    BY <2>1, WithMap
  <2>4. m \notin todo /\ m \notin Queued /\ \A u \in Threads \ {t} : request[u] # m
    BY <2>2 DEF IInv, EachMapOnce
  <2>5. request'[t] = NoMap /\ \A u \in Threads \ {t} : request'[u] = request[u]
    BY <1>0, <2>1
  <2>6. Held' = Held \ {m} /\ m \in Held
    BY <1>1, <1>2, <2>2, <2>4, <2>5
  <2>7. Queued' = Queued
    BY <2>1 DEF Queued
  <2>8. Due' = Due \ {m} /\ m \in Due
    BY <2>1, <2>4, <2>6, <2>7 DEF Due
  <2>9. Mode = "ticking" /\ Mode' = Mode
    BY <2>1, <2>3 DEF Mode
  <2>10. Ticks!UpdateMap(m)
    BY <2>1, <2>8, <2>9 DEF Ticks!UpdateMap, Due, Queued, Held, Mode
  <2> QED
    BY <2>10 DEF Ticks!Next
<1>12. CASE AllScheduled \/ Wait \/ SpuriousWake
  BY <1>3, <1>12 DEF AllScheduled, Wait, SpuriousWake, queueVars, workVars, Mode
<1>13. ASSUME UnloadMaps \/ UnloadAll PROVE Due = {} /\ Due' = {}
  <2>1. mainPc \notin {"schedule", "wait", "asleep"} /\ UNCHANGED <<todo, queue, request>>
    BY <1>13 DEF UnloadMaps, UnloadAll, queueVars, workVars
  <2>2. todo = {} /\ Queued = {} /\ Held = {}
    BY <1>1, <2>1, NothingLeft
  <2>3. Due' = Due
    BY <1>1, <1>2, <2>1, SameDue
  <2> QED
    BY <2>2, <2>3 DEF Due
<1>14. CASE UnloadMaps
  <2>1. Mode = "ticking" /\ Mode' = "between" /\ maps' \in SUBSET maps
    BY <1>14 DEF UnloadMaps, Mode
  <2>2. Ticks!EndTick
    BY <1>13, <1>14, <2>1 DEF Ticks!EndTick, Due, Queued, Held, Mode
  <2> QED
    BY <2>2 DEF Ticks!Next
<1>15. CASE UnloadAll
  <2>1. Mode = "between" /\ Mode' = "stopped" /\ maps' = {}
    BY <1>15 DEF UnloadAll, Mode
  <2>2. Ticks!StopAll
    BY <1>13, <1>15, <2>1 DEF Ticks!StopAll, Due, Queued, Held, Mode
  <2> QED
    BY <2>2 DEF Ticks!Next
<1>16. CASE Join
  BY <1>3, <1>16 DEF Join, queueVars, workVars, Mode
<1>17. CASE CancelQueue
  <2>1. /\ mainPc \in {"deactivate", "cancel"} /\ mainPc' \in {"cancel", "join"}
        /\ UNCHANGED <<maps, todo, request>> /\ queue' \in {queue, <<>>}
    BY <1>17 DEF CancelQueue, workVars
  <2>2. queue' = queue
    BY <2>1, NothingLeft
  <2>3. Mode' = Mode
    BY <2>1 DEF Mode
  <2> QED
    BY <1>3, <2>1, <2>2, <2>3
<1>18. ASSUME NEW w \in Workers, WaitAndPop(w) PROVE [Ticks!Next]_(Ticks!vars)
  <2>1. UNCHANGED <<maps, todo, mainPc>> /\ request[w] = NoMap
    BY <1>18 DEF WaitAndPop, mainVars, IInv, Positions
  <2>2. CASE UNCHANGED <<queue, request>>
    BY <1>3, <1>4, <2>1, <2>2
  <2>3. CASE queue # <<>> /\ queue' = Tail(queue) /\ request' = [request EXCEPT ![w] = Head(queue)]
    <3>1. Head(queue) \in Maps /\ Queued = Queued' \cup {Head(queue)}
      <4>1. LET r == Tail(queue) IN
              /\ Head(queue) \in Maps
              /\ {queue[i] : i \in DOMAIN queue} = {r[i] : i \in DOMAIN r} \cup {Head(queue)}
        BY <1>0, <2>3, Popped
      <4> QED
        BY <2>3, <4>1 DEF Queued
    <3>2. request'[w] = Head(queue) /\ \A t \in Threads \ {w} : request'[t] = request[t]
      BY <1>0, <2>3
    <3>3. Held' = Held \cup {Head(queue)}
      BY <1>0, <1>1, <1>2, <2>1, <3>1, <3>2
    <3>4. Due' = Due
      BY <2>1, <3>1, <3>3 DEF Due
    <3> QED
      BY <1>4, <2>1, <3>4, TicksStutter
  <2> QED
    BY <1>18, <2>2, <2>3 DEF WaitAndPop
<1>19. ASSUME NEW w \in Workers, TestToken(w) PROVE [Ticks!Next]_(Ticks!vars)
  <2>1. request' = request
    <3>1. CASE token
      <4>1. request[w] = NoMap
        BY <1>19, <3>1, FinishCounted DEF TestToken
      <4> QED
        BY <1>0, <1>19, <3>1, <4>1 DEF TestToken
    <3>2. CASE ~token
      BY <1>19, <3>2 DEF TestToken
    <3> QED
      BY <3>1, <3>2
  <2> QED
    BY <1>3, <1>4, <1>19, <2>1 DEF TestToken, mainVars, queueVars
<1>20. ASSUME NEW w \in Workers, UpdateFinished(w) PROVE [Ticks!Next]_(Ticks!vars)
  <2>1. Mode' = Mode
    BY <1>20 DEF UpdateFinished, Mode
  <2> QED
    BY <1>3, <1>20, <2>1 DEF UpdateFinished
<1>21. ASSUME NEW w \in Workers, WakeForNothing(w) PROVE [Ticks!Next]_(Ticks!vars)
  BY <1>3, <1>4, <1>21 DEF WakeForNothing, mainVars, workVars
<1>22. CASE UNCHANGED vars
  BY <1>3, <1>4, <1>22 DEF vars, mainVars, queueVars, workVars
<1> QED
  BY Steps, <1>5, <1>6, <1>7, <1>8, <1>9, <1>10, <1>11, <1>12, <1>14, <1>15, <1>16, <1>17,
     <1>18, <1>19, <1>20, <1>21, <1>22, Zenon

LEMMA InitIsTicksInit == Init => Ticks!Init
<1> SUFFICES ASSUME Init PROVE Ticks!Init
  OBVIOUS
<1>1. Queued = {}
  BY EmptySeq DEF Init, Queued
<1>2. Held = {}
  BY DEF Init, Held, Updating
<1>3. Due = {} /\ Mode = "between" /\ maps \in SUBSET Maps
  BY <1>1, <1>2 DEF Init, Due, Mode
<1> QED
  BY <1>3 DEF Ticks!Init, Due, Queued, Held, Mode

\* The world thread, the workers, their queue and the counter between them
\* implement ticks in which every loaded map is updated exactly once, and no
\* map is loaded or unloaded while one is due.
THEOREM ThreadsImplementTicks == Spec => ImplementsTicks
<1>1. IInv /\ IInv' /\ [Next]_vars => [Ticks!Next]_(Ticks!vars)
  BY StepsAreTicks
<1> QED
  BY <1>1, InitIsTicksInit, InductiveInvariant, PTL DEF Spec, ImplementsTicks, Ticks!Spec
=============================================================================
