----------------------------- MODULE MapUpdater -----------------------------
(***************************************************************************)
(* The update of the maps: MapManager::Update on the world thread, the     *)
(* worker threads of MapUpdater with their ProducerConsumerQueue, and the  *)
(* Messager each map empties when it is updated.                           *)
(*                                                                         *)
(* Each critical section of _lock, of the queue's lock and of a Messager's *)
(* lock blocks on nothing but a condition variable, so it is one step.  A  *)
(* condition variable is the set of the threads asleep on it; notify_one   *)
(* wakes any one of them, and one may wake for no reason.                  *)
(***************************************************************************)
EXTENDS Naturals, Sequences, FiniteSets

CONSTANTS
    Workers,    \* the threads of _workerThreads
    Main,       \* the world thread
    Maps,       \* the maps that may exist
    NoMap,      \* no request popped (nullptr)
    MaxTicks,   \* bound: updates of the map manager
    MaxPosts    \* bound: messages posted to one map

ASSUME ThreadsAssumption == IsFiniteSet(Workers) /\ Main \notin Workers /\ NoMap \notin Maps
ASSUME MapBoundsAssumption == MaxTicks \in Nat /\ MaxPosts \in Nat

VARIABLES
    activated,  \* whether MapUpdate.Threads asks for the workers
    maps,       \* i_maps
    todo,       \* maps the loop of MapManager::Update has still to reach
    mainPc,     \* where the world thread is
    queue,      \* m_queue of the ProducerConsumerQueue
    idle,       \* workers asleep on m_condition of the queue
    shutdown,   \* m_shutdown
    token,      \* _cancelationToken
    pending,    \* pending_requests
    at,         \* where each thread is with a map's update
    request,    \* the map whose update a thread has popped
    mail,       \* m_messageVector of each map's Messager
    taken,      \* messageVectorCopy of Messager::Execute
    ran,        \* number of the last message run on the map
    posted,     \* messages posted to the map
    ticks       \* updates begun

mainVars == <<maps, todo, mainPc, ticks>>
queueVars == <<activated, queue, idle, shutdown, token, pending>>
workVars == <<at, request>>
mailVars == <<mail, taken, ran, posted>>
vars == <<mainVars, queueVars, workVars, mailVars>>

Threads == Workers \cup {Main}

Init == /\ activated \in BOOLEAN
        /\ maps \in SUBSET Maps
        /\ todo = {}
        /\ mainPc = "between"
        /\ queue = <<>>
        /\ idle = {}
        /\ shutdown = FALSE
        /\ token = FALSE
        /\ pending = 0
        /\ at = [t \in Threads |-> "pop"]
        /\ request = [t \in Threads |-> NoMap]
        /\ mail = [m \in Maps |-> <<>>]
        /\ taken = [m \in Maps |-> <<>>]
        /\ ran = [m \in Maps |-> 0]
        /\ posted = [m \in Maps |-> 0]
        /\ ticks = 0

Go(t, pc) == at' = [at EXCEPT ![t] = pc]
-----------------------------------------------------------------------------
(* World thread: between two updates of the map manager.                   *)

\* MapManager::CreateMap, CreateBgMap: a new Map has a new Messager.
CreateMap(m) ==
    /\ mainPc = "between"
    /\ m \notin maps
    /\ maps' = maps \cup {m}
    /\ mail' = [mail EXCEPT ![m] = <<>>]
    /\ ran' = [ran EXCEPT ![m] = 0]
    /\ posted' = [posted EXCEPT ![m] = 0]
    /\ UNCHANGED <<todo, mainPc, ticks, queueVars, workVars, taken>>

\* Whether thread t runs code that may post: the world thread outside
\* MapManager::Update, and a thread inside the update of a map.
MayPost(t) == at[t] = "run" \/ (t = Main /\ mainPc = "between")

\* Messager::AddMessage, on any map by any of these threads.
AddMessage(t, m) ==
    /\ MayPost(t)
    /\ m \in maps
    /\ posted[m] < MaxPosts
    /\ posted' = [posted EXCEPT ![m] = @ + 1]
    /\ mail' = [mail EXCEPT ![m] = Append(@, posted[m] + 1)]
    /\ UNCHANGED <<mainVars, queueVars, workVars, taken, ran>>

BeginUpdate ==
    /\ mainPc = "between"
    /\ ticks < MaxTicks
    /\ ticks' = ticks + 1
    /\ todo' = maps
    /\ mainPc' = "schedule"
    /\ UNCHANGED <<maps, queueVars, workVars, mailVars>>

\* Mutant: Push does not notify the condition variable.
PushSilently(m) == queue' = Append(queue, m) /\ UNCHANGED idle

\* ProducerConsumerQueue::Push.
Push(m) == /\ queue' = Append(queue, m)
           /\ IF idle = {} THEN UNCHANGED idle
                           ELSE \E w \in idle : idle' = idle \ {w}

\* Mutant: pending_requests is not incremented.
ScheduleUncounted ==
    /\ activated /\ mainPc = "schedule"
    /\ \E m \in todo : Push(m) /\ todo' = todo \ {m}
    /\ UNCHANGED <<activated, maps, mainPc, ticks, shutdown, token, pending, workVars, mailVars>>

\* The loop of MapManager::Update and MapUpdater::schedule_update.
ScheduleUpdate ==
    /\ activated /\ mainPc = "schedule"
    /\ \E m \in todo : Push(m) /\ todo' = todo \ {m}
    /\ pending' = pending + 1
    /\ UNCHANGED <<activated, maps, mainPc, ticks, shutdown, token, workVars, mailVars>>

\* Without worker threads the world thread updates the map itself.
UpdateInLine ==
    /\ ~activated /\ mainPc = "schedule"
    /\ request[Main] = NoMap
    /\ \E m \in todo : request' = [request EXCEPT ![Main] = m] /\ todo' = todo \ {m}
    /\ Go(Main, "update")
    /\ UNCHANGED <<maps, mainPc, ticks, queueVars, mailVars>>

\* Mutant: the loop ends before its last map.
SomeScheduled ==
    /\ mainPc = "schedule" /\ request[Main] = NoMap
    /\ mainPc' = IF activated THEN "wait" ELSE "unload"
    /\ UNCHANGED <<maps, todo, ticks, queueVars, workVars, mailVars>>

AllScheduled ==
    /\ mainPc = "schedule" /\ todo = {} /\ request[Main] = NoMap
    /\ mainPc' = IF activated THEN "wait" ELSE "unload"
    /\ UNCHANGED <<maps, todo, ticks, queueVars, workVars, mailVars>>

\* Mutant: wait() returns as soon as the queue is empty.
WaitForQueue ==
    /\ mainPc = "wait"
    /\ mainPc' = IF queue # <<>> THEN "asleep" ELSE "unload"
    /\ UNCHANGED <<maps, todo, ticks, queueVars, workVars, mailVars>>

\* MapUpdater::wait, the test of its loop.
Wait ==
    /\ mainPc = "wait"
    /\ mainPc' = IF pending > 0 THEN "asleep" ELSE "unload"
    /\ UNCHANGED <<maps, todo, ticks, queueVars, workVars, mailVars>>

SpuriousWake ==
    /\ mainPc = "asleep"
    /\ mainPc' = "wait"
    /\ UNCHANGED <<maps, todo, ticks, queueVars, workVars, mailVars>>

\* The maps for which CanUnload holds are removed and unloaded.
UnloadMaps ==
    /\ mainPc = "unload"
    /\ maps' \in SUBSET maps
    /\ mainPc' = "between"
    /\ UNCHANGED <<todo, ticks, queueVars, workVars, mailVars>>
-----------------------------------------------------------------------------
(* World thread: MapManager::UnloadAll and MapUpdater::deactivate.          *)

UnloadAll ==
    /\ mainPc = "between"
    /\ maps' = {}
    /\ mainPc' = IF activated THEN "deactivate" ELSE "stopped"
    /\ UNCHANGED <<todo, ticks, queueVars, workVars, mailVars>>

\* Mutant: deactivate cancels the queue before it sets the token.
CancelBeforeToken ==
    \/ /\ mainPc = "deactivate"
       /\ shutdown' = TRUE /\ queue' = <<>> /\ idle' = {}
       /\ mainPc' = "cancel"
       /\ UNCHANGED <<activated, maps, todo, ticks, token, pending, workVars, mailVars>>
    \/ /\ mainPc = "cancel"
       /\ token' = TRUE
       /\ mainPc' = "join"
       /\ UNCHANGED <<activated, maps, todo, ticks, queue, idle, shutdown, pending, workVars, mailVars>>

\* Mutant: Cancel wakes no thread.
CancelSilently ==
    \/ /\ mainPc = "deactivate"
       /\ token' = TRUE
       /\ mainPc' = "cancel"
       /\ UNCHANGED <<activated, maps, todo, ticks, queue, idle, shutdown, pending, workVars, mailVars>>
    \/ /\ mainPc = "cancel"
       /\ shutdown' = TRUE /\ queue' = <<>> /\ UNCHANGED idle
       /\ mainPc' = "join"
       /\ UNCHANGED <<activated, maps, todo, ticks, token, pending, workVars, mailVars>>

\* _cancelationToken = true, then ProducerConsumerQueue::Cancel.
CancelQueue ==
    \/ /\ mainPc = "deactivate"
       /\ token' = TRUE
       /\ mainPc' = "cancel"
       /\ UNCHANGED <<activated, maps, todo, ticks, queue, idle, shutdown, pending, workVars, mailVars>>
    \/ /\ mainPc = "cancel"
       /\ shutdown' = TRUE /\ queue' = <<>> /\ idle' = {}
       /\ mainPc' = "join"
       /\ UNCHANGED <<activated, maps, todo, ticks, token, pending, workVars, mailVars>>

Join ==
    /\ mainPc = "join"
    /\ \A w \in Workers : at[w] = "done"
    /\ mainPc' = "stopped"
    /\ UNCHANGED <<maps, todo, ticks, queueVars, workVars, mailVars>>

Stopped == mainPc = "stopped" /\ UNCHANGED vars
-----------------------------------------------------------------------------
(* Worker threads: MapUpdater::WorkerThread.                               *)

\* ProducerConsumerQueue::WaitAndPop, whenever its thread holds the lock.
WaitAndPop(w) ==
    /\ activated /\ at[w] = "pop" /\ w \notin idle
    /\ \/ /\ shutdown
          /\ Go(w, "test")
          /\ UNCHANGED <<queue, idle, request>>
       \/ /\ ~shutdown /\ queue # <<>>
          /\ request' = [request EXCEPT ![w] = Head(queue)]
          /\ queue' = Tail(queue)
          /\ Go(w, "test")
          /\ UNCHANGED idle
       \/ /\ ~shutdown /\ queue = <<>>
          /\ idle' = idle \cup {w}
          /\ UNCHANGED <<queue, at, request>>
    /\ UNCHANGED <<activated, mainVars, shutdown, token, pending, mailVars>>

WakeForNothing(w) ==
    /\ w \in idle
    /\ idle' = idle \ {w}
    /\ UNCHANGED <<activated, mainVars, queue, shutdown, token, pending, workVars, mailVars>>

TestToken(w) ==
    /\ at[w] = "test"
    /\ \/ token /\ Go(w, "done") /\ request' = [request EXCEPT ![w] = NoMap]
       \/ ~token /\ Go(w, "update") /\ UNCHANGED request
    /\ UNCHANGED <<mainVars, queueVars, mailVars>>

\* Mutant: Messager::Execute copies the messages and leaves them there.
CopyMessages(t) ==
    /\ at[t] = "update" /\ request[t] # NoMap
    /\ taken' = [taken EXCEPT ![request[t]] = mail[request[t]]]
    /\ Go(t, "run")
    /\ UNCHANGED <<mainVars, queueVars, request, mail, ran, posted>>

\* Map::Update starts: Messager::Execute swaps the messages out.
SwapMessages(t) ==
    /\ at[t] = "update" /\ request[t] # NoMap
    /\ taken' = [taken EXCEPT ![request[t]] = mail[request[t]]]
    /\ mail' = [mail EXCEPT ![request[t]] = <<>>]
    /\ Go(t, "run")
    /\ UNCHANGED <<mainVars, queueVars, request, ran, posted>>

RunMessage(t) ==
    /\ at[t] = "run"
    /\ LET m == request[t] IN
          /\ taken[m] # <<>>
          /\ ran' = [ran EXCEPT ![m] = Head(taken[m])]
          /\ taken' = [taken EXCEPT ![m] = Tail(@)]
    /\ UNCHANGED <<mainVars, queueVars, workVars, mail, posted>>

\* The rest of Map::Update.
EndMapUpdate(t) ==
    /\ at[t] = "run" /\ taken[request[t]] = <<>>
    /\ Go(t, IF t = Main THEN "pop" ELSE "finish")
    /\ request' = [request EXCEPT ![t] = NoMap]
    /\ UNCHANGED <<mainVars, queueVars, mailVars>>

\* MapUpdater::update_finished, and back to WaitAndPop.
UpdateFinished(w) ==
    /\ at[w] = "finish"
    /\ pending' = pending - 1
    /\ mainPc' = IF mainPc = "asleep" THEN "wait" ELSE mainPc
    /\ Go(w, "pop")
    /\ UNCHANGED <<activated, maps, todo, ticks, queue, idle, shutdown, token, request, mailVars>>
-----------------------------------------------------------------------------
MapUpdate(t) == SwapMessages(t) \/ RunMessage(t) \/ EndMapUpdate(t)

Work(w) == WaitAndPop(w) \/ TestToken(w) \/ MapUpdate(w) \/ UpdateFinished(w)

InUpdate == \/ ScheduleUpdate \/ UpdateInLine \/ MapUpdate(Main) \/ AllScheduled
            \/ Wait \/ UnloadMaps

Deactivate == CancelQueue \/ Join

Next == \/ \E m \in Maps : CreateMap(m)
        \/ \E t \in Threads, m \in Maps : AddMessage(t, m)
        \/ BeginUpdate \/ InUpdate \/ SpuriousWake
        \/ UnloadAll \/ Deactivate \/ Stopped
        \/ \E w \in Workers : Work(w) \/ WakeForNothing(w)

Spec == Init /\ [][Next]_vars

\* The operating system schedules every thread that is not asleep.
FairSpec == Spec /\ WF_vars(InUpdate) /\ WF_vars(Deactivate)
                 /\ \A w \in Workers : WF_vars(Work(w))
-----------------------------------------------------------------------------
(* Properties.                                                             *)

Updating == {t \in Threads : at[t] \in {"test", "update", "run"} /\ request[t] # NoMap}

TypeOK ==
    /\ activated \in BOOLEAN
    /\ maps \in SUBSET Maps /\ todo \in SUBSET Maps
    /\ mainPc \in {"between", "schedule", "wait", "asleep", "unload",
                   "deactivate", "cancel", "join", "stopped"}
    /\ queue \in Seq(Maps)
    /\ idle \in SUBSET Workers
    /\ shutdown \in BOOLEAN /\ token \in BOOLEAN
    /\ pending \in Nat
    /\ at \in [Threads -> {"pop", "test", "update", "run", "finish", "done"}]
    /\ request \in [Threads -> Maps \cup {NoMap}]
    /\ mail \in [Maps -> Seq(Nat)] /\ taken \in [Maps -> Seq(Nat)]
    /\ ran \in [Maps -> Nat] /\ posted \in [Maps -> Nat]
    /\ ticks \in 0..MaxTicks

\* No map is updated by two threads at once, none is updated after it was
\* unloaded, and the world thread does nothing else while one is updated.
UpdatesExclusive ==
    /\ \A t, u \in Updating : request[t] = request[u] => t = u
    /\ \A t \in Updating : request[t] \in maps
    /\ Updating # {} => mainPc \in {"schedule", "wait", "asleep"}

\* A worker that got no request ends: deactivate sets the token before Cancel,
\* or WorkerThread would call execute() on a null request.
NoNullRequest == \A w \in Workers : at[w] = "update" => request[w] # NoMap

\* Every message posted to a map is run exactly once, in the order posted, and
\* by the thread that updates the map.
MessagesInOrder ==
    \A m \in maps :
        /\ taken[m] \o mail[m] = [i \in 1..(posted[m] - ran[m]) |-> ran[m] + i]
        /\ taken[m] # <<>> => \E t \in Updating : request[t] = m

\* pending_requests counts exactly what is queued or in a worker's hands.
PendingCounts ==
    pending = Len(queue) + Cardinality({w \in Workers : at[w] = "finish" \/ w \in Updating})

\* Every update of the map manager ends, and so does the halt of the workers.
UpdateEnds == mainPc = "schedule" ~> mainPc = "between"

HaltEnds == mainPc = "deactivate" ~> mainPc = "stopped"

\* The threads implement the ticks: a map is due from the start of the tick to
\* the end of its update.
Ticks == INSTANCE MapTicks WITH
    loaded <- maps,
    due <- todo \cup {queue[i] : i \in DOMAIN queue} \cup {request[t] : t \in Updating},
    mode <- IF mainPc = "between" THEN "between"
            ELSE IF mainPc \in {"deactivate", "cancel", "join", "stopped"} THEN "stopped"
            ELSE "ticking"

ImplementsTicks == Ticks!Spec
=============================================================================
