------------------------------ MODULE BidEngine ------------------------------
(***************************************************************************)
(* The life of the process (common/bidbase.cpp): worker threads that       *)
(* accept and serve requests, the updater threads of the two double        *)
(* buffers, the log and counter threads, and the main thread, which sleeps *)
(* until the run flag is cleared and then takes everything down.           *)
(*                                                                         *)
(* Workers are cancelled asynchronously, at any instruction: a cancelled   *)
(* worker keeps whatever mutex it owns and whatever snapshot it holds.     *)
(* A worker is therefore a list of critical sections, each entered and     *)
(* left in steps of their own.  The readers of a buffer are the workers    *)
(* that hold it: the counting itself is the matter of module DoubleCache.  *)
(*                                                                         *)
(* Two things go on past the stop that the code does not guard against.    *)
(* Uninit deletes the table of locations before it cancels or joins a      *)
(* worker, and a worker that still looks a location up reads freed memory. *)
(* A thread that talks to Redis waits for an answer without a limit.       *)
(***************************************************************************)
EXTENDS Naturals, Sequences

CONSTANTS NWorkers,     \* cpu_count: the length of the vector works
          MaxRequests,  \* bound: how many requests the web server hands over
          Kinds,        \* bound: the kinds of request it hands over
          Reloaded,     \* bound: the caches reloaded before the stop
          Free          \* an owner that is nobody, a snapshot that is none

ASSUME EngineAssumption ==
    /\ NWorkers \in Nat \ {0}
    /\ MaxRequests \in Nat
    /\ Kinds \subseteq {"dump", "refused", "bid"}
    /\ Free \notin 1..NWorkers /\ Free \notin {"current", "idle"}

Workers == 1..NWorkers
Caches == {"data", "ctrl"}
Queues == {"log", "queue", "record"}
Locks == {"accept", "resp"} \cup Queues \cup Caches

VARIABLES
    runFlag,    \* BidContext::run_flag
    wst,        \* the state of each worker thread
    todo,       \* the critical sections it has still to go through
    inside,     \* whether it is inside the first of them
    held,       \* held[w][c]: the buffer of cache c it has a pointer to: is
                \* it the one that _cur names, or the idle one?
    cancelled,  \* the workers to which Thread::term sent a cancellation
    owner,      \* the worker that owns each lock
    upd,        \* where the updater of each cache is
    helper,     \* the threads of log_local, log_server and record_count
    crashed,    \* whether a worker has brought the process down
    lastTurn,   \* history: the workers still in the turn of the request loop
                \* that they were in when the flag was cleared
    main,       \* where the main thread is, and which worker it is stopping
    requests    \* how many requests were accepted so far

lateVars == <<crashed, lastTurn>>
workerVars == <<wst, todo, inside, held, owner, lateVars>>
helperVars == <<upd, helper>>
vars == <<runFlag, workerVars, cancelled, helperVars, main, requests>>

\* What a request makes a worker do, as the locks it takes one after another:
\* a debug request is answered from the snapshots; a request that fails its
\* checks is refused; the others are logged, and those that win are counted.
\* The lock of SendSwitch and the lines a worker logs when it starts and ends
\* are left out: each is taken and given back with no other lock in between.
\* log stands for the many calls of WriteOnce and the last FlushOnce; locate
\* looks the address up and takes no lock.  A request that is refused before
\* that goes on like one for which the lookup went well.
Steps(kind) ==
    CASE kind = "dump"    -> <<"getData", "getCtrl", "putData", "putCtrl", "resp">>
      [] kind = "refused" -> <<"getCtrl", "getData", "locate", "resp", "putData", "putCtrl", "log">>
      [] kind = "bid"     -> <<"getCtrl", "getData", "locate", "log", "resp", "queue",
                               "putData", "putCtrl", "record", "log">>

LockOf(step) ==
    IF step \in {"getData", "putData"} THEN "data"
    ELSE IF step \in {"getCtrl", "putCtrl"} THEN "ctrl" ELSE step

\* The engine after Init and StartWork.
Init ==
    /\ runFlag = TRUE
    /\ wst = [w \in Workers |-> "new"]
    /\ todo = [w \in Workers |-> <<>>]
    /\ inside = [w \in Workers |-> FALSE]
    /\ held = [w \in Workers |-> [c \in Caches |-> Free]]
    /\ cancelled = {}
    /\ owner = [l \in Locks |-> Free]
    /\ upd = [c \in Caches |-> "sleep"]
    /\ helper = [q \in Queues |-> "run"]
    /\ crashed = FALSE /\ lastTurn = {}
    /\ main = <<"monitor", 0>>
    /\ requests = 0

\* The workers that look at the idle buffer of cache c.
IdleReaders(c) == {w \in Workers : held[w][c] = "idle"}

Alive(w) == wst[w] \notin {"exit", "dead"}

\* Nobody has the lock: no worker, and not the counter thread in its drain.
Available(l) == owner[l] = Free /\ (l = "record" => helper[l] # "drain")

Release(w) ==
    /\ owner' = [owner EXCEPT ![LockOf(Head(todo[w]))] = Free]
    /\ inside' = [inside EXCEPT ![w] = FALSE]

At(where) == main[1] = where

MainOnly(next) ==
    /\ main' = next
    /\ UNCHANGED <<runFlag, workerVars, cancelled, helperVars, requests>>
------------------------------------------------------------------------------
(* Seeded faults: wrong variants of the actions below, each of which must   *)
(* break a property.                                                        *)

\* run does not look at the flag before its loop but starts to accept.
StartUnchecked(w) ==
    /\ wst[w] = "new"
    /\ wst' = [wst EXCEPT ![w] = "busy"]
    /\ todo' = [todo EXCEPT ![w] = <<"accept">>]
    /\ UNCHANGED <<runFlag, inside, held, owner, lateVars, cancelled, helperVars, main, requests>>

\* An error of FCGX_Accept_r ends the worker before the mutex is unlocked.
AcceptErrorKeepsMutex(w) ==
    /\ wst[w] = "busy" /\ inside[w] /\ Head(todo[w]) = "accept"
    /\ \/ /\ requests < MaxRequests
          /\ requests' = requests + 1
          /\ \E kind \in Kinds : todo' = [todo EXCEPT ![w] = Steps(kind)]
          /\ Release(w)
          /\ UNCHANGED wst
       \/ /\ todo' = [todo EXCEPT ![w] = <<>>]
          /\ wst' = [wst EXCEPT ![w] = "exit"]
          /\ UNCHANGED <<owner, inside, requests>>
    /\ UNCHANGED <<runFlag, held, lateVars, cancelled, helperVars, main>>

\* The idle buffer is reloaded at once.
UpdWaitSwapAtOnce(c) ==
    /\ upd[c] = "poll"
    /\ upd' = [upd EXCEPT ![c] = "update"]
    /\ UNCHANGED <<runFlag, workerVars, cancelled, helper, main, requests>>

\* The request loop does not look at the flag any more.
LoopUnchecked(w) ==
    /\ wst[w] = "top"
    /\ wst' = [wst EXCEPT ![w] = "busy"]
    /\ todo' = [todo EXCEPT ![w] = <<"accept">>]
    /\ UNCHANGED <<runFlag, inside, held, owner, lateVars, cancelled, helperVars, main, requests>>
------------------------------------------------------------------------------
(* BidWork::run *)

\* The thread starts; it serves nothing when the engine is stopping already.
Start(w) ==
    /\ wst[w] = "new"
    /\ wst' = [wst EXCEPT ![w] = IF runFlag THEN "top" ELSE "exit"]
    /\ UNCHANGED <<runFlag, todo, inside, held, owner, lateVars, cancelled, helperVars, main, requests>>

\* The head of the request loop.
LoopOrExit(w) ==
    /\ wst[w] = "top"
    /\ IF runFlag
       THEN /\ wst' = [wst EXCEPT ![w] = "busy"]
            /\ todo' = [todo EXCEPT ![w] = <<"accept">>]
       ELSE /\ wst' = [wst EXCEPT ![w] = "exit"]
            /\ UNCHANGED todo
    /\ UNCHANGED <<runFlag, inside, held, owner, lateVars, cancelled, helperVars, main, requests>>

EnterSection(w) ==
    /\ wst[w] = "busy" /\ ~inside[w] /\ Head(todo[w]) # "locate"
    /\ Available(LockOf(Head(todo[w])))
    /\ owner' = [owner EXCEPT ![LockOf(Head(todo[w]))] = w]
    /\ inside' = [inside EXCEPT ![w] = TRUE]
    /\ UNCHANGED <<runFlag, wst, todo, held, lateVars, cancelled, helperVars, main, requests>>

\* FCGX_Accept_r returns, under accept_mutex, with a request or an error.
Accepted(w) ==
    /\ wst[w] = "busy" /\ inside[w] /\ Head(todo[w]) = "accept"
    /\ Release(w)
    /\ \/ /\ requests < MaxRequests
          /\ requests' = requests + 1
          /\ \E kind \in Kinds :
                todo' = [todo EXCEPT ![w] = Steps(kind)]
          /\ UNCHANGED wst
       \/ /\ todo' = [todo EXCEPT ![w] = <<>>]
          /\ wst' = [wst EXCEPT ![w] = "exit"]
          /\ UNCHANGED requests
    /\ UNCHANGED <<runFlag, held, lateVars, cancelled, helperVars, main>>

\* The section does its work and ends; after the last one the loop restarts.
LeaveSection(w) ==
    /\ wst[w] = "busy" /\ inside[w] /\ Head(todo[w]) # "accept"
    /\ Release(w)
    /\ LET step == Head(todo[w])
           c    == LockOf(step)
       IN held' = IF step \in {"getData", "getCtrl"} THEN [held EXCEPT ![w][c] = "current"]
                  ELSE IF step \in {"putData", "putCtrl"} THEN [held EXCEPT ![w][c] = Free]
                  ELSE held
    /\ todo' = [todo EXCEPT ![w] = Tail(@)]
    /\ wst' = [wst EXCEPT ![w] = IF Len(todo[w]) = 1 THEN "top" ELSE "busy"]
    /\ lastTurn' = IF Len(todo[w]) = 1 THEN lastTurn \ {w} ELSE lastTurn
    /\ UNCHANGED <<runFlag, crashed, cancelled, helperVars, main, requests>>

\* The table of locations was deleted by the main thread.
Closed == ~At("monitor")

\* CheckCommonReq, or the adapter, looks up where the device is.  Once the
\* table is deleted this may go on with any location, or crash the process.
Locate(w) ==
    /\ wst[w] = "busy" /\ Head(todo[w]) = "locate"
    /\ todo' = [todo EXCEPT ![w] = Tail(@)]
    /\ crashed' \in (IF Closed THEN BOOLEAN ELSE {FALSE})
    /\ UNCHANGED <<runFlag, wst, inside, held, owner, lastTurn, cancelled, helperVars, main, requests>>

\* The cancellation takes effect, wherever the worker is: it waits for a
\* mutex, sits in FCGX_Accept_r or owns a lock and a snapshot.
Die(w) ==
    /\ w \in cancelled
    /\ Alive(w)
    /\ wst' = [wst EXCEPT ![w] = "dead"]
    /\ UNCHANGED <<runFlag, todo, inside, held, owner, lateVars, cancelled, helperVars, main, requests>>
------------------------------------------------------------------------------
(* DoubleCache::run for each cache; Update writes to log_local. *)

UpdWake(c) ==
    /\ upd[c] = "sleep"
    /\ runFlag => c \in Reloaded
    /\ upd' = [upd EXCEPT ![c] = IF runFlag THEN "poll" ELSE "done"]
    /\ UNCHANGED <<runFlag, workerVars, cancelled, helper, main, requests>>

UpdWaitSwap(c) ==
    /\ upd[c] = "poll"
    /\ IdleReaders(c) = {}
    /\ upd' = [upd EXCEPT ![c] = "update"]
    /\ UNCHANGED <<runFlag, workerVars, cancelled, helper, main, requests>>

\* Redis has answered the last command of the load, which may take for ever.
\* A load that fails is not swapped in.
UpdUpdate(c) ==
    /\ upd[c] = "update"
    /\ Available("log")
    /\ \E next \in {"swap", "sleep"} : upd' = [upd EXCEPT ![c] = next]
    /\ UNCHANGED <<runFlag, workerVars, cancelled, helper, main, requests>>

\* What a pointer is after the two buffers have changed places.
Swapped(buffer) ==
    IF buffer = "current" THEN "idle" ELSE IF buffer = "idle" THEN "current" ELSE buffer

UpdSwap(c) ==
    /\ upd[c] = "swap"
    /\ owner[c] = Free
    /\ held' = [w \in Workers |-> [held[w] EXCEPT ![c] = Swapped(@)]]
    /\ upd' = [upd EXCEPT ![c] = "sleep"]
    /\ UNCHANGED <<runFlag, wst, todo, inside, owner, lateVars, cancelled, helper, main, requests>>

\* The thread of a queue: when the flag is cleared it drains the queue under
\* the queue's lock and returns.  The drains of the logs wait for nothing.
HelperExit(q) ==
    /\ q # "record"
    /\ helper[q] = "run" /\ ~runFlag
    /\ owner[q] = Free
    /\ helper' = [helper EXCEPT ![q] = "done"]
    /\ UNCHANGED <<runFlag, workerVars, cancelled, upd, main, requests>>

\* The counter thread talks to the cluster, in its loop and, with the lock of
\* its queue, in its drain.  Each of these steps begins when it has the answer
\* to its last command; it waits for it, or in GetConnection, without a limit.
CounterDrains ==
    /\ helper["record"] = "run" /\ ~runFlag
    /\ owner["record"] = Free
    /\ helper' = [helper EXCEPT !["record"] = "drain"]
    /\ UNCHANGED <<runFlag, workerVars, cancelled, upd, main, requests>>

CounterExit ==
    /\ helper["record"] = "drain"
    /\ helper' = [helper EXCEPT !["record"] = "done"]
    /\ UNCHANGED <<runFlag, workerVars, cancelled, upd, main, requests>>
------------------------------------------------------------------------------
(* The main thread: Monitor, then Uninit *)

\* SIGINT or SIGTERM, at any time.
StopBid ==
    /\ runFlag
    /\ runFlag' = FALSE
    /\ lastTurn' = {w \in Workers : wst[w] = "busy"}
    /\ UNCHANGED <<wst, todo, inside, held, owner, crashed, cancelled, helperVars, main, requests>>

\* Monitor has seen the flag, and Uninit begins with closeIPB: the workers are
\* still at work.
CloseTable == At("monitor") /\ ~runFlag /\ MainOnly(<<"term", 1>>)

\* term cancels a thread only while it runs, not before and not after.
TermWorker ==
    /\ At("term")
    /\ cancelled' = IF wst[main[2]] \in {"top", "busy"} THEN cancelled \cup {main[2]} ELSE cancelled
    /\ main' = <<"join", main[2]>>
    /\ UNCHANGED <<runFlag, workerVars, helperVars, requests>>

JoinWorker ==
    /\ At("join")
    /\ ~Alive(main[2])
    /\ MainOnly(IF main[2] < NWorkers THEN <<"term", main[2] + 1>> ELSE <<"uninitData", 0>>)

UninitData == At("uninitData") /\ upd["data"] = "done" /\ MainOnly(<<"uninitCtrl", 0>>)

UninitCtrl == At("uninitCtrl") /\ upd["ctrl"] = "done" /\ MainOnly(<<"uninitLog", 0>>)

\* LocalLog::Uninit waits 100 ms at most, then Uninit joins without a limit.
UninitLog == At("uninitLog") /\ helper["log"] = "done" /\ MainOnly(<<"joinServer", 0>>)

JoinServer == At("joinServer") /\ helper["queue"] = "done" /\ MainOnly(<<"joinCount", 0>>)

JoinCount == At("joinCount") /\ helper["record"] = "done" /\ MainOnly(<<"end", 0>>)

Uninit ==
    CloseTable \/ TermWorker \/ JoinWorker \/ UninitData \/ UninitCtrl \/ UninitLog \/ JoinServer \/ JoinCount
------------------------------------------------------------------------------
WorkerStep(w) == Start(w) \/ LoopOrExit(w) \/ EnterSection(w) \/ LeaveSection(w) \/ Locate(w)

CacheStep(c) == UpdWake(c) \/ UpdWaitSwap(c) \/ UpdSwap(c)

\* What the threads do by themselves.
ThreadStep ==
  /\ ~crashed
  /\ \/ \E w \in Workers : WorkerStep(w) \/ Die(w)
     \/ \E c \in Caches : CacheStep(c)
     \/ \E q \in Queues : HelperExit(q)
     \/ Uninit

\* What others do: a signal arrives, the web server answers FCGX_Accept_r,
\* Redis answers.
Environment ==
  /\ ~crashed
  /\ \/ StopBid
     \/ \E w \in Workers : Accepted(w)
     \/ \E c \in Caches : UpdUpdate(c)
     \/ CounterDrains \/ CounterExit

Finished == At("end") /\ UNCHANGED vars

Next == ThreadStep \/ Environment \/ Finished

Spec == Init /\ [][Next]_vars

\* While some thread can run, one of them runs.  After the flag is cleared
\* every thread has a bounded number of steps left, so nothing stronger is
\* needed.  A worker may sit in FCGX_Accept_r for ever, and nothing makes
\* Redis answer.
FairSpec == Spec /\ WF_vars(ThreadStep)
------------------------------------------------------------------------------
\* A worker that was cancelled while it owned one of these locks, or while it
\* held a snapshot, leaves something behind that a later join waits for.
Orphan(w) ==
    /\ wst[w] = "dead"
    /\ \/ \E l \in Locks \ {"accept", "resp"} : owner[l] = w
       \/ \E c \in Caches : held[w][c] # Free

\* The main thread joins a thread that waits for Redis.
AwaitsRedis ==
    \/ At("uninitData") /\ upd["data"] = "update"
    \/ At("uninitCtrl") /\ upd["ctrl"] = "update"
    \/ At("joinCount")  /\ helper["record"] # "done"

\* Once the flag is cleared the process comes down, workers blocked in accept
\* or on accept_mutex included, unless a cancelled worker left a snapshot or
\* one of the shared locks behind, a thread that is joined waits for Redis for
\* ever, or a worker crashed on the deleted table: then, and only then, does
\* it hang, or end by that crash.
ShutdownEnds ==
    ~runFlag ~> (At("end") \/ crashed \/ []AwaitsRedis \/ \E w \in Workers : Orphan(w))

\* The variables keep their shape, and a worker that serves a request has a
\* critical section ahead: run never falls off the list of its steps.
TypeOK ==
    /\ runFlag \in BOOLEAN
    /\ wst \in [Workers -> {"new", "top", "busy", "exit", "dead"}]
    /\ inside \in [Workers -> BOOLEAN]
    /\ held \in [Workers -> [Caches -> {"current", "idle", Free}]]
    /\ cancelled \subseteq Workers
    /\ owner \in [Locks -> Workers \cup {Free}]
    /\ upd \in [Caches -> {"sleep", "poll", "update", "swap", "done"}]
    /\ helper \in [Queues -> {"run", "drain", "done"}]
    /\ crashed \in BOOLEAN /\ lastTurn \subseteq Workers
    /\ main[2] \in 0..NWorkers
    /\ requests \in 0..MaxRequests
    /\ \A w \in Workers : wst[w] = "busy" => todo[w] # <<>>

\* A worker that still serves after the stop is in the turn of its loop that
\* it was in when the flag was cleared, a request that it accepts late
\* included, and begins no other; what Uninit takes down behind the workers,
\* the caches, the logs and the queues, is still there; and the main thread
\* joins it only after it has cancelled it.  So the deleted table is met in
\* such a turn or not at all, and nobody joins a worker that sits in accept.
OneTurnAfterStop ==
    ~runFlag => \A w \in Workers : wst[w] = "busy" =>
        /\ w \in lastTurn
        /\ Closed => main[1] \in {"term", "join"} /\ w >= main[2]
        /\ main = <<"join", w>> => w \in cancelled

\* The buffer that an updater reloads and swaps in is not one a request still
\* looks at, whichever request it is and however long ago it began.
UpdateAside ==
    \A c \in Caches : upd[c] \in {"update", "swap"} => IdleReaders(c) = {}

\* Only cancellation leaves something behind: a worker that came to its end
\* by itself owns no lock and holds no snapshot, and as long as the engine
\* serves, every lock that is taken belongs to a worker that is still there.
NothingLeftBehind ==
    /\ \A w \in Workers : wst[w] = "exit" =>
          /\ \A l \in Locks : owner[l] # w
          /\ \A c \in Caches : held[w][c] = Free
    /\ runFlag => \A l \in Locks : owner[l] # Free => Alive(owner[l])

\* What this module takes for granted of a cache: the buffers pass between
\* the workers and the updater as DoubleCache has them pass.
Handover(c) == INSTANCE BufferHandover WITH
    stopped <- ~runFlag,
    held    <- [w \in Workers |-> IF held[w][c] = Free THEN "none" ELSE held[w][c]],
    upd     <- upd[c]

CachesHandOver == \A c \in Caches : Handover(c)!Spec
==============================================================================
