--------------------------- MODULE BidEngineProofs ---------------------------
(***************************************************************************)
(* For any number of workers and of requests: updaters reload only what    *)
(* nobody looks at, only a cancelled worker leaves a lock or a snapshot    *)
(* behind, and after the stop a worker is in its last turn.  Every step    *)
(* then brings the engine nearer to its end, and one is always possible or *)
(* only Redis holds it up.  Each cache passes its buffers as DoubleCache   *)
(* does.                                                                   *)
(***************************************************************************)
EXTENDS BidEngine, TLAPS

StepNames == {"accept", "getData", "getCtrl", "putData", "putCtrl", "resp", "log", "queue", "record",
              "locate"}

Get(c) == IF c = "data" THEN "getData" ELSE "getCtrl"
Put(c) == IF c = "data" THEN "putData" ELSE "putCtrl"

\* The types of the variables, the remaining sections of a worker included.
\* Only the counter thread is seen in its drain.
Typed ==
    /\ TypeOK
    /\ todo \in [Workers -> Seq(StepNames)]
    /\ main = <<main[1], main[2]>>
    /\ main[1] \in {"term", "join"} => main[2] # 0
    /\ \A q \in Queues : helper[q] = "drain" => q = "record"

\* A worker has sections ahead while it serves and none before and after; it
\* is inside one of them, and accepts when there is nothing else to do; the
\* lookup is no section, and not the last thing it does.
InStep ==
    \A w \in Workers :
        /\ wst[w] \in {"new", "top", "exit"} => todo[w] = <<>>
        /\ wst[w] = "busy" => todo[w] # <<>>
        /\ inside[w] => todo[w] # <<>> /\ Head(todo[w]) # "locate"
        /\ \A i \in 1..Len(todo[w]) :
              /\ todo[w][i] = "accept" => Len(todo[w]) = 1
              /\ todo[w][i] = "locate" => i # Len(todo[w])

\* What a list of sections promises: whatever it takes it gives back later.
PutFollows(s) ==
    \A c \in Caches : \A i \in 1..Len(s) :
        s[i] = Get(c) => \E j \in 1..Len(s) : j > i /\ s[j] = Put(c)

\* A worker that holds a snapshot will give it back, if it is not cancelled.
GivesBack ==
    \A w \in Workers :
        /\ PutFollows(todo[w])
        /\ \A c \in Caches : held[w][c] # Free => \E i \in 1..Len(todo[w]) : todo[w][i] = Put(c)

\* Exactly the worker that is inside a section owns its lock.
Owned ==
    /\ \A w \in Workers : inside[w] => owner[LockOf(Head(todo[w]))] = w
    /\ \A l \in Locks : owner[l] # Free => /\ inside[owner[l]]
                                           /\ l = LockOf(Head(todo[owner[l]]))

\* Nobody is cancelled or dead before the main thread begins to stop.
Stopping ==
    /\ runFlag => main[1] = "monitor"
    /\ main[1] = "monitor" => cancelled = {}
    /\ \A w \in Workers : wst[w] = "dead" => w \in cancelled

\* The workers that were joined have ended, all of them before the caches go.
Joined ==
    /\ main[1] \in {"term", "join"} => \A w \in Workers : w < main[2] => ~Alive(w)
    /\ main[1] \notin {"monitor", "term", "join"} => \A w \in Workers : ~Alive(w)

\* What the updater of a cache and the other helpers do, Redis answering.
UpdaterStep(c) == CacheStep(c) \/ UpdUpdate(c)
HelperStep == CounterDrains \/ CounterExit \/ \E q \in Queues : HelperExit(q)
------------------------------------------------------------------------------
(* Lemmas on the lists of sections. *)

\* Every request gives back the snapshots it takes, and never accepts.
LEMMA StepsAreFair ==
    ASSUME NEW kind \in Kinds
    PROVE  /\ Steps(kind) \in Seq(StepNames) /\ Steps(kind) # <<>>
           /\ \A i \in 1..Len(Steps(kind)) :
                 Steps(kind)[i] # "accept" /\ (Steps(kind)[i] = "locate" => i # Len(Steps(kind)))
           /\ PutFollows(Steps(kind))
<1>0. kind \in {"dump", "refused", "bid"}
  BY EngineAssumption
<1>1. CASE kind = "dump"
  <2>1. Steps(kind) = <<"getData", "getCtrl", "putData", "putCtrl", "resp">>
    BY <1>1 DEF Steps
  <2> QED BY <2>1 DEF PutFollows, Get, Put, Caches, StepNames
<1>2. CASE kind = "refused"
  <2>1. Steps(kind) = <<"getCtrl", "getData", "locate", "resp", "putData", "putCtrl", "log">>
    BY <1>2 DEF Steps
  <2> QED BY <2>1 DEF PutFollows, Get, Put, Caches, StepNames
<1>3. CASE kind = "bid"
  <2>1. Steps(kind) = <<"getCtrl", "getData", "locate", "log", "resp", "queue",
                        "putData", "putCtrl", "record", "log">>
    BY <1>3 DEF Steps
  <2> QED BY <2>1 DEF PutFollows, Get, Put, Caches, StepNames
<1> QED BY <1>0, <1>1, <1>2, <1>3

\* Going through the first section leaves a list that gives back what it
\* takes, and anything promised by another section is still promised.
LEMMA TailIsFair ==
    ASSUME NEW s \in Seq(StepNames), s # <<>>, PutFollows(s)
    PROVE  /\ PutFollows(Tail(s))
           /\ \A p : (\E i \in 1..Len(s) : i > 1 /\ s[i] = p)
                        => \E i \in 1..Len(Tail(s)) : Tail(s)[i] = p
<1>1. /\ Len(Tail(s)) = Len(s) - 1
      /\ \A i \in 1..Len(Tail(s)) : Tail(s)[i] = s[i + 1]
  OBVIOUS
<1>2. PutFollows(Tail(s))
  <2> SUFFICES ASSUME NEW c \in Caches, NEW i \in 1..Len(Tail(s)), Tail(s)[i] = Get(c)
               PROVE  \E j \in 1..Len(Tail(s)) : j > i /\ Tail(s)[j] = Put(c)
    BY DEF PutFollows
  <2>1. s[i + 1] = Get(c) /\ i + 1 \in 1..Len(s)
    BY <1>1
  <2>2. PICK j \in 1..Len(s) : j > i + 1 /\ s[j] = Put(c)
    BY <2>1 DEF PutFollows
  <2>3. j - 1 \in 1..Len(Tail(s)) /\ j - 1 > i /\ Tail(s)[j - 1] = Put(c)
    BY <1>1, <2>2
  <2> QED BY <2>3
<1>3. ASSUME NEW p, NEW i \in 1..Len(s), i > 1, s[i] = p
      PROVE  \E k \in 1..Len(Tail(s)) : Tail(s)[k] = p
  <2>1. i - 1 \in 1..Len(Tail(s)) /\ Tail(s)[i - 1] = p
    BY <1>1, <1>3
  <2> QED BY <2>1
<1> QED BY <1>2, <1>3

\* The lock of every section is one of the locks.
LEMMA LocksOfSteps == \A step \in StepNames \ {"locate"} : LockOf(step) \in Locks
BY DEF StepNames, LockOf, Locks, Queues, Caches

\* The first section of a list that is not empty, and what is behind it.
LEMMA FirstOf ==
    ASSUME NEW s \in Seq(StepNames), s # <<>>
    PROVE  Head(s) \in StepNames /\ Head(s) = s[1] /\ Tail(s) \in Seq(StepNames) /\ Len(s) \in Nat \ {0}
OBVIOUS

\* What is behind the first section.
LEMMA TailOf ==
    ASSUME NEW s \in Seq(StepNames), s # <<>>
    PROVE  /\ Tail(s) \in Seq(StepNames)
           /\ Len(Tail(s)) = Len(s) - 1
           /\ Len(s) = 1 <=> Tail(s) = <<>>
           /\ \A i \in 1..Len(Tail(s)) : Tail(s)[i] = s[i + 1] /\ i + 1 \in 1..Len(s)
<1>1. Tail(s) \in Seq(StepNames) /\ Len(Tail(s)) = Len(s) - 1
  OBVIOUS
<1>2. \A i \in 1..Len(Tail(s)) : Tail(s)[i] = s[i + 1] /\ i + 1 \in 1..Len(s)
  OBVIOUS
<1>3. \A t \in Seq(StepNames) : Len(t) = 0 <=> t = <<>>
  OBVIOUS
<1> QED BY <1>1, <1>2, <1>3
------------------------------------------------------------------------------
\* The variables keep their shape, and run never falls off its list.
THEOREM SectionsInOrder == Spec => [](Typed /\ InStep)
<1> DEFINE I == Typed /\ InStep
<1>1. Init => I
  <2>. SUFFICES ASSUME Init PROVE I
    OBVIOUS
  <2>. USE EngineAssumption DEF Init
  <2>1. TypeOK
    <3>1. crashed \in BOOLEAN /\ lastTurn \subseteq Workers /\ runFlag \in BOOLEAN
      OBVIOUS
    <3>2. main[2] \in 0..NWorkers /\ requests \in 0..MaxRequests
      OBVIOUS
    <3>3. /\ wst \in [Workers -> {"new", "top", "busy", "exit", "dead"}]
          /\ inside \in [Workers -> BOOLEAN]
          /\ held \in [Workers -> [Caches -> {"current", "idle", Free}]]
          /\ owner \in [Locks -> Workers \cup {Free}]
          /\ upd \in [Caches -> {"sleep", "poll", "update", "swap", "done"}]
          /\ helper \in [Queues -> {"run", "drain", "done"}]
      OBVIOUS
    <3>. QED BY <3>1, <3>2, <3>3 DEF TypeOK
  <2>2. Typed
    BY <2>1 DEF Typed
  <2>3. InStep
    BY DEF InStep
  <2>. QED BY <2>2, <2>3
<1>2. I /\ [Next]_vars => I'
  <2> SUFFICES ASSUME Typed, InStep, [Next]_vars PROVE Typed' /\ InStep'
    OBVIOUS
  <2> USE DEF Typed, TypeOK, InStep
  <2>1. ASSUME NEW w \in Workers, Start(w) PROVE I'
    BY <2>1 DEF Start, helperVars, lateVars
  <2>2. ASSUME NEW w \in Workers, LoopOrExit(w) PROVE I'
    <3>1. /\ <<"accept">> \in Seq(StepNames) /\ <<"accept">> # <<>> /\ Len(<<"accept">>) = 1
          /\ <<"accept">>[1] # "locate"
      BY DEF StepNames
    <3>2. CASE runFlag
      <4>1. /\ wst' = [wst EXCEPT ![w] = "busy"] /\ todo' = [todo EXCEPT ![w] = <<"accept">>]
            /\ UNCHANGED <<runFlag, inside, held, owner, crashed, lastTurn, cancelled, upd, helper, main, requests>>
        BY <2>2, <3>2 DEF LoopOrExit, helperVars, lateVars
      <4> QED BY <2>2, <3>1, <4>1 DEF LoopOrExit
    <3>3. CASE ~runFlag
      <4>1. /\ wst' = [wst EXCEPT ![w] = "exit"] /\ wst[w] = "top"
            /\ UNCHANGED <<runFlag, todo, inside, held, owner, crashed, lastTurn, cancelled, upd, helper, main, requests>>
        BY <2>2, <3>3 DEF LoopOrExit, helperVars, lateVars
      <4> QED BY <4>1
    <3> QED BY <3>2, <3>3
  <2>3. ASSUME NEW w \in Workers, EnterSection(w) PROVE I'
    <3>1. LockOf(Head(todo[w])) \in Locks
      BY <2>3, FirstOf, LocksOfSteps DEF EnterSection
    <3> QED BY <2>3, <3>1 DEF EnterSection, helperVars, lateVars
  <2>4. ASSUME NEW w \in Workers, Accepted(w) PROVE I'
    <3>1. UNCHANGED <<runFlag, held, crashed, lastTurn, cancelled, upd, helper, main>>
      BY <2>4 DEF Accepted, helperVars, lateVars
    <3>2. /\ owner' \in [Locks -> Workers \cup {Free}]
          /\ inside' = [inside EXCEPT ![w] = FALSE]
      BY <2>4 DEF Accepted, Release
    <3>3. requests' \in 0..MaxRequests
      BY <2>4, EngineAssumption DEF Accepted
    <3>4. CASE wst' = wst
      <4>1. PICK kind \in Kinds : todo' = [todo EXCEPT ![w] = Steps(kind)]
        BY <2>4, <3>4 DEF Accepted
      <4> QED BY <2>4, <3>1, <3>2, <3>3, <3>4, <4>1, StepsAreFair DEF Accepted
    <3>5. CASE todo' = [todo EXCEPT ![w] = <<>>] /\ wst' = [wst EXCEPT ![w] = "exit"]
      <4>1. <<>> \in Seq(StepNames)
        OBVIOUS
      <4> QED BY <3>1, <3>2, <3>3, <3>5, <4>1
    <3> QED BY <2>4, <3>4, <3>5 DEF Accepted
  <2>5. ASSUME NEW w \in Workers, LeaveSection(w) PROVE I'
    <3> DEFINE s == todo[w]
    <3>1. /\ UNCHANGED <<runFlag, crashed, cancelled, upd, helper, main, requests>>
          /\ lastTurn' \subseteq Workers
          /\ owner' \in [Locks -> Workers \cup {Free}]
          /\ inside' = [inside EXCEPT ![w] = FALSE]
          /\ todo' = [todo EXCEPT ![w] = Tail(s)]
          /\ wst' = [wst EXCEPT ![w] = IF Len(s) = 1 THEN "top" ELSE "busy"]
      BY <2>5 DEF LeaveSection, Release, helperVars
    <3>2. held' \in [Workers -> [Caches -> {"current", "idle", Free}]]
      <4>1. CASE Head(s) \in {"getData", "getCtrl"}
        BY <2>5, <4>1 DEF LeaveSection, LockOf, Caches
      <4>2. CASE Head(s) \in {"putData", "putCtrl"}
        BY <2>5, <4>2 DEF LeaveSection, LockOf, Caches
      <4>3. CASE Head(s) \notin {"getData", "getCtrl", "putData", "putCtrl"}
        BY <2>5, <4>3 DEF LeaveSection
      <4> QED BY <4>1, <4>2, <4>3
    <3>3. s \in Seq(StepNames) /\ s # <<>> /\ Head(s) # "accept"
      BY <2>5 DEF LeaveSection
    <3>4. /\ Tail(s) \in Seq(StepNames)
          /\ Tail(s) = <<>> <=> Len(s) = 1
          /\ Len(Tail(s)) = Len(s) - 1
          /\ \A i \in 1..Len(Tail(s)) : Tail(s)[i] = s[i + 1] /\ i + 1 \in 1..Len(s)
      BY <3>3, TailOf
    <3>5. \A i \in 1..Len(s) : s[i] # "accept" /\ (s[i] = "locate" => i # Len(s))
      BY <3>3, FirstOf
    <3>6. \A i \in 1..Len(Tail(s)) : Tail(s)[i] # "accept" /\ (Tail(s)[i] = "locate" => i # Len(Tail(s)))
      BY <3>3, <3>4, <3>5
    <3>7. wst[w] = "busy" /\ s # <<>> /\ Len(s) \in Nat
      BY <2>5, <3>3 DEF LeaveSection
    <3> HIDE DEF s
    <3>8. todo' \in [Workers -> Seq(StepNames)]
      BY <3>1, <3>4
    <3>9. InStep' /\ \A v \in Workers : wst'[v] = "busy" => todo'[v] # <<>>
      <4>1. ASSUME NEW v \in Workers, v # w
            PROVE  wst'[v] = wst[v] /\ todo'[v] = todo[v] /\ inside'[v] = inside[v]
        BY <3>1, <4>1
      <4>2. /\ wst'[w] = (IF Tail(s) = <<>> THEN "top" ELSE "busy")
            /\ todo'[w] = Tail(s) /\ ~inside'[w]
        BY <3>1, <3>4
      <4>3. ASSUME NEW v \in Workers
            PROVE  /\ wst'[v] \in {"new", "top", "exit"} => todo'[v] = <<>>
                   /\ wst'[v] = "busy" => todo'[v] # <<>>
                   /\ inside'[v] => todo'[v] # <<>> /\ Head(todo'[v]) # "locate"
                   /\ \A i \in 1..Len(todo'[v]) :
                         /\ todo'[v][i] = "accept" => Len(todo'[v]) = 1
                         /\ todo'[v][i] = "locate" => i # Len(todo'[v])
        <5>1. CASE v = w
          BY <3>6, <4>2, <5>1
        <5>2. CASE v # w
          BY <4>1, <5>2
        <5> QED BY <5>1, <5>2
      <4> QED BY <4>3
    <3> QED BY <3>1, <3>2, <3>8, <3>9
  <2>12. ASSUME NEW w \in Workers, Locate(w) PROVE I'
    <3> DEFINE s == todo[w]
    <3>1. /\ UNCHANGED <<runFlag, wst, inside, held, owner, lastTurn, cancelled, upd, helper, main, requests>>
          /\ crashed' \in BOOLEAN
          /\ todo' = [todo EXCEPT ![w] = Tail(s)]
          /\ wst[w] = "busy" /\ ~inside[w]
      BY <2>12 DEF Locate, helperVars
    <3>2. s \in Seq(StepNames) /\ s # <<>> /\ s[1] = "locate" /\ 1 \in 1..Len(s)
      BY <2>12, <3>1, FirstOf DEF Locate
    <3>3. Len(s) # 1
      BY <3>2
    <3>4. /\ Tail(s) \in Seq(StepNames) /\ Tail(s) # <<>>
          /\ Len(Tail(s)) = Len(s) - 1 /\ Len(s) \in Nat
          /\ \A i \in 1..Len(Tail(s)) : Tail(s)[i] = s[i + 1] /\ i + 1 \in 1..Len(s)
      BY <3>2, <3>3, TailOf, FirstOf
    <3>5. \A i \in 1..Len(s) : s[i] # "accept" /\ (s[i] = "locate" => i # Len(s))
      BY <3>3
    <3>6. \A i \in 1..Len(Tail(s)) : Tail(s)[i] # "accept" /\ (Tail(s)[i] = "locate" => i # Len(Tail(s)))
      BY <3>4, <3>5
    <3> HIDE DEF s
    <3>7. ASSUME NEW v \in Workers
          PROVE  /\ wst'[v] \in {"new", "top", "exit"} => todo'[v] = <<>>
                 /\ wst'[v] = "busy" => todo'[v] # <<>>
                 /\ inside'[v] => todo'[v] # <<>> /\ Head(todo'[v]) # "locate"
                 /\ \A i \in 1..Len(todo'[v]) :
                       /\ todo'[v][i] = "accept" => Len(todo'[v]) = 1
                       /\ todo'[v][i] = "locate" => i # Len(todo'[v])
      <4>1. CASE v = w
        BY <3>1, <3>4, <3>6, <4>1
      <4>2. CASE v # w
        BY <3>1, <4>2
      <4> QED BY <4>1, <4>2
    <3> QED BY <3>1, <3>4, <3>7
  <2>6. ASSUME NEW w \in Workers, Die(w) PROVE I'
    BY <2>6 DEF Die, helperVars, Alive, lateVars
  <2>7. ASSUME NEW c \in Caches, UpdaterStep(c) PROVE I'
    <3>1. /\ UNCHANGED <<runFlag, wst, todo, inside, owner, crashed, lastTurn, cancelled, helper, main, requests>>
          /\ upd' \in [Caches -> {"sleep", "poll", "update", "swap", "done"}]
      <4>1. CASE UpdSwap(c)
        BY <4>1 DEF UpdSwap, lateVars
      <4>2. CASE UpdWake(c) \/ UpdWaitSwap(c)
        BY <4>2 DEF UpdWake, UpdWaitSwap, workerVars, lateVars
      <4>3. CASE UpdUpdate(c)
        BY <4>3 DEF UpdUpdate, workerVars, lateVars
      <4> QED BY <2>7, <4>1, <4>2, <4>3 DEF UpdaterStep, CacheStep
    <3>2. held' \in [Workers -> [Caches -> {"current", "idle", Free}]]
      <4>1. CASE UpdSwap(c)
        BY <4>1 DEF UpdSwap, Swapped
      <4>2. CASE UpdWake(c) \/ UpdWaitSwap(c) \/ UpdUpdate(c)
        BY <4>2 DEF UpdWake, UpdWaitSwap, UpdUpdate, workerVars
      <4> QED BY <2>7, <4>1, <4>2 DEF UpdaterStep, CacheStep
    <3> QED BY <3>1, <3>2
  <2>8. CASE HelperStep
    <3>1. UNCHANGED <<runFlag, wst, todo, inside, held, owner, crashed, lastTurn, cancelled, upd, main, requests>>
      BY <2>8 DEF HelperStep, HelperExit, CounterDrains, CounterExit, workerVars, lateVars
    <3>2. helper' \in [Queues -> {"run", "drain", "done"}] /\ \A q \in Queues : helper'[q] = "drain" => q = "record"
      <4>1. CASE \E q \in Queues : HelperExit(q)
        BY <4>1 DEF HelperExit
      <4>2. CASE CounterDrains
        BY <4>2 DEF CounterDrains
      <4>3. CASE CounterExit
        BY <4>3 DEF CounterExit
      <4> QED BY <2>8, <4>1, <4>2, <4>3 DEF HelperStep
    <3> QED BY <3>1, <3>2
  <2>9. CASE StopBid
    BY <2>9 DEF StopBid, helperVars
  <2>10. CASE Uninit
    <3>1. /\ UNCHANGED <<runFlag, wst, todo, inside, held, owner, crashed, lastTurn, upd, helper, requests>>
          /\ cancelled' = cancelled \/ (main[1] = "term" /\ cancelled' \in {cancelled, cancelled \cup {main[2]}})
      BY <2>10 DEF Uninit, CloseTable, TermWorker, JoinWorker, UninitData, UninitCtrl, UninitLog,
                   JoinServer, JoinCount, MainOnly, At, workerVars, helperVars, lateVars
    <3>2. \E p, n : /\ main' = <<p, n>> /\ n \in 0..NWorkers
                    /\ p \in {"term", "join"} => n # 0
      BY <2>10, EngineAssumption
         DEF Uninit, CloseTable, TermWorker, JoinWorker, UninitData, UninitCtrl, UninitLog,
             JoinServer, JoinCount, MainOnly, At
    <3> QED BY <3>1, <3>2 DEF Workers
  <2>11. CASE UNCHANGED vars
    BY <2>11 DEF vars, workerVars, helperVars, lateVars
  <2> QED BY <2>1, <2>2, <2>3, <2>4, <2>5, <2>6, <2>7, <2>8, <2>9, <2>10, <2>11, <2>12
          DEF Next, ThreadStep, WorkerStep, Environment, UpdaterStep, HelperStep, Finished
<1> QED BY <1>1, <1>2, PTL DEF Spec

\* The type invariant by itself.
THEOREM TypeCorrect == Spec => []TypeOK
BY SectionsInOrder, PTL DEF Typed

Served == Typed /\ InStep

\* A worker that accepts has nothing else ahead.
LEMMA AcceptsAlone ==
    ASSUME Served, NEW w \in Workers, wst[w] = "busy", Head(todo[w]) = "accept"
    PROVE  Len(todo[w]) = 1 /\ todo[w][1] = "accept"
<1>1. todo[w] \in Seq(StepNames) /\ todo[w] # <<>>
  BY DEF Served, Typed, InStep
<1>2. 1 \in 1..Len(todo[w]) /\ todo[w][1] = "accept"
  BY <1>1, FirstOf
<1> QED BY <1>2 DEF Served, InStep

\* Leaving a section, or the lookup, takes the first of the list away.
LEMMA FirstTakenAway ==
    ASSUME Served, NEW w \in Workers, LeaveSection(w) \/ Locate(w)
    PROVE  /\ todo[w] \in Seq(StepNames) /\ todo[w] # <<>>
           /\ Head(todo[w]) = todo[w][1] /\ 1 \in 1..Len(todo[w])
           /\ \A v \in Workers : v # w => todo'[v] = todo[v] /\ held'[v] = held[v]
           /\ todo'[w] = Tail(todo[w])
<1>1. todo[w] \in Seq(StepNames) /\ todo[w] # <<>>
  BY DEF LeaveSection, Locate, Served, Typed, InStep
<1>2. Head(todo[w]) = todo[w][1] /\ 1 \in 1..Len(todo[w])
  BY <1>1, FirstOf
<1>3. /\ todo \in [Workers -> Seq(StepNames)]
      /\ held \in [Workers -> [Caches -> {"current", "idle", Free}]]
  BY DEF Served, Typed, TypeOK
<1>4. CASE LeaveSection(w)
  BY <1>1, <1>2, <1>3, <1>4 DEF LeaveSection
<1>5. CASE Locate(w)
  BY <1>1, <1>2, <1>3, <1>5 DEF Locate
<1> QED BY <1>4, <1>5

\* What it does to the snapshots.
LEMMA SnapshotsMoved ==
    ASSUME Served, NEW w \in Workers, LeaveSection(w) \/ Locate(w), NEW c \in Caches
    PROVE  /\ todo[w][1] = Put(c) => held'[w][c] = Free
           /\ todo[w][1] \notin {Get(c), Put(c)} => held'[w][c] = held[w][c]
<1>1. held \in [Workers -> [Caches -> {"current", "idle", Free}]] /\ Head(todo[w]) = todo[w][1]
  BY FirstTakenAway DEF Served, Typed, TypeOK
<1>2. CASE LeaveSection(w)
  BY <1>1, <1>2 DEF LeaveSection, LockOf, Get, Put, Caches
<1>3. CASE Locate(w)
  BY <1>1, <1>3 DEF Locate, Put
<1> QED BY <1>2, <1>3

\* What the steps that touch neither sections nor locks leave alone.
LEMMA OthersKeepSections ==
    ASSUME Served,
           \/ \E w \in Workers : Start(w) \/ Die(w)
           \/ \E c \in Caches : UpdaterStep(c)
           \/ HelperStep
           \/ Uninit \/ StopBid \/ Finished \/ UNCHANGED vars
    PROVE  /\ UNCHANGED <<todo, inside, owner>>
           /\ \A w \in Workers : \A c \in Caches : held'[w][c] # Free => held[w][c] # Free
<1>1. ASSUME NEW c \in Caches, UpdaterStep(c)
      PROVE  /\ UNCHANGED <<todo, inside, owner>>
             /\ \A w \in Workers : \A d \in Caches : held'[w][d] # Free => held[w][d] # Free
  <2>1. CASE UpdSwap(c)
    <3>1. held \in [Workers -> [Caches -> {"current", "idle", Free}]]
      BY DEF Served, Typed, TypeOK
    <3> QED BY <2>1, <3>1, EngineAssumption DEF UpdSwap, Swapped
  <2>2. CASE UpdWake(c) \/ UpdWaitSwap(c) \/ UpdUpdate(c)
    BY <2>2 DEF UpdWake, UpdWaitSwap, UpdUpdate, workerVars
  <2> QED BY <1>1, <2>1, <2>2 DEF UpdaterStep, CacheStep
<1>2. ASSUME \/ \E w \in Workers : Start(w) \/ Die(w)
             \/ HelperStep
             \/ Uninit \/ StopBid \/ Finished \/ UNCHANGED vars
      PROVE  UNCHANGED <<todo, inside, held, owner>>
  BY <1>2 DEF Start, Die, HelperStep, HelperExit, CounterDrains, CounterExit, Uninit, CloseTable,
     TermWorker, JoinWorker, UninitData,
              UninitCtrl, UninitLog, JoinServer, JoinCount, MainOnly, StopBid, Finished, vars,
              workerVars, helperVars
<1> QED BY <1>1, <1>2

\* A lock is owned exactly by the worker that is inside its section, so no
\* two workers are ever inside sections of one lock.
THEOREM SectionsExclude == Spec => []Owned
<1>1. Init => Owned
  BY DEF Init, Owned
<1>2. Served /\ Owned /\ [Next]_vars => Owned'
  <2> SUFFICES ASSUME Served, Owned, [Next]_vars PROVE Owned'
    OBVIOUS
  <2> USE EngineAssumption DEF Owned, Workers
  <2>0. \A w \in Workers : inside[w] => LockOf(Head(todo[w])) \in Locks
    BY FirstOf, LocksOfSteps DEF Served, Typed, InStep
  <2>1. ASSUME NEW w \in Workers, LoopOrExit(w) PROVE Owned'
    <3>1. UNCHANGED <<inside, owner>> /\ ~inside[w] /\ \A v \in Workers : v # w => todo'[v] = todo[v]
      BY <2>1 DEF LoopOrExit, Served, Typed, TypeOK, InStep
    <3>2. \A v \in Workers : inside[v] => v # w /\ todo'[v] = todo[v]
      BY <3>1
    <3>3. \A l \in Locks : owner[l] # Free => owner[l] \in Workers
      BY DEF Served, Typed, TypeOK
    <3> QED BY <3>1, <3>2, <3>3
  <2>2. ASSUME NEW w \in Workers, EnterSection(w) PROVE Owned'
    <3>1. LockOf(Head(todo[w])) \in Locks
      BY <2>2, FirstOf, LocksOfSteps DEF EnterSection, Served, Typed, InStep, TypeOK
    <3>2. /\ ~inside[w] /\ owner[LockOf(Head(todo[w]))] = Free /\ todo' = todo
          /\ owner' = [owner EXCEPT ![LockOf(Head(todo[w]))] = w]
          /\ inside' = [inside EXCEPT ![w] = TRUE]
      BY <2>2 DEF EnterSection, Available
    <3> QED BY <2>0, <3>1, <3>2 DEF Served, Typed, TypeOK
  <2>3. ASSUME NEW w \in Workers, Accepted(w) \/ LeaveSection(w) PROVE Owned'
    <3>1. /\ inside[w] /\ Release(w)
          /\ \A v \in Workers : v # w => todo'[v] = todo[v]
      BY <2>3 DEF Accepted, LeaveSection, Served, Typed
    <3>2. \A v \in Workers : inside'[v] => /\ inside[v] /\ todo'[v] = todo[v]
                                           /\ owner'[LockOf(Head(todo[v]))] = v
      BY <2>0, <3>1 DEF Release, Served, Typed, TypeOK
    <3>3. ASSUME NEW l \in Locks, owner'[l] # Free
          PROVE  inside'[owner'[l]] /\ l = LockOf(Head(todo'[owner'[l]]))
      <4>1. owner'[l] = owner[l] /\ l # LockOf(Head(todo[w])) /\ owner[l] \in Workers
        BY <3>1, <3>3 DEF Release, Served, Typed, TypeOK
      <4>2. owner[l] # w
        BY <4>1
      <4> QED BY <3>1, <4>1, <4>2 DEF Release, Served, Typed, TypeOK
    <3> QED BY <3>2, <3>3
  <2>5. ASSUME NEW w \in Workers, Locate(w) PROVE Owned'
    <3>1. /\ UNCHANGED <<inside, owner>> /\ ~inside[w]
          /\ \A v \in Workers : v # w => todo'[v] = todo[v]
      BY <2>5 DEF Locate, Served, Typed, InStep
    <3>2. \A v \in Workers : inside[v] => v # w /\ todo'[v] = todo[v]
      BY <3>1
    <3>3. \A l \in Locks : owner[l] # Free => owner[l] \in Workers
      BY DEF Served, Typed, TypeOK
    <3> QED BY <3>1, <3>2, <3>3
  <2>4. ASSUME UNCHANGED <<todo, inside, owner>> PROVE Owned'
    BY <2>4
  <2> QED BY <2>1, <2>2, <2>3, <2>4, <2>5, OthersKeepSections
          DEF Next, ThreadStep, WorkerStep, Environment, UpdaterStep, HelperStep
<1> QED BY <1>1, <1>2, SectionsInOrder, PTL DEF Spec, Served

\* A worker that holds a snapshot has the section ahead that gives it back.
THEOREM SnapshotsAreReturned == Spec => []GivesBack
<1>1. Init => GivesBack
  BY DEF Init, GivesBack, PutFollows
<1>2. Served /\ GivesBack /\ [Next]_vars => GivesBack'
  <2> SUFFICES ASSUME Served, GivesBack, [Next]_vars PROVE GivesBack'
    OBVIOUS
  <2>1. ASSUME NEW w \in Workers, LoopOrExit(w) PROVE GivesBack'
    <3>1. todo[w] = <<>> /\ held' = held
      BY <2>1 DEF LoopOrExit, Served, InStep
    <3>2. \A c \in Caches : held[w][c] = Free
      BY <3>1 DEF GivesBack
    <3>3. PutFollows(<<"accept">>)
      BY DEF PutFollows, Get, Put, Caches
    <3>4. \A v \in Workers : todo'[v] = todo[v] \/ (v = w /\ todo'[v] = <<"accept">>)
      BY <2>1 DEF LoopOrExit, Served, Typed
    <3> QED BY <3>1, <3>2, <3>3, <3>4 DEF GivesBack
  <2>2. ASSUME NEW w \in Workers, Accepted(w) PROVE GivesBack'
    <3>1. /\ Len(todo[w]) = 1 /\ todo[w][1] = "accept" /\ held' = held
          /\ \A v \in Workers : v # w => todo'[v] = todo[v]
          /\ todo'[w] = <<>> \/ \E kind \in Kinds : todo'[w] = Steps(kind)
      BY <2>2, AcceptsAlone DEF Accepted, Served, Typed
    <3>2. \A c \in Caches : held[w][c] = Free
      BY <3>1 DEF GivesBack, Put
    <3>3. PutFollows(<<>>)
      BY DEF PutFollows
    <3> QED BY <3>1, <3>2, <3>3, StepsAreFair DEF GivesBack
  <2>3. ASSUME NEW w \in Workers, LeaveSection(w) \/ Locate(w) PROVE GivesBack'
    <3> DEFINE s == todo[w]
    <3>1. /\ s \in Seq(StepNames) /\ s # <<>> /\ Head(s) = s[1] /\ 1 \in 1..Len(s)
          /\ \A v \in Workers : v # w => todo'[v] = todo[v] /\ held'[v] = held[v]
          /\ todo'[w] = Tail(s)
      BY <2>3, FirstTakenAway
    <3>2. PutFollows(Tail(s))
      BY <3>1, TailIsFair DEF GivesBack
    <3>3. ASSUME NEW c \in Caches, held'[w][c] # Free
          PROVE  \E i \in 1..Len(Tail(s)) : Tail(s)[i] = Put(c)
      <4>1. \E i \in 1..Len(s) : i > 1 /\ s[i] = Put(c)
        <5>1. CASE s[1] = Get(c)
          BY <5>1, <3>1 DEF GivesBack, PutFollows
        <5>2. CASE s[1] # Get(c)
          <6>1. s[1] # Put(c) /\ held'[w][c] = held[w][c]
            BY <2>3, <3>3, <5>2, SnapshotsMoved
          <6>2. PICK i \in 1..Len(s) : s[i] = Put(c)
            BY <3>3, <6>1 DEF GivesBack
          <6> QED BY <6>1, <6>2
        <5> QED BY <5>1, <5>2
      <4> QED BY <3>1, <4>1, TailIsFair DEF GivesBack
    <3>4. ASSUME NEW v \in Workers, v # w
          PROVE  /\ PutFollows(todo'[v])
                 /\ \A c \in Caches : held'[v][c] # Free => \E i \in 1..Len(todo'[v]) : todo'[v][i] = Put(c)
      BY <3>1, <3>4 DEF GivesBack
    <3> HIDE DEF s
    <3>5. /\ PutFollows(todo'[w])
          /\ \A c \in Caches : held'[w][c] # Free => \E i \in 1..Len(todo'[w]) : todo'[w][i] = Put(c)
      BY <3>1, <3>2, <3>3
    <3> QED BY <3>4, <3>5 DEF GivesBack, PutFollows
  <2>4. ASSUME NEW w \in Workers, EnterSection(w) PROVE GivesBack'
    BY <2>4 DEF EnterSection, GivesBack
  <2>5. ASSUME UNCHANGED <<todo, inside, owner>>,
               \A w \in Workers : \A c \in Caches : held'[w][c] # Free => held[w][c] # Free
        PROVE  GivesBack'
    BY <2>5 DEF GivesBack
  <2> QED BY <2>1, <2>2, <2>3, <2>4, <2>5, OthersKeepSections
          DEF Next, ThreadStep, WorkerStep, Environment, UpdaterStep, HelperStep
<1> QED BY <1>1, <1>2, SectionsInOrder, PTL DEF Spec, Served

\* What the steps of workers, updaters and helpers leave to the main thread.
LEMMA OthersKeepMain ==
    ASSUME \/ \E w \in Workers : WorkerStep(w) \/ Accepted(w)
           \/ \E c \in Caches : UpdaterStep(c)
           \/ HelperStep
    PROVE  UNCHANGED <<runFlag, cancelled, main>>
BY DEF WorkerStep, Start, LoopOrExit, EnterSection, LeaveSection, Locate, Accepted, UpdaterStep, CacheStep, UpdWake,
       UpdWaitSwap, UpdUpdate, UpdSwap, HelperStep, HelperExit, CounterDrains, CounterExit, helperVars

\* A worker that has ended stays so, and only a cancelled one dies.
LEMMA EndedForGood ==
    ASSUME Served, [Next]_vars, NEW w \in Workers
    PROVE  /\ ~Alive(w) => ~Alive(w)'
           /\ wst'[w] = "dead" => wst[w] = "dead" \/ w \in cancelled
<1> USE DEF Served, Typed, TypeOK, Alive
<1>1. ASSUME NEW v \in Workers, WorkerStep(v) \/ Accepted(v)
      PROVE  /\ wst[v] \in {"new", "top", "busy"} /\ wst'[v] # "dead"
             /\ \A u \in Workers : u # v => wst'[u] = wst[u]
  BY <1>1 DEF WorkerStep, Start, LoopOrExit, EnterSection, LeaveSection, Locate, Accepted
<1>2. ASSUME NEW v \in Workers, Die(v)
      PROVE  v \in cancelled /\ wst' = [wst EXCEPT ![v] = "dead"]
  BY <1>2 DEF Die
<1>3. ASSUME \/ \E c \in Caches : UpdaterStep(c)
             \/ HelperStep
             \/ Uninit \/ StopBid \/ Finished \/ UNCHANGED vars
      PROVE  wst' = wst
  BY <1>3 DEF UpdaterStep, CacheStep, UpdWake, UpdWaitSwap, UpdUpdate, UpdSwap, HelperStep, HelperExit,
     CounterDrains, CounterExit, Uninit, CloseTable,
              TermWorker, JoinWorker, UninitData, UninitCtrl, UninitLog, JoinServer, JoinCount,
              MainOnly, StopBid, Finished, vars, workerVars
<1> QED BY <1>1, <1>2, <1>3 DEF Next, ThreadStep, Environment, UpdaterStep, HelperStep

\* Only the main thread cancels, and only after the engine was stopped.
THEOREM CancelledAfterStop == Spec => []Stopping
<1> USE DEF Stopping
<1>1. Init => Stopping
  BY DEF Init
<1>2. Served /\ Stopping /\ [Next]_vars => Stopping'
  <2> SUFFICES ASSUME Served, Stopping, [Next]_vars PROVE Stopping'
    OBVIOUS
  <2>1. \A w \in Workers : wst'[w] = "dead" => w \in cancelled
    BY EndedForGood
  <2>2. CASE UNCHANGED <<runFlag, cancelled, main>>
    BY <2>1, <2>2
  <2>3. CASE StopBid
    BY <2>1, <2>3 DEF StopBid
  <2>4. CASE Uninit
    <3>1. main'[1] # "monitor" /\ runFlag' = runFlag /\ cancelled \subseteq cancelled'
      BY <2>4 DEF Uninit, CloseTable, TermWorker, JoinWorker, UninitData, UninitCtrl, UninitLog,
                  JoinServer, JoinCount, MainOnly
    <3>2. ~runFlag
      BY <2>4 DEF Uninit, CloseTable, TermWorker, JoinWorker, UninitData, UninitCtrl, UninitLog,
                  JoinServer, JoinCount, At
    <3> QED BY <2>1, <3>1, <3>2
  <2>5. ASSUME NEW w \in Workers, Die(w) PROVE Stopping'
    BY <2>1, <2>5 DEF Die
  <2>6. CASE Finished \/ UNCHANGED vars
    BY <2>1, <2>6 DEF Finished, vars
  <2> QED BY <2>2, <2>3, <2>4, <2>5, <2>6, OthersKeepMain DEF Next, ThreadStep, Environment, UpdaterStep, HelperStep
<1> QED BY <1>1, <1>2, SectionsInOrder, PTL DEF Spec, Served

\* The main thread passes a worker only when it has ended.
LEMMA JoinedHaveEnded == Spec => []Joined
<1> USE DEF Joined
<1>1. Init => Joined
  BY DEF Init
<1>2. Served /\ Joined /\ [Next]_vars => Joined'
  <2> SUFFICES ASSUME Served, Joined, [Next]_vars PROVE Joined'
    OBVIOUS
  <2>1. \A w \in Workers : ~Alive(w) => ~Alive(w)'
    BY EndedForGood
  <2>2. CASE main' = main
    BY <2>1, <2>2
  <2>3. CASE CloseTable
    <3>1. main' = <<"term", 1>>
      BY <2>3 DEF CloseTable, MainOnly
    <3> QED BY <3>1 DEF Workers
  <2>4. CASE TermWorker
    <3>1. main[1] = "term" /\ main' = <<"join", main[2]>>
      BY <2>4 DEF TermWorker, At
    <3> QED BY <2>1, <3>1
  <2>5. CASE JoinWorker
    <3>1. /\ main[1] = "join" /\ ~Alive(main[2]) /\ main[2] \in 0..NWorkers
          /\ main' = IF main[2] < NWorkers THEN <<"term", main[2] + 1>> ELSE <<"uninitData", 0>>
      BY <2>5 DEF JoinWorker, MainOnly, At, Served, Typed, TypeOK
    <3>2. \A w \in Workers : w < main[2] + 1 => ~Alive(w)'
      BY <2>1, <3>1, EngineAssumption DEF Workers
    <3> QED BY <3>1, <3>2, EngineAssumption DEF Workers
  <2>6. CASE UninitData \/ UninitCtrl \/ UninitLog \/ JoinServer \/ JoinCount
    <3>1. /\ main[1] \notin {"monitor", "term", "join"}
          /\ main'[1] \notin {"monitor", "term", "join"}
      BY <2>6 DEF UninitData, UninitCtrl, UninitLog, JoinServer, JoinCount, MainOnly, At
    <3> QED BY <2>1, <3>1
  <2>7. CASE StopBid \/ Finished \/ (\E w \in Workers : Die(w)) \/ UNCHANGED vars
    BY <2>2, <2>7 DEF StopBid, Finished, Die, vars
  <2> QED BY <2>2, <2>3, <2>4, <2>5, <2>6, <2>7, OthersKeepMain
          DEF Next, ThreadStep, Environment, UpdaterStep, HelperStep, Uninit
<1> QED BY <1>1, <1>2, SectionsInOrder, PTL DEF Spec, Served

\* A buffer under reload is not one that a request looks at: a worker gets the
\* current buffer only, and the current buffer changes at the swap alone.
THEOREM ReloadsAside == Spec => []UpdateAside
<1> USE DEF UpdateAside, IdleReaders
<1>1. Init => UpdateAside
  BY DEF Init
<1>2. Served /\ UpdateAside /\ [Next]_vars => UpdateAside'
  <2> SUFFICES ASSUME Served, UpdateAside, [Next]_vars, NEW c \in Caches,
                      upd'[c] \in {"update", "swap"}, NEW w \in Workers, held'[w][c] = "idle"
               PROVE  FALSE
    OBVIOUS
  <2> USE EngineAssumption DEF Served, Typed, TypeOK
  <2>1. CASE UNCHANGED <<held, upd>>
    BY <2>1
  <2>2. ASSUME NEW v \in Workers, LeaveSection(v) PROVE FALSE
    <3>1. upd' = upd
      BY <2>2 DEF LeaveSection, helperVars
    <3>2. held'[w][c] = held[w][c] \/ held'[w][c] \in {"current", Free}
      BY <2>2 DEF LeaveSection, LockOf, Caches
    <3> QED BY <3>1, <3>2
  <2>3. ASSUME NEW d \in Caches, UpdaterStep(d) PROVE FALSE
    <3>1. CASE UpdSwap(d)
      <4>1. upd'[d] = "sleep" /\ d # c
        BY <2>3, <3>1 DEF UpdSwap
      <4>2. upd'[c] = upd[c] /\ held'[w][c] = held[w][c]
        BY <3>1, <4>1 DEF UpdSwap
      <4> QED BY <4>1, <4>2
    <3>2. CASE UpdWake(d) \/ UpdWaitSwap(d) \/ UpdUpdate(d)
      <4>1. held' = held /\ (upd'[c] = upd[c] \/ upd[c] = "update" \/ held[w][c] # "idle")
        BY <3>2 DEF UpdWake, UpdWaitSwap, UpdUpdate, workerVars
      <4> QED BY <4>1
    <3> QED BY <2>3, <3>1, <3>2 DEF UpdaterStep, CacheStep
  <2>4. ASSUME NEW v \in Workers, Start(v) \/ LoopOrExit(v) \/ EnterSection(v) \/ Locate(v) \/ Accepted(v) \/ Die(v)
        PROVE  FALSE
    BY <2>1, <2>4 DEF Start, LoopOrExit, EnterSection, Locate, Accepted, Die, helperVars
  <2>5. ASSUME \/ HelperStep
               \/ Uninit \/ StopBid \/ Finished \/ UNCHANGED vars
        PROVE  FALSE
    BY <2>1, <2>5
       DEF HelperStep, HelperExit, CounterDrains, CounterExit, Uninit, CloseTable, TermWorker, JoinWorker,
          UninitData, UninitCtrl, UninitLog,
           JoinServer, JoinCount, MainOnly, StopBid, Finished, vars, workerVars, helperVars
  <2> QED BY <2>2, <2>3, <2>4, <2>5 DEF Next, ThreadStep, WorkerStep, Environment, UpdaterStep, HelperStep
<1> QED BY <1>1, <1>2, SectionsInOrder, PTL DEF Spec, Served

\* A worker that came to its end by itself owns no lock and no snapshot, and
\* while the engine serves every lock that is taken has a living owner.
THEOREM OnlyCancellationLeaks == Spec => []NothingLeftBehind
<1>1. Served /\ Owned /\ GivesBack /\ Stopping => NothingLeftBehind
  <2> SUFFICES ASSUME Served, Owned, GivesBack, Stopping PROVE NothingLeftBehind
    OBVIOUS
  <2>1. \A l \in Locks : owner[l] # Free => owner[l] \in Workers /\ wst[owner[l]] \in {"busy", "dead"}
    BY DEF Served, Typed, TypeOK, InStep, Owned
  <2>2. ASSUME NEW w \in Workers, wst[w] = "exit"
        PROVE  \A c \in Caches : held[w][c] = Free
    BY <2>2 DEF Served, InStep, GivesBack
  <2>3. ASSUME runFlag PROVE \A w \in Workers : wst[w] # "dead"
    BY <2>3 DEF Stopping
  <2>4. \A w \in Workers : w # Free
    BY EngineAssumption DEF Workers
  <2> QED BY <2>1, <2>2, <2>3, <2>4 DEF NothingLeftBehind, Alive
<1> QED BY <1>1, SectionsInOrder, SectionsExclude, SnapshotsAreReturned, CancelledAfterStop, PTL DEF Served
------------------------------------------------------------------------------
(* The stop: nobody waits for ever, and every step is one towards the end. *)

Stations == {"monitor", "term", "join", "uninitData", "uninitCtrl", "uninitLog", "joinServer", "joinCount", "end"}

\* The main thread waits only for a worker that is cancelled or about to end.
Joining ==
    /\ main[1] \in Stations
    /\ At("join") /\ wst[main[2]] \in {"top", "busy"} => main[2] \in cancelled

\* The thread has a step: it does not wait, or what it waits for is free.
WorkerCanEnd(w) == wst[w] \in {"new", "top"} \/ (Alive(w) /\ w \in cancelled)

UpdaterCanStep(c) ==
    \/ upd[c] = "sleep"
    \/ upd[c] = "poll" /\ IdleReaders(c) = {}
    \/ upd[c] = "swap" /\ owner[c] = Free

HelperCanStep(q) == helper[q] = "run" /\ owner[q] = Free

\* The main thread goes on, or the thread it waits for does.
AwaitedCanStep ==
    \/ At("monitor") \/ At("term")
    \/ At("join")       /\ (~Alive(main[2]) \/ WorkerCanEnd(main[2]))
    \/ At("uninitData") /\ (upd["data"] = "done" \/ UpdaterCanStep("data"))
    \/ At("uninitCtrl") /\ (upd["ctrl"] = "done" \/ UpdaterCanStep("ctrl"))
    \/ At("uninitLog")  /\ (helper["log"] = "done" \/ HelperCanStep("log"))
    \/ At("joinServer") /\ (helper["queue"] = "done" \/ HelperCanStep("queue"))
    \/ At("joinCount")  /\ helper["record"] = "done"

\* The thread that the main thread waits for goes on as soon as Redis answers:
\* no lock that it needs then is taken.
OnlyRedisAwaited ==
    \/ At("uninitData") /\ upd["data"] = "update" /\ Available("log")
    \/ At("uninitCtrl") /\ upd["ctrl"] = "update" /\ Available("log")
    \/ At("joinCount")  /\ (helper["record"] = "drain" \/ HelperCanStep("record"))

\* Nothing that the main thread waits for after the stop waits itself, for
\* anything but Redis, unless a cancelled worker left a lock or a snapshot
\* behind or a worker crashed on the deleted table.
NeverStuck ==
    ~runFlag /\ ~crashed /\ ~At("end") =>
        AwaitedCanStep \/ OnlyRedisAwaited \/ \E w \in Workers : Orphan(w)

\* How many steps a thread has left at most after the stop: a worker enters
\* and leaves the sections ahead of it, ten at most if it still accepts.
Ahead(w) == IF Head(todo[w]) = "accept" THEN 22 ELSE 2 * Len(todo[w])

WorkerRank(w) ==
    IF ~Alive(w) THEN 0
    ELSE IF wst[w] # "busy" THEN 1
    ELSE IF inside[w] THEN Ahead(w) + 1 ELSE Ahead(w) + 2

UpdaterRank(c) ==
    CASE upd[c] = "poll" -> 4 [] upd[c] = "update" -> 3 [] upd[c] = "swap" -> 2
      [] upd[c] = "sleep" -> 1 [] OTHER -> 0

HelperRank(q) == CASE helper[q] = "run" -> 2 [] helper[q] = "drain" -> 1 [] OTHER -> 0

MainRank ==
    CASE At("monitor") -> 2 * NWorkers + 6
      [] At("term") -> 2 * (NWorkers - main[2]) + 7
      [] At("join") -> 2 * (NWorkers - main[2]) + 6
      [] At("uninitData") -> 5 [] At("uninitCtrl") -> 4 [] At("uninitLog") -> 3
      [] At("joinServer") -> 2 [] At("joinCount") -> 1 [] OTHER -> 0

\* No thread gets more steps to do, and one gets fewer.
RanksFall ==
    /\ \A w \in Workers : WorkerRank(w)' <= WorkerRank(w)
    /\ \A c \in Caches : UpdaterRank(c)' <= UpdaterRank(c)
    /\ \A q \in Queues : HelperRank(q)' <= HelperRank(q)
    /\ MainRank' <= MainRank
    /\ \/ \E w \in Workers : WorkerRank(w)' < WorkerRank(w)
       \/ \E c \in Caches : UpdaterRank(c)' < UpdaterRank(c)
       \/ \E q \in Queues : HelperRank(q)' < HelperRank(q)
       \/ MainRank' < MainRank

\* The worker that is joined was cancelled, or it will end by itself: the stop
\* is seen by a worker that starts and by one that is between two requests.
LEMMA JoiningKept == Spec => []Joining
<1>1. Init => Joining
  BY DEF Init, Joining, Stations, At
<1>2. Served /\ Stopping /\ Joining /\ [Next]_vars => Joining'
  <2>. SUFFICES ASSUME Served, Stopping, Joining, [Next]_vars PROVE Joining'
    OBVIOUS
  <2>. USE DEF Served, Typed, TypeOK
  <2>1. ASSUME main' = main, cancelled \subseteq cancelled',
               ~runFlag => \A w \in Workers : wst'[w] \in {"top", "busy"} => wst[w] \in {"top", "busy"}
        PROVE  Joining'
    <3>1. At("join") => ~runFlag /\ main[2] \in Workers
      BY DEF At, Stopping, Workers
    <3>. QED BY <2>1, <3>1 DEF Joining, At
  <2>2. ASSUME NEW w \in Workers, WorkerStep(w) \/ Accepted(w) \/ Die(w) PROVE Joining'
    <3>1. UNCHANGED <<main, cancelled>>
      BY <2>2, OthersKeepMain DEF Die
    <3>2. \A v \in Workers : v # w => wst'[v] = wst[v]
      BY <2>2 DEF WorkerStep, Start, LoopOrExit, EnterSection, LeaveSection, Locate, Accepted, Die
    <3>3. ~runFlag /\ wst'[w] \in {"top", "busy"} => wst[w] \in {"top", "busy"}
      BY <2>2 DEF WorkerStep, Start, LoopOrExit, EnterSection, LeaveSection, Locate, Accepted, Die
    <3>. QED BY <2>1, <3>1, <3>2, <3>3
  <2>3. CASE (\E c \in Caches : UpdaterStep(c)) \/ HelperStep \/ StopBid \/ Finished
             \/ UNCHANGED vars
    <3>1. UNCHANGED <<main, cancelled, wst>>
      BY <2>3 DEF UpdaterStep, CacheStep, UpdWake, UpdWaitSwap, UpdUpdate, UpdSwap, HelperStep, HelperExit,
         CounterDrains, CounterExit, StopBid, Finished,
                  vars, workerVars
    <3>. QED BY <2>1, <3>1
  <2>4. CASE TermWorker
    <3>1. /\ main'[1] = "join" /\ main'[2] = main[2] /\ wst' = wst
          /\ wst[main[2]] \in {"top", "busy"} => main[2] \in cancelled'
      BY <2>4 DEF TermWorker, workerVars
    <3>. QED BY <3>1 DEF Joining, Stations, At
  <2>5. CASE CloseTable \/ JoinWorker \/ UninitData \/ UninitCtrl \/ UninitLog \/ JoinServer \/ JoinCount
    <3>1. main'[1] \in Stations \ {"join"}
      BY <2>5 DEF CloseTable, JoinWorker, UninitData, UninitCtrl, UninitLog, JoinServer, JoinCount,
                  MainOnly, Stations
    <3>. QED BY <3>1 DEF Joining, At
  <2>. QED BY <2>2, <2>3, <2>4, <2>5 DEF Next, ThreadStep, Environment, UpdaterStep, HelperStep, Uninit
<1>. QED BY <1>1, <1>2, SectionsInOrder, CancelledAfterStop, PTL DEF Spec, Served

\* After the stop the workers that serve are in the turn they were in then.
InLastTurn == ~runFlag => \A w \in Workers : wst[w] = "busy" => w \in lastTurn

\* After the stop a worker that serves is in its last turn, is not joined yet,
\* and was cancelled before it is joined: no worker meets the deleted table in
\* a later turn, and nothing that is taken down later has a user.
THEOREM LastTurnsOnly == Spec => []OneTurnAfterStop
<1>1. Init => InLastTurn
  BY DEF Init, InLastTurn
<1>2. Served /\ InLastTurn /\ [Next]_vars => InLastTurn'
  <2>. SUFFICES ASSUME Served, InLastTurn, [Next]_vars PROVE InLastTurn'
    OBVIOUS
  <2>. USE DEF InLastTurn, Served, Typed, TypeOK
  <2>1. ASSUME UNCHANGED <<runFlag, lastTurn>>,
               ~runFlag => \A w \in Workers : wst'[w] = "busy" => wst[w] = "busy"
        PROVE  InLastTurn'
    BY <2>1
  <2>2. ASSUME NEW w \in Workers,
               Start(w) \/ LoopOrExit(w) \/ EnterSection(w) \/ Locate(w) \/ Accepted(w) \/ Die(w)
        PROVE  InLastTurn'
    <3>1. UNCHANGED <<runFlag, lastTurn>>
      BY <2>2 DEF Start, LoopOrExit, EnterSection, Locate, Accepted, Die, lateVars
    <3>2. ~runFlag => \A v \in Workers : wst'[v] = "busy" => wst[v] = "busy"
      BY <2>2 DEF Start, LoopOrExit, EnterSection, Locate, Accepted, Die
    <3>. QED BY <2>1, <3>1, <3>2
  <2>3. ASSUME NEW w \in Workers, LeaveSection(w) PROVE InLastTurn'
    <3>1. /\ runFlag' = runFlag /\ wst[w] = "busy"
          /\ wst' = [wst EXCEPT ![w] = IF Len(todo[w]) = 1 THEN "top" ELSE "busy"]
          /\ lastTurn' = IF Len(todo[w]) = 1 THEN lastTurn \ {w} ELSE lastTurn
      BY <2>3 DEF LeaveSection
    <3>. QED BY <3>1
  <2>4. CASE StopBid
    BY <2>4 DEF StopBid
  <2>5. CASE (\E c \in Caches : UpdaterStep(c)) \/ HelperStep \/ Uninit \/ Finished \/ UNCHANGED vars
    <3>1. UNCHANGED <<runFlag, lastTurn, wst>>
      BY <2>5 DEF UpdaterStep, CacheStep, UpdWake, UpdWaitSwap, UpdUpdate, UpdSwap, HelperStep, HelperExit,
                  CounterDrains, CounterExit, Uninit, CloseTable, TermWorker, JoinWorker, UninitData, UninitCtrl,
                  UninitLog, JoinServer, JoinCount, MainOnly, Finished, vars, workerVars, lateVars
    <3>. QED BY <2>1, <3>1
  <2>. QED BY <2>2, <2>3, <2>4, <2>5
           DEF Next, ThreadStep, WorkerStep, Environment, UpdaterStep, HelperStep
<1>3. Served /\ InLastTurn /\ Joined /\ Joining => OneTurnAfterStop
  <2>. SUFFICES ASSUME Served, InLastTurn, Joined, Joining, ~runFlag, NEW w \in Workers, wst[w] = "busy"
                PROVE  /\ w \in lastTurn
                       /\ Closed => main[1] \in {"term", "join"} /\ w >= main[2]
                       /\ main = <<"join", w>> => w \in cancelled
    BY DEF OneTurnAfterStop
  <2>1. Alive(w) /\ w \in Nat /\ main[2] \in Nat
    BY EngineAssumption DEF Alive, Workers, Served, Typed, TypeOK
  <2>2. Closed => main[1] \in {"term", "join"} /\ w >= main[2]
    BY <2>1 DEF Closed, At, Joined
  <2>3. main = <<"join", w>> => w \in cancelled
    BY DEF Joining, At
  <2>. QED BY <2>2, <2>3 DEF InLastTurn
<1>. QED BY <1>1, <1>2, <1>3, SectionsInOrder, JoinedHaveEnded, JoiningKept, PTL DEF Spec, Served

\* Once the workers have ended, a lock or a snapshot that is still taken is
\* one that a cancelled worker left behind.
LEMMA NothingTaken ==
    ASSUME Served, NothingLeftBehind, \A w \in Workers : ~Alive(w), \A w \in Workers : ~Orphan(w)
    PROVE  /\ \A l \in Locks \ {"accept", "resp"} : owner[l] = Free
           /\ \A c \in Caches : IdleReaders(c) = {}
<1>. USE EngineAssumption
<1>1. ASSUME NEW l \in Locks \ {"accept", "resp"}, owner[l] # Free PROVE FALSE
  <2>1. owner[l] \in Workers
    BY <1>1 DEF Served, Typed, TypeOK
  <2>2. wst[owner[l]] = "dead"
    BY <1>1, <2>1 DEF NothingLeftBehind, Alive
  <2>. QED BY <1>1, <2>1, <2>2 DEF Orphan
<1>2. ASSUME NEW c \in Caches, NEW w \in Workers, held[w][c] = "idle" PROVE FALSE
  <2>1. held[w][c] # Free
    BY <1>2
  <2>2. wst[w] = "dead"
    BY <2>1 DEF NothingLeftBehind, Alive
  <2>. QED BY <2>1, <2>2 DEF Orphan
<1>. QED BY <1>1, <1>2 DEF IdleReaders

\* After the stop the main thread goes on, or the thread it waits for does, or
\* would with an answer of Redis: the process comes down unless Redis never
\* answers, a cancelled worker left something behind or the process crashed.
THEOREM ShutdownNeverStuck == Spec => []NeverStuck
<1>1. /\ Served /\ Stopping /\ Joining /\ Joined /\ NothingLeftBehind
      => NeverStuck
  <2>. SUFFICES ASSUME Served, Joining, Joined, NothingLeftBehind,
                       ~runFlag, ~At("end"), \A w \in Workers : ~Orphan(w)
                PROVE  AwaitedCanStep \/ OnlyRedisAwaited
    BY DEF NeverStuck
  <2>1. CASE At("monitor") \/ At("term")
    BY <2>1 DEF AwaitedCanStep
  <2>2. CASE At("join")
    <3>1. main[2] \in Workers
      BY <2>2 DEF Served, Typed, TypeOK, At, Workers
    <3>. QED BY <2>2, <3>1 DEF AwaitedCanStep, WorkerCanEnd, Joining, Alive, Served, Typed, TypeOK
  <2>3. CASE ~At("monitor") /\ ~At("term") /\ ~At("join")
    <3>1. \A w \in Workers : ~Alive(w)
      BY <2>3 DEF Joined, At
    <3>2. /\ owner["log"] = Free /\ owner["queue"] = Free /\ owner["record"] = Free
          /\ \A c \in Caches : owner[c] = Free /\ IdleReaders(c) = {}
      BY <3>1, NothingTaken DEF Locks, Queues, Caches
    <3>3. \A c \in Caches : upd[c] = "done" \/ upd[c] = "update" \/ UpdaterCanStep(c)
      BY <3>2 DEF UpdaterCanStep, Served, Typed, TypeOK
    <3>4. Available("log")
      BY <3>2 DEF Available
    <3>5. /\ helper["log"] = "done" \/ HelperCanStep("log")
          /\ helper["queue"] = "done" \/ HelperCanStep("queue")
          /\ helper["record"] \in {"done", "drain"} \/ HelperCanStep("record")
      BY <3>2 DEF HelperCanStep, Served, Typed, TypeOK, Queues
    <3>6. main[1] \in {"uninitData", "uninitCtrl", "uninitLog", "joinServer", "joinCount"}
      BY <2>3 DEF Joining, Stations, At
    <3>. QED BY <3>3, <3>4, <3>5, <3>6 DEF AwaitedCanStep, OnlyRedisAwaited, At, Caches, Queues
  <2>. QED BY <2>1, <2>2, <2>3
<1>. QED BY <1>1, SectionsInOrder, CancelledAfterStop, JoiningKept, JoinedHaveEnded, OnlyCancellationLeaks,
            PTL DEF Served
------------------------------------------------------------------------------
\* The longest request has nine sections and a lookup.
LEMMA StepsAreShort == \A kind \in Kinds : Len(Steps(kind)) \in 1..10 /\ Head(Steps(kind)) # "accept"
<1>. SUFFICES ASSUME NEW kind \in {"dump", "refused", "bid"}
              PROVE  Len(Steps(kind)) \in 1..10 /\ Head(Steps(kind)) # "accept"
  BY EngineAssumption
<1>1. CASE kind = "dump"
  BY <1>1 DEF Steps
<1>2. CASE kind = "refused"
  BY <1>2 DEF Steps
<1>3. CASE kind = "bid"
  BY <1>3 DEF Steps
<1>. QED BY <1>1, <1>2, <1>3

RankTypes ==
    /\ \A w \in Workers : WorkerRank(w) \in Nat
    /\ \A c \in Caches : UpdaterRank(c) \in Nat
    /\ \A q \in Queues : HelperRank(q) \in Nat
    /\ MainRank \in Nat

LEMMA RanksAreNumbers == Served => RankTypes
<1>. SUFFICES ASSUME Served PROVE RankTypes
  OBVIOUS
<1>1. \A w \in Workers : todo[w] \in Seq(StepNames)
  BY DEF Served, Typed
<1>2. \A w \in Workers : Ahead(w) \in Nat
  BY <1>1 DEF Ahead
<1>3. main[2] \in 0..NWorkers /\ NWorkers \in Nat
  BY EngineAssumption DEF Served, Typed, TypeOK
<1>4. MainRank \in Nat
  BY <1>3 DEF MainRank
<1>5. \A w \in Workers : WorkerRank(w) \in Nat
  BY <1>2 DEF WorkerRank
<1>. QED BY <1>4, <1>5 DEF RankTypes, UpdaterRank, HelperRank

LEMMA RanksStay ==
    /\ \A w \in Workers : UNCHANGED <<wst[w], todo[w], inside[w]>> => WorkerRank(w)' = WorkerRank(w)
    /\ \A c \in Caches : upd'[c] = upd[c] => UpdaterRank(c)' = UpdaterRank(c)
    /\ \A q \in Queues : helper'[q] = helper[q] => HelperRank(q)' = HelperRank(q)
    /\ main' = main => MainRank' = MainRank
BY DEF WorkerRank, Ahead, Alive, UpdaterRank, HelperRank, MainRank, At

\* A worker that takes a step, or is cancelled, gets closer to its end.
LEMMA WorkerGetsCloser ==
    ASSUME Served, ~runFlag, NEW w \in Workers, WorkerStep(w) \/ Accepted(w) \/ Die(w)
    PROVE  /\ WorkerRank(w)' < WorkerRank(w)
           /\ \A v \in Workers : v # w => WorkerRank(v)' = WorkerRank(v)
           /\ UNCHANGED <<upd, helper, main>>
<1>0. /\ wst \in [Workers -> {"new", "top", "busy", "exit", "dead"}]
      /\ inside \in [Workers -> BOOLEAN] /\ todo \in [Workers -> Seq(StepNames)]
  BY DEF Served, Typed, TypeOK
<1>1. /\ \A v \in Workers : v # w => wst'[v] = wst[v] /\ todo'[v] = todo[v] /\ inside'[v] = inside[v]
      /\ UNCHANGED <<upd, helper, main>>
  BY <1>0 DEF WorkerStep, Start, LoopOrExit, EnterSection, LeaveSection, Locate, Accepted, Release, Die, helperVars
<1>2. \A v \in Workers : v # w => WorkerRank(v)' = WorkerRank(v)
  BY <1>1, RanksStay
<1>3. Len(todo[w]) \in Nat /\ (wst[w] = "busy" => Len(todo[w]) \in Nat \ {0})
  <2>1. todo[w] \in Seq(StepNames)
    BY <1>0
  <2>2. wst[w] = "busy" => todo[w] # <<>>
    BY DEF Served, InStep
  <2>. QED BY <2>1, <2>2
<1>4. WorkerRank(w)' < WorkerRank(w)
  <2>1. CASE Start(w) \/ LoopOrExit(w) \/ Die(w)
    <3>1. Alive(w) /\ ~Alive(w)'
      BY <1>0, <2>1 DEF Start, LoopOrExit, Die, Alive
    <3>2. Ahead(w) \in Nat
      BY <1>3 DEF Ahead
    <3>. QED BY <3>1, <3>2 DEF WorkerRank
  <2>2. CASE EnterSection(w)
    <3>1. wst[w] = "busy" /\ wst'[w] = "busy" /\ ~inside[w] /\ inside'[w] /\ todo'[w] = todo[w]
      BY <1>0, <2>2 DEF EnterSection
    <3>2. Ahead(w) \in Nat /\ Ahead(w)' = Ahead(w)
      BY <1>3, <3>1 DEF Ahead
    <3>3. WorkerRank(w) = Ahead(w) + 2 /\ WorkerRank(w)' = Ahead(w)' + 1
      BY <3>1 DEF WorkerRank, Alive
    <3>. QED BY <3>2, <3>3
  <2>3. CASE Accepted(w)
    <3>1. /\ wst[w] = "busy" /\ inside[w] /\ ~inside'[w] /\ Head(todo[w]) = "accept"
          /\ \/ wst'[w] = "exit"
             \/ wst'[w] = "busy" /\ \E kind \in Kinds : todo'[w] = Steps(kind)
      BY <1>0, <2>3 DEF Accepted, Release
    <3>2. WorkerRank(w) = 23
      BY <3>1 DEF WorkerRank, Ahead, Alive
    <3>3. CASE wst'[w] = "exit"
      <4>1. WorkerRank(w)' = 0
        BY <3>3 DEF WorkerRank, Alive
      <4>. QED BY <3>2, <4>1
    <3>4. CASE wst'[w] = "busy" /\ \E kind \in Kinds : todo'[w] = Steps(kind)
      <4>1. Len(todo'[w]) \in 1..10 /\ Head(todo'[w]) # "accept"
        BY <3>4, StepsAreShort
      <4>2. Ahead(w)' \in 2..20
        <5>1. Ahead(w)' = 2 * Len(todo'[w])
          BY <4>1 DEF Ahead
        <5>2. \A n \in 1..10 : 2 * n \in 2..20
          OBVIOUS
        <5>. QED BY <4>1, <5>1, <5>2
      <4>3. WorkerRank(w)' = Ahead(w)' + 2
        BY <3>1, <3>4 DEF WorkerRank, Alive
      <4>. QED BY <3>2, <4>2, <4>3
    <3>. QED BY <3>1, <3>3, <3>4
  <2>5. CASE Locate(w)
    <3>. DEFINE t == todo[w]
    <3>1. /\ wst[w] = "busy" /\ ~inside[w] /\ Head(t) = "locate" /\ wst'[w] = "busy" /\ ~inside'[w]
          /\ todo'[w] = Tail(t)
      BY <1>0, <2>5 DEF Locate, Served, InStep
    <3>2. /\ t \in Seq(StepNames) /\ t # <<>> /\ Len(t) \in Nat \ {0} /\ t[1] = "locate"
          /\ \A i \in 1..Len(t) : (t[i] = "accept" => Len(t) = 1) /\ (t[i] = "locate" => i # Len(t))
      BY <1>0, <1>3, <3>1, FirstOf DEF Served, InStep
    <3>3. 1 \in 1..Len(t) /\ Len(t) # 1 /\ 2 \in 1..Len(t)
      BY <3>2
    <3>4. Tail(t) \in Seq(StepNames) /\ Len(Tail(t)) = Len(t) - 1 /\ Tail(t)[1] = t[2] /\ Tail(t) # <<>>
      BY <3>2, <3>3, TailOf
    <3>5. Head(Tail(t)) = t[2] /\ t[2] # "accept"
      BY <3>2, <3>3, <3>4, FirstOf
    <3>6. Ahead(w) = 2 * Len(t) /\ Ahead(w)' = 2 * (Len(t) - 1)
      BY <3>1, <3>4, <3>5 DEF Ahead
    <3>7. WorkerRank(w) = Ahead(w) + 2 /\ WorkerRank(w)' = Ahead(w)' + 2
      BY <3>1 DEF WorkerRank, Alive
    <3>. QED BY <3>2, <3>6, <3>7
  <2>4. CASE LeaveSection(w)
    <3>. DEFINE t == todo[w]
    <3>1. /\ wst[w] = "busy" /\ inside[w] /\ ~inside'[w] /\ Head(t) # "accept"
          /\ todo'[w] = Tail(t) /\ wst'[w] = (IF Len(t) = 1 THEN "top" ELSE "busy")
      BY <1>0, <2>4 DEF LeaveSection, Release
    <3>2. /\ t \in Seq(StepNames) /\ t # <<>> /\ Len(t) \in Nat \ {0}
          /\ \A i \in 1..Len(t) : t[i] = "accept" => Len(t) = 1
      BY <1>0, <1>3, <3>1 DEF Served, InStep
    <3>3. WorkerRank(w) = 2 * Len(t) + 1
      BY <3>1 DEF WorkerRank, Ahead, Alive
    <3>4. CASE Len(t) = 1
      <4>1. WorkerRank(w)' = 1
        BY <3>1, <3>4 DEF WorkerRank, Alive
      <4>. QED BY <3>3, <3>4, <4>1
    <3>5. CASE Len(t) # 1
      <4>1. 2 \in 1..Len(t) /\ t[2] # "accept"
        <5>1. \A n \in Nat \ {0} : n # 1 => 2 \in 1..n
          OBVIOUS
        <5>2. 2 \in 1..Len(t)
          BY <3>2, <3>5, <5>1
        <5>. QED BY <3>2, <3>5, <5>2
      <4>2. Len(Tail(t)) = Len(t) - 1 /\ Head(Tail(t)) = t[2]
        <5>1. Tail(t) \in Seq(StepNames) /\ Len(Tail(t)) = Len(t) - 1 /\ Tail(t)[1] = t[1 + 1]
          BY <3>2, <4>1, TailOf
        <5>2. Tail(t) # <<>>
          BY <3>2, <3>5, TailOf
        <5>. QED BY <5>1, <5>2, FirstOf
      <4>3. Ahead(w)' = 2 * (Len(t) - 1)
        BY <3>1, <4>1, <4>2 DEF Ahead
      <4>4. WorkerRank(w)' = Ahead(w)' + 2
        BY <3>1, <3>5 DEF WorkerRank, Alive
      <4>. QED BY <3>2, <3>3, <4>3, <4>4
    <3>. QED BY <3>4, <3>5
  <2>. QED BY <2>1, <2>2, <2>3, <2>4, <2>5 DEF WorkerStep
<1>. QED BY <1>1, <1>2, <1>4

\* The way of the main thread, one worker after the other.
LEMMA MainGetsCloser ==
    ASSUME Served, Uninit
    PROVE  MainRank' < MainRank /\ UNCHANGED <<wst, todo, inside, upd, helper>>
<1>1. UNCHANGED <<wst, todo, inside, upd, helper>>
  BY DEF Uninit, CloseTable, TermWorker, JoinWorker, UninitData, UninitCtrl, UninitLog,
         JoinServer, JoinCount, MainOnly, workerVars, helperVars
<1>2. main[2] \in 0..NWorkers /\ NWorkers \in Nat
  BY EngineAssumption DEF Served, Typed, TypeOK
<1>3. CASE CloseTable
  <2>1. main[1] = "monitor" /\ main'[1] = "term" /\ main'[2] = 1
    BY <1>3 DEF CloseTable, MainOnly, At
  <2>. QED BY <1>1, <1>2, <2>1 DEF MainRank, At
<1>4. CASE TermWorker
  <2>1. main[1] = "term" /\ main'[1] = "join" /\ main'[2] = main[2]
    BY <1>4 DEF TermWorker, At
  <2>. QED BY <1>1, <1>2, <2>1 DEF MainRank, At
<1>5. CASE JoinWorker
  <2>1. /\ main[1] = "join"
        /\ \/ main'[1] = "term" /\ main'[2] = main[2] + 1
           \/ main'[1] = "uninitData"
    BY <1>5 DEF JoinWorker, MainOnly, At
  <2>. QED BY <1>1, <1>2, <2>1 DEF MainRank, At
<1>6. CASE UninitData \/ UninitCtrl \/ UninitLog \/ JoinServer \/ JoinCount
  <2>1. \/ main[1] = "uninitData" /\ main'[1] = "uninitCtrl"
        \/ main[1] = "uninitCtrl" /\ main'[1] = "uninitLog"
        \/ main[1] = "uninitLog" /\ main'[1] = "joinServer"
        \/ main[1] = "joinServer" /\ main'[1] = "joinCount"
        \/ main[1] = "joinCount" /\ main'[1] = "end"
    BY <1>6 DEF UninitData, UninitCtrl, UninitLog, JoinServer, JoinCount, MainOnly, At
  <2>. QED BY <1>1, <2>1 DEF MainRank, At
<1>. QED BY <1>1, <1>3, <1>4, <1>5, <1>6 DEF Uninit

LEMMA ThreadsGetCloser ==
    ASSUME Served, ~runFlag
    PROVE  /\ \A c \in Caches : UpdaterStep(c) =>
                 /\ UpdaterRank(c)' < UpdaterRank(c) /\ \A d \in Caches : d # c => upd'[d] = upd[d]
                 /\ UNCHANGED <<wst, todo, inside, helper, main>>
           /\ HelperStep => \E q \in Queues :
                 /\ HelperRank(q)' < HelperRank(q) /\ \A p \in Queues : p # q => helper'[p] = helper[p]
                 /\ UNCHANGED <<wst, todo, inside, upd, main>>
           /\ Uninit => MainRank' < MainRank /\ UNCHANGED <<wst, todo, inside, upd, helper>>
<1>. USE DEF Served, Typed, TypeOK
<1>1. ASSUME NEW c \in Caches, UpdaterStep(c)
      PROVE  /\ UpdaterRank(c)' < UpdaterRank(c) /\ \A d \in Caches : d # c => upd'[d] = upd[d]
             /\ UNCHANGED <<wst, todo, inside, helper, main>>
  <2>1. \/ upd[c] = "sleep" /\ upd'[c] = "done"
        \/ upd[c] = "poll" /\ upd'[c] = "update"
        \/ upd[c] = "update" /\ upd'[c] \in {"swap", "sleep"}
        \/ upd[c] = "swap" /\ upd'[c] = "sleep"
    BY <1>1 DEF UpdaterStep, CacheStep, UpdWake, UpdWaitSwap, UpdUpdate, UpdSwap
  <2>2. (\A d \in Caches : d # c => upd'[d] = upd[d]) /\ UNCHANGED <<wst, todo, inside, helper, main>>
    BY <1>1 DEF UpdaterStep, CacheStep, UpdWake, UpdWaitSwap, UpdUpdate, UpdSwap, workerVars
  <2>. QED BY <2>1, <2>2 DEF UpdaterRank
<1>2. ASSUME HelperStep
      PROVE  \E q \in Queues :
                 /\ HelperRank(q)' < HelperRank(q) /\ \A p \in Queues : p # q => helper'[p] = helper[p]
                 /\ UNCHANGED <<wst, todo, inside, upd, main>>
  <2>1. ASSUME NEW q \in Queues, HelperExit(q)
        PROVE  /\ helper[q] = "run" /\ helper' = [helper EXCEPT ![q] = "done"]
               /\ UNCHANGED <<wst, todo, inside, upd, main>>
    BY <2>1 DEF HelperExit, workerVars
  <2>2. ASSUME CounterDrains \/ CounterExit
        PROVE  /\ \/ helper["record"] = "run" /\ helper' = [helper EXCEPT !["record"] = "drain"]
                  \/ helper["record"] = "drain" /\ helper' = [helper EXCEPT !["record"] = "done"]
               /\ UNCHANGED <<wst, todo, inside, upd, main>>
    BY <2>2 DEF CounterDrains, CounterExit, workerVars
  <2>3. PICK q \in Queues :
          /\ \/ helper[q] = "run" /\ helper' = [helper EXCEPT ![q] = "done"]
             \/ helper[q] = "run" /\ helper' = [helper EXCEPT ![q] = "drain"]
             \/ helper[q] = "drain" /\ helper' = [helper EXCEPT ![q] = "done"]
          /\ UNCHANGED <<wst, todo, inside, upd, main>>
    BY <1>2, <2>1, <2>2 DEF HelperStep, Queues
  <2>4. helper \in [Queues -> {"run", "drain", "done"}]
    OBVIOUS
  <2>5. HelperRank(q)' < HelperRank(q)
    BY <2>3, <2>4 DEF HelperRank
  <2>. QED BY <2>3, <2>4, <2>5
<1>3. ASSUME Uninit
      PROVE  MainRank' < MainRank /\ UNCHANGED <<wst, todo, inside, upd, helper>>
  BY <1>3, MainGetsCloser
<1>. QED BY <1>1, <1>2, <1>3

\* After the stop every step brings one thread closer to its end and none
\* further from it, whichever threads take turns; an answer of Redis is such a
\* step too, and that it comes is not said here.
THEOREM EveryStepTowardsTheEnd == Spec => [][~runFlag => RanksFall]_vars
<1>1. Served' => RankTypes'
  BY RanksAreNumbers, PTL
<1>2. Served /\ Served' /\ [Next]_vars => [~runFlag => RanksFall]_vars
  <2>. SUFFICES ASSUME Served, Served', Next, ~runFlag, vars' # vars PROVE RanksFall
    OBVIOUS
  <2>1. RankTypes /\ RankTypes'
    BY <1>1, RanksAreNumbers
  <2>2. ASSUME NEW w \in Workers, WorkerStep(w) \/ Accepted(w) \/ Die(w) PROVE RanksFall
    <3>1. WorkerRank(w)' < WorkerRank(w) /\ \A v \in Workers : v # w => WorkerRank(v)' = WorkerRank(v)
      BY <2>2, WorkerGetsCloser
    <3>2. /\ \A c \in Caches : UpdaterRank(c)' = UpdaterRank(c)
          /\ \A q \in Queues : HelperRank(q)' = HelperRank(q)
          /\ MainRank' = MainRank
      BY <2>2, WorkerGetsCloser, RanksStay
    <3>. QED BY <2>1, <3>1, <3>2 DEF RanksFall, RankTypes
  <2>3. ASSUME NEW c \in Caches, UpdaterStep(c) PROVE RanksFall
    <3>1. UpdaterRank(c)' < UpdaterRank(c) /\ \A d \in Caches : d # c => UpdaterRank(d)' = UpdaterRank(d)
      BY <2>3, ThreadsGetCloser, RanksStay
    <3>2. /\ \A w \in Workers : WorkerRank(w)' = WorkerRank(w)
          /\ \A q \in Queues : HelperRank(q)' = HelperRank(q)
          /\ MainRank' = MainRank
      BY <2>3, ThreadsGetCloser, RanksStay
    <3>. QED BY <2>1, <3>1, <3>2 DEF RanksFall, RankTypes
  <2>4. CASE HelperStep
    <3>1. PICK q \in Queues :
            /\ HelperRank(q)' < HelperRank(q) /\ \A p \in Queues : p # q => HelperRank(p)' = HelperRank(p)
            /\ UNCHANGED <<wst, todo, inside, upd, main>>
      BY <2>4, ThreadsGetCloser, RanksStay
    <3>2. /\ \A w \in Workers : WorkerRank(w)' = WorkerRank(w)
          /\ \A c \in Caches : UpdaterRank(c)' = UpdaterRank(c)
          /\ MainRank' = MainRank
      BY <3>1, RanksStay
    <3>. QED BY <2>1, <3>1, <3>2 DEF RanksFall, RankTypes
  <2>5. CASE Uninit
    <3>1. MainRank' < MainRank
      BY <2>5, MainGetsCloser
    <3>2. /\ \A w \in Workers : WorkerRank(w)' = WorkerRank(w)
          /\ \A c \in Caches : UpdaterRank(c)' = UpdaterRank(c)
          /\ \A q \in Queues : HelperRank(q)' = HelperRank(q)
      BY <2>5, MainGetsCloser, RanksStay
    <3>. QED BY <2>1, <3>1, <3>2 DEF RanksFall, RankTypes
  <2>. QED BY <2>2, <2>3, <2>4, <2>5 DEF Next, ThreadStep, Environment, UpdaterStep, HelperStep, StopBid, Finished
<1>. QED BY <1>2, SectionsInOrder, PTL DEF Spec, Served
------------------------------------------------------------------------------
(* The caches, as the life cycle uses them. *)

\* A list of sections takes each snapshot once.
TakesOnce(s) ==
    \A c \in Caches : \A i, j \in 1..Len(s) : s[i] = Get(c) /\ s[j] = Get(c) => i = j

\* A worker takes no snapshot that it holds already.
TakenOnce ==
    \A w \in Workers :
        /\ TakesOnce(todo[w])
        /\ \A c \in Caches : held[w][c] # Free => \A i \in 1..Len(todo[w]) : todo[w][i] # Get(c)

LEMMA StepsTakeOnce == \A kind \in Kinds : TakesOnce(Steps(kind))
<1>. SUFFICES ASSUME NEW kind \in {"dump", "refused", "bid"} PROVE TakesOnce(Steps(kind))
  BY EngineAssumption
<1>1. CASE kind = "dump"
  BY <1>1 DEF Steps, TakesOnce, Get, Caches
<1>2. CASE kind = "refused"
  BY <1>2 DEF Steps, TakesOnce, Get, Caches
<1>3. CASE kind = "bid"
  BY <1>3 DEF Steps, TakesOnce, Get, Caches
<1>. QED BY <1>1, <1>2, <1>3

LEMMA SnapshotsTakenOnce == Spec => []TakenOnce
<1>1. Init => TakenOnce
  BY DEF Init, TakenOnce, TakesOnce
<1>2. Served /\ GivesBack /\ TakenOnce /\ [Next]_vars => TakenOnce'
  <2>. SUFFICES ASSUME Served, GivesBack, TakenOnce, [Next]_vars PROVE TakenOnce'
    OBVIOUS
  <2>1. ASSUME NEW w \in Workers, LoopOrExit(w) PROVE TakenOnce'
    <3>1. held' = held /\ \A v \in Workers : todo'[v] = todo[v] \/ todo'[v] = <<"accept">>
      BY <2>1 DEF LoopOrExit, Served, Typed
    <3>2. /\ TakesOnce(<<"accept">>)
          /\ \A c \in Caches : \A i \in 1..Len(<<"accept">>) : <<"accept">>[i] # Get(c)
      BY DEF TakesOnce, Get
    <3>. QED BY <3>1, <3>2 DEF TakenOnce
  <2>2. ASSUME NEW w \in Workers, Accepted(w) PROVE TakenOnce'
    <3>1. /\ Len(todo[w]) = 1 /\ todo[w][1] = "accept" /\ held' = held
          /\ \A v \in Workers : v # w => todo'[v] = todo[v]
          /\ todo'[w] = <<>> \/ \E kind \in Kinds : todo'[w] = Steps(kind)
      BY <2>2, AcceptsAlone DEF Accepted, Served, Typed
    <3>2. \A c \in Caches : held[w][c] = Free
      BY <3>1 DEF GivesBack, Put
    <3>3. TakesOnce(<<>>)
      BY DEF TakesOnce
    <3>. QED BY <3>1, <3>2, <3>3, StepsTakeOnce DEF TakenOnce
  <2>3. ASSUME NEW w \in Workers, LeaveSection(w) \/ Locate(w) PROVE TakenOnce'
    <3>. DEFINE s == todo[w]
    <3>1. /\ s \in Seq(StepNames) /\ s # <<>> /\ Head(s) = s[1] /\ 1 \in 1..Len(s)
          /\ \A v \in Workers : v # w => todo'[v] = todo[v] /\ held'[v] = held[v]
          /\ todo'[w] = Tail(s)
      BY <2>3, FirstTakenAway
    <3>2. /\ Len(Tail(s)) = Len(s) - 1 /\ Len(s) \in Nat
          /\ \A i \in 1..Len(Tail(s)) : Tail(s)[i] = s[i + 1] /\ i + 1 \in 1..Len(s)
      BY <3>1, TailOf
    <3>3. TakesOnce(s) /\ \A c \in Caches : held[w][c] # Free => \A i \in 1..Len(s) : s[i] # Get(c)
      BY DEF TakenOnce
    <3>4. \A c \in Caches : held'[w][c] # Free => held[w][c] # Free \/ s[1] = Get(c)
      BY <2>3, SnapshotsMoved
    <3>. HIDE DEF s
    <3>5. TakesOnce(Tail(s))
      <4>. SUFFICES ASSUME NEW c \in Caches, NEW i \in 1..Len(Tail(s)), NEW j \in 1..Len(Tail(s)),
                           Tail(s)[i] = Get(c), Tail(s)[j] = Get(c)
                    PROVE  i = j
        BY DEF TakesOnce
      <4>1. s[i + 1] = Get(c) /\ s[j + 1] = Get(c) /\ i + 1 \in 1..Len(s) /\ j + 1 \in 1..Len(s)
        BY <3>2
      <4>2. i + 1 = j + 1
        BY <3>3, <4>1 DEF TakesOnce
      <4>. QED BY <3>2, <4>2
    <3>6. ASSUME NEW c \in Caches, held'[w][c] # Free, NEW i \in 1..Len(Tail(s))
          PROVE  Tail(s)[i] # Get(c)
      <4>1. Tail(s)[i] = s[i + 1] /\ i + 1 \in 1..Len(s) /\ i + 1 # 1
        BY <3>2
      <4>. QED BY <3>1, <3>3, <3>4, <3>6, <4>1 DEF TakesOnce
    <3>7. ASSUME NEW v \in Workers
          PROVE  /\ TakesOnce(todo'[v])
                 /\ \A c \in Caches : held'[v][c] # Free => \A i \in 1..Len(todo'[v]) : todo'[v][i] # Get(c)
      <4>1. CASE v = w
        BY <3>1, <3>5, <3>6, <4>1
      <4>2. CASE v # w
        BY <3>1, <4>2 DEF TakenOnce
      <4>. QED BY <4>1, <4>2
    <3>. QED BY <3>7 DEF TakenOnce, TakesOnce
  <2>4. ASSUME NEW w \in Workers, EnterSection(w) PROVE TakenOnce'
    BY <2>4 DEF EnterSection, TakenOnce
  <2>5. ASSUME UNCHANGED <<todo, inside, owner>>,
               \A w \in Workers : \A c \in Caches : held'[w][c] # Free => held[w][c] # Free
        PROVE  TakenOnce'
    BY <2>5 DEF TakenOnce
  <2>. QED BY <2>1, <2>2, <2>3, <2>4, <2>5, OthersKeepSections
           DEF Next, ThreadStep, WorkerStep, Environment, UpdaterStep, HelperStep
<1>. QED BY <1>1, <1>2, SectionsInOrder, SnapshotsAreReturned, PTL DEF Spec, Served

HeldOf(c) == [w \in Workers |-> IF held[w][c] = Free THEN "none" ELSE held[w][c]]

\* Every step leaves each cache alone or is one that DoubleCache offers.
LEMMA StepHandsOver ==
    ASSUME Served, TakenOnce, [Next]_vars, NEW c \in Caches
    PROVE  Handover(c)!Next \/ UNCHANGED <<~runFlag, HeldOf(c), upd[c]>>
<1>. USE EngineAssumption
<1>0. /\ held \in [Workers -> [Caches -> {"current", "idle", Free}]]
      /\ upd \in [Caches -> {"sleep", "poll", "update", "swap", "done"}]
      /\ runFlag \in BOOLEAN /\ Free # "current" /\ Free # "idle"
  BY DEF Served, Typed, TypeOK
<1>1. ASSUME NEW w \in Workers, LeaveSection(w)
      PROVE  Handover(c)!Next \/ UNCHANGED <<~runFlag, HeldOf(c), upd[c]>>
  <2>1. /\ UNCHANGED <<runFlag, upd>>
        /\ \A v \in Workers : v # w => held'[v] = held[v]
        /\ Head(todo[w]) = todo[w][1] /\ 1 \in 1..Len(todo[w])
    BY <1>0, <1>1, FirstOf DEF LeaveSection, helperVars, Served, Typed, TypeOK
  <2>2. CASE Head(todo[w]) = Get(c)
    <3>1. held[w][c] = Free
      BY <2>1, <2>2 DEF TakenOnce
    <3>2. held'[w][c] = "current"
      BY <1>0, <1>1, <2>2 DEF LeaveSection, LockOf, Get, Caches
    <3>3. HeldOf(c)[w] = "none" /\ HeldOf(c)' = [HeldOf(c) EXCEPT ![w] = "current"]
      BY <1>0, <2>1, <3>1, <3>2 DEF HeldOf
    <3>4. Handover(c)!Take(w)
      BY <2>1, <3>3 DEF Handover!Take, HeldOf
    <3>. QED BY <3>4 DEF Handover!Next
  <2>3. CASE Head(todo[w]) = Put(c)
    <3>1. held'[w][c] = Free
      BY <1>0, <1>1, <2>3 DEF LeaveSection, LockOf, Put, Caches
    <3>2. HeldOf(c)' = [HeldOf(c) EXCEPT ![w] = "none"]
      BY <1>0, <2>1, <3>1 DEF HeldOf
    <3>3. CASE HeldOf(c)[w] = "none"
      <4>1. HeldOf(c)' = HeldOf(c)
        BY <3>2, <3>3 DEF HeldOf
      <4>. QED BY <2>1, <4>1
    <3>4. CASE HeldOf(c)[w] # "none"
      <4>1. Handover(c)!GiveBack(w)
        BY <2>1, <3>2, <3>4 DEF Handover!GiveBack, HeldOf
      <4>. QED BY <4>1 DEF Handover!Next
    <3>. QED BY <3>3, <3>4
  <2>4. CASE Head(todo[w]) # Get(c) /\ Head(todo[w]) # Put(c)
    <3>1. held'[w][c] = held[w][c]
      BY <1>0, <1>1, <2>4 DEF LeaveSection, LockOf, Get, Put, Caches
    <3>2. HeldOf(c)' = HeldOf(c)
      BY <2>1, <3>1 DEF HeldOf
    <3>. QED BY <2>1, <3>2
  <2>. QED BY <2>2, <2>3, <2>4
<1>2. ASSUME NEW d \in Caches, UpdaterStep(d)
      PROVE  Handover(c)!Next \/ UNCHANGED <<~runFlag, HeldOf(c), upd[c]>>
  <2>0. runFlag' = runFlag
    BY <1>2 DEF UpdaterStep, CacheStep, UpdWake, UpdWaitSwap, UpdUpdate, UpdSwap
  <2>1. CASE d # c
    <3>1. upd'[c] = upd[c] /\ \A w \in Workers : held'[w][c] = held[w][c]
      BY <1>0, <1>2, <2>1 DEF UpdaterStep, CacheStep, UpdWake, UpdWaitSwap, UpdUpdate, UpdSwap, workerVars
    <3>2. HeldOf(c)' = HeldOf(c)
      BY <3>1 DEF HeldOf
    <3>. QED BY <2>0, <3>1, <3>2
  <2>2. CASE d = c /\ UpdSwap(c)
    <3>1. upd[c] = "swap" /\ upd'[c] = "sleep" /\ held' = [w \in Workers |-> [held[w] EXCEPT ![c] = Swapped(@)]]
      BY <1>0, <2>2 DEF UpdSwap
    <3>2. \A w \in Workers : HeldOf(c)'[w] = Handover(c)!Other(HeldOf(c)[w])
      BY <1>0, <3>1 DEF HeldOf, Swapped, Handover!Other
    <3>3. HeldOf(c)' = [w \in Workers |-> Handover(c)!Other(HeldOf(c)[w])]
      BY <3>2 DEF HeldOf
    <3>4. Handover(c)!Swap
      BY <2>0, <3>1, <3>3 DEF Handover!Swap, Handover!Goes, HeldOf
    <3>. QED BY <3>4 DEF Handover!Next
  <2>3. CASE d = c /\ (UpdWake(c) \/ UpdWaitSwap(c) \/ UpdUpdate(c))
    <3>1. held' = held /\ HeldOf(c)' = HeldOf(c)
      BY <2>3 DEF UpdWake, UpdWaitSwap, UpdUpdate, workerVars, HeldOf
    <3>2. CASE UpdWake(c)
      <4>1. Handover(c)!Wake
        BY <1>0, <2>0, <3>1, <3>2 DEF UpdWake, Handover!Wake, Handover!Goes, HeldOf
      <4>. QED BY <4>1 DEF Handover!Next
    <3>3. CASE UpdWaitSwap(c)
      <4>1. \A w \in Workers : HeldOf(c)[w] # "idle"
        BY <3>3 DEF UpdWaitSwap, IdleReaders, HeldOf
      <4>2. Handover(c)!Begin
        BY <1>0, <2>0, <3>1, <3>3, <4>1 DEF UpdWaitSwap, Handover!Begin, Handover!Goes, HeldOf
      <4>. QED BY <4>2 DEF Handover!Next
    <3>4. CASE UpdUpdate(c)
      <4>1. Handover(c)!End
        BY <1>0, <2>0, <3>1, <3>4 DEF UpdUpdate, Handover!End, Handover!Goes, HeldOf
      <4>. QED BY <4>1 DEF Handover!Next
    <3>. QED BY <2>3, <3>2, <3>3, <3>4
  <2>. QED BY <1>2, <2>1, <2>2, <2>3 DEF UpdaterStep, CacheStep
<1>3. ASSUME \/ \E w \in Workers : Start(w) \/ LoopOrExit(w) \/ EnterSection(w) \/ Locate(w) \/ Accepted(w) \/ Die(w)
             \/ HelperStep
             \/ Uninit \/ Finished \/ UNCHANGED vars
      PROVE  UNCHANGED <<~runFlag, HeldOf(c), upd[c]>>
  <2>1. UNCHANGED <<runFlag, held, upd>>
    BY <1>3 DEF Start, LoopOrExit, EnterSection, Locate, Accepted, Die, HelperStep, HelperExit,
       CounterDrains, CounterExit, Uninit, CloseTable, TermWorker,
                JoinWorker, UninitData, UninitCtrl, UninitLog, JoinServer, JoinCount, MainOnly, Finished,
                vars, workerVars, helperVars
  <2>. QED BY <2>1 DEF HeldOf
<1>4. CASE StopBid
  <2>1. runFlag = TRUE /\ runFlag' = FALSE /\ UNCHANGED <<held, upd>>
    BY <1>0, <1>4 DEF StopBid, workerVars, helperVars
  <2>2. Handover(c)!Stop
    BY <2>1 DEF Handover!Stop
  <2>. QED BY <2>2 DEF Handover!Next
<1>. QED BY <1>1, <1>2, <1>3, <1>4 DEF Next, ThreadStep, WorkerStep, Environment, UpdaterStep, HelperStep

\* The buffers of each cache pass between the workers and the updater as those
\* of DoubleCache do, cancelled workers included.
THEOREM CachesHandedOver == Spec => CachesHandOver
<1>1. ASSUME NEW c \in Caches PROVE Spec => Handover(c)!Spec
  <2>1. Init => Handover(c)!Init
    BY DEF Init, Handover!Init
  <2>2. Served /\ TakenOnce /\ [Next]_vars => [Handover(c)!Next]_(Handover(c)!vars)
    BY StepHandsOver DEF Handover!vars, HeldOf
  <2>. QED BY <2>1, <2>2, SectionsInOrder, SnapshotsTakenOnce, PTL DEF Spec, Served, Handover!Spec
<1>. QED BY <1>1 DEF CachesHandOver
==============================================================================
