----------------------------- MODULE DoubleCache -----------------------------
(***************************************************************************)
(* The double buffer of common/baselib/double_cache.h: worker threads read *)
(* the current of two buffers, one updater thread reloads the other one    *)
(* and then swaps them.  GetData and ReleaseData count the readers of each *)
(* buffer in a semaphore under a mutex; the updater polls the semaphore of *)
(* the idle buffer WITHOUT the mutex before it overwrites the buffer.      *)
(*                                                                         *)
(* Every statement of the code that touches shared state is a step of its  *)
(* own.  The content of a buffer is abstracted to the serial number of the *)
(* load that filled it and to how far that load got.                       *)
(***************************************************************************)
EXTENDS Naturals, FiniteSets

CONSTANTS Workers,     \* the threads that call GetData and ReleaseData
          Updater,     \* the thread that executes DoubleCache::run
          Nobody,      \* the owner of a free mutex, and an empty view
          MaxLoads     \* bound: how many loads the updater starts

\* "empty": constructed, never loaded; "loading": Update is writing it.
Content == [load : Nat, status : {"empty", "loading", "whole", "failed"}]

ASSUME WorkersAssumption ==
    /\ IsFiniteSet(Workers)
    /\ Updater \notin Workers
    /\ Nobody \notin Workers \cup {Updater}
    /\ Nobody \notin Content

ASSUME MaxLoadsAssumption == MaxLoads \in Nat \ {0}

VARIABLES
    mutex,     \* _mutex: the thread that owns it, or Nobody
    sem,       \* _semidarr: the value of each semaphore
    extsem,    \* _extsemid: the index of the semaphore it points to
    cur,       \* _cur
    content,   \* _arr: what each buffer holds
    wpc, ret,  \* where each worker is, and the pointer GetData returned to it
    upc, next, \* where the updater is, and its local variable next
    loads,     \* how many loads were started so far (serial numbers)
    runFlag    \* *_run_flag

workerVars == <<wpc, ret>>
updaterVars == <<upc, next, loads>>
vars == <<mutex, sem, extsem, cur, content, workerVars, updaterVars, runFlag>>

Buffers == {0, 1}

\* Start of the engine's service: Init has loaded buffer 0, whatever Update
\* returned, and has started the updater.
Init ==
    /\ mutex = Nobody
    /\ sem = [b \in Buffers |-> 0]
    /\ extsem = 0
    /\ cur = 0
    /\ \E s \in {"whole", "failed"} :
          content = [b \in Buffers |-> IF b = 0 THEN [load |-> 1, status |-> s]
                                                ELSE [load |-> 0, status |-> "empty"]]
    /\ wpc = [w \in Workers |-> "idle"]
    /\ ret = [w \in Workers |-> 0]
    /\ upc = "sleep"
    /\ next = 0
    /\ loads = 1
    /\ runFlag = TRUE

Lock(t) == mutex = Nobody /\ mutex' = t

Unlock(t) == mutex = t /\ mutex' = Nobody

Goto(w, from, to) == wpc[w] = from /\ wpc' = [wpc EXCEPT ![w] = to]
------------------------------------------------------------------------------
(* Seeded faults: wrong variants of the actions below, each of which must   *)
(* break a property.                                                        *)

\* GetData posts on the semaphore of the buffer that is not current.
GetPostOnOther(w) ==
    /\ Goto(w, "post", "read")
    /\ sem' = [sem EXCEPT ![1 - extsem] = @ + 1]
    /\ UNCHANGED <<mutex, extsem, cur, content, ret, updaterVars, runFlag>>

\* ReleaseData forgets to select the second semaphore and does not wait.
RelWaitOnFirst(w) ==
    /\ Goto(w, "wait", "unlock")
    /\ sem' = [sem EXCEPT ![0] = @ - 1]
    /\ UNCHANGED <<mutex, extsem, cur, content, ret, updaterVars, runFlag>>

\* ReleaseData returns without taking its unit back.
RelWaitLeaks(w) ==
    /\ Goto(w, "wait", "unlock")
    /\ UNCHANGED <<mutex, sem, extsem, cur, content, ret, updaterVars, runFlag>>

\* The updater picks the buffer that is current instead of the other one.
WakeOnCurrent ==
    /\ upc = "sleep"
    /\ runFlag
    /\ loads < MaxLoads
    /\ upc' = "poll"
    /\ next' = cur
    /\ UNCHANGED <<mutex, sem, extsem, cur, content, workerVars, loads, runFlag>>

\* A reload that failed is swapped in like any other.
UpdateEndUnchecked ==
    /\ upc = "filling"
    /\ \E s \in {"whole", "failed"} : content' = [content EXCEPT ![next % 2].status = s]
    /\ upc' = "lock"
    /\ UNCHANGED <<mutex, sem, extsem, cur, workerVars, next, loads, runFlag>>

\* The swap forgets to redirect _extsemid.
SwapExtForgotten ==
    /\ upc = "ext"
    /\ upc' = "cur"
    /\ UNCHANGED <<mutex, sem, extsem, cur, content, workerVars, next, loads, runFlag>>
------------------------------------------------------------------------------
(* GetData *)

GetLock(w) ==
    /\ Goto(w, "idle", "post")
    /\ Lock(w)
    /\ UNCHANGED <<sem, extsem, cur, content, ret, updaterVars, runFlag>>

GetPost(w) ==
    /\ Goto(w, "post", "read")
    /\ sem' = [sem EXCEPT ![extsem] = @ + 1]
    /\ UNCHANGED <<mutex, extsem, cur, content, ret, updaterVars, runFlag>>

GetRead(w) ==
    /\ Goto(w, "read", "got")
    /\ ret' = [ret EXCEPT ![w] = cur % 2]
    /\ UNCHANGED <<mutex, sem, extsem, cur, content, updaterVars, runFlag>>

GetUnlock(w) ==
    /\ Goto(w, "got", "using")
    /\ Unlock(w)
    /\ UNCHANGED <<sem, extsem, cur, content, ret, updaterVars, runFlag>>

(* ReleaseData: sem_wait blocks, with the mutex held, while the value is 0. *)

RelLock(w) ==
    /\ Goto(w, "using", "wait")
    /\ Lock(w)
    /\ UNCHANGED <<sem, extsem, cur, content, ret, updaterVars, runFlag>>

RelWait(w) ==
    /\ Goto(w, "wait", "unlock")
    /\ sem[ret[w]] > 0
    /\ sem' = [sem EXCEPT ![ret[w]] = @ - 1]
    /\ UNCHANGED <<mutex, extsem, cur, content, ret, updaterVars, runFlag>>

RelUnlock(w) ==
    /\ Goto(w, "unlock", "idle")
    /\ Unlock(w)
    /\ UNCHANGED <<sem, extsem, cur, content, ret, updaterVars, runFlag>>
------------------------------------------------------------------------------
(* The updater: run and WaitSwap *)

\* The interval is over and the flag is still set.
Wake ==
    /\ upc = "sleep"
    /\ runFlag
    /\ loads < MaxLoads
    /\ upc' = "poll"
    /\ next' = cur + 1
    /\ UNCHANGED <<mutex, sem, extsem, cur, content, workerVars, loads, runFlag>>

\* The flag is looked at by the loop, by the sleep and after the sleep.
Exit ==
    /\ upc = "sleep"
    /\ ~runFlag
    /\ upc' = "done"
    /\ UNCHANGED <<mutex, sem, extsem, cur, content, workerVars, next, loads, runFlag>>

\* WaitSwap returns; it reads the semaphore without the mutex and does not
\* look at the flag.
WaitSwap ==
    /\ upc = "poll"
    /\ sem[next % 2] = 0
    /\ upc' = "update"
    /\ UNCHANGED <<mutex, sem, extsem, cur, content, workerVars, next, loads, runFlag>>

\* Update first clears the buffer and then fills it, over many round trips.
UpdateBegin ==
    /\ upc = "update"
    /\ upc' = "filling"
    /\ loads' = loads + 1
    /\ content' = [content EXCEPT ![next % 2] = [load |-> loads + 1, status |-> "loading"]]
    /\ UNCHANGED <<mutex, sem, extsem, cur, workerVars, next, runFlag>>

UpdateEnd ==
    /\ upc = "filling"
    /\ \E s \in {"whole", "failed"} :
          /\ content' = [content EXCEPT ![next % 2].status = s]
          /\ upc' = IF s = "whole" THEN "lock" ELSE "sleep"
    /\ UNCHANGED <<mutex, sem, extsem, cur, workerVars, next, loads, runFlag>>

SwapLock ==
    /\ upc = "lock"
    /\ Lock(Updater)
    /\ upc' = "ext"
    /\ UNCHANGED <<sem, extsem, cur, content, workerVars, next, loads, runFlag>>

SwapExt ==
    /\ upc = "ext"
    /\ extsem' = next % 2
    /\ upc' = "cur"
    /\ UNCHANGED <<mutex, sem, cur, content, workerVars, next, loads, runFlag>>

SwapCur ==
    /\ upc = "cur"
    /\ cur' = cur + 1
    /\ upc' = "unlock"
    /\ UNCHANGED <<mutex, sem, extsem, content, workerVars, next, loads, runFlag>>

SwapUnlock ==
    /\ upc = "unlock"
    /\ Unlock(Updater)
    /\ upc' = "sleep"
    /\ UNCHANGED <<sem, extsem, cur, content, workerVars, next, loads, runFlag>>
------------------------------------------------------------------------------
\* BidContext::StopBid clears the flag that the cache was given.
Stop ==
    /\ runFlag
    /\ runFlag' = FALSE
    /\ UNCHANGED <<mutex, sem, extsem, cur, content, workerVars, updaterVars>>

GetData(w) == GetLock(w) \/ GetPost(w) \/ GetRead(w) \/ GetUnlock(w)

ReleaseData(w) == RelLock(w) \/ RelWait(w) \/ RelUnlock(w)

Swap == SwapLock \/ SwapExt \/ SwapCur \/ SwapUnlock

run == Wake \/ Exit \/ WaitSwap \/ UpdateBegin \/ UpdateEnd \/ Swap

Next ==
    \/ \E w \in Workers : GetData(w) \/ ReleaseData(w)
    \/ run
    \/ Stop

Spec == Init /\ [][Next]_vars

\* Threads are scheduled, a request ends, and a thread that keeps asking for
\* the mutex while others come and go obtains it.  Nobody has to ask for the
\* data, and nobody has to stop the engine.
Fairness ==
    /\ \A w \in Workers :
          /\ WF_vars(GetPost(w) \/ GetRead(w) \/ GetUnlock(w) \/ RelWait(w) \/ RelUnlock(w))
          /\ SF_vars(RelLock(w))
    /\ WF_vars(Exit) /\ WF_vars(WaitSwap) /\ WF_vars(UpdateBegin) /\ WF_vars(UpdateEnd)
    /\ SF_vars(SwapLock)
    /\ WF_vars(SwapExt \/ SwapCur \/ SwapUnlock)

FairSpec == Spec /\ Fairness
------------------------------------------------------------------------------
\* The worker has a pointer to a buffer and has not given it back yet.
Looking(w) == wpc[w] \in {"got", "using", "wait"}

\* The workers that semaphore b counts: those that have posted on it and will
\* read _cur next, and those that look at buffer b.
Counted(b) == {w \in Workers : \/ wpc[w] = "read" /\ extsem = b
                               \/ Looking(w) /\ ret[w] = b}

\* Every variable keeps the shape its C++ counterpart has; a semaphore in
\* particular never goes below zero.
TypeOK ==
    /\ mutex \in Workers \cup {Updater, Nobody}
    /\ sem \in [Buffers -> Nat]
    /\ extsem \in Buffers
    /\ cur \in Nat
    /\ content \in [Buffers -> Content]
    /\ wpc \in [Workers -> {"idle", "post", "read", "got", "using", "wait", "unlock"}]
    /\ ret \in [Workers -> Buffers]
    /\ upc \in {"sleep", "poll", "update", "filling", "lock", "ext", "cur", "unlock", "done"}
    /\ next \in Nat
    /\ loads \in Nat
    /\ runFlag \in BOOLEAN

\* No request is ever served from a buffer that Update is writing, although
\* WaitSwap looks at the semaphore without the mutex and only once; nor from
\* a load that failed, except the very first one, whose result Init ignores.
NoTornRead ==
    \A w \in Workers : Looking(w) =>
        \/ content[ret[w]].status = "whole"
        \/ content[ret[w]] = [load |-> 1, status |-> "failed"]

\* GetData posts on _extsemid and reads _cur in two statements, and the swap
\* changes the two in two statements: still each semaphore counts exactly the
\* workers that look at its buffer.
SemaphoreCountsReaders ==
    \A b \in Buffers : sem[b] = Cardinality(Counted(b))

\* ReleaseData calls sem_wait while it holds the mutex: were the semaphore
\* zero, the worker would stop every other worker and the updater for good.
ReleaseNeverBlocks ==
    \A w \in Workers : wpc[w] = "wait" => sem[ret[w]] > 0

\* The two buffers, the two semaphores and the mutex implement one snapshot
\* that workers take atomically and that does not change while they look.
Store == INSTANCE SnapshotStore WITH
    NoSnapshot <- Nobody,
    published  <- content[cur % 2],
    view       <- [w \in Workers |-> IF Looking(w) THEN content[ret[w]] ELSE Nobody]

ImplementsSnapshotStore == Store!Spec

\* The buffer that w holds, by the place it has now, and where the updater is.
HeldNow == [w \in Workers |-> IF ~Looking(w) THEN "none" ELSE IF ret[w] = cur % 2 THEN "current" ELSE "idle"]
UpdaterNow ==
    IF upc = "filling" THEN "update" ELSE IF upc \in {"lock", "ext", "cur"} THEN "swap"
    ELSE IF upc = "unlock" THEN "sleep" ELSE upc

\* The buffers pass between the workers and the updater as the life cycle of
\* the engine relies on: the swap is the increment of _cur, and WaitSwap lets
\* the updater through only when the idle buffer has no reader.
Handover == INSTANCE BufferHandover WITH stopped <- ~runFlag, held <- HeldNow, upd <- UpdaterNow

ImplementsHandover == Handover!Spec

\* WaitSwap polls for ever, but the idle buffer gets no new reader: once the
\* requests that still look at it end, the updater overwrites it.
UpdaterGetsThrough == upc = "poll" ~> upc = "update"

\* When the engine stops and requests end, the updater leaves its loop, also
\* from WaitSwap, which never looks at the flag; DoubleCache::Uninit can join.
StopIsObserved == ~runFlag ~> upc = "done"
------------------------------------------------------------------------------
(* Why it works: the parts of an inductive invariant. *)

\* The owner of the mutex is the thread that executes a critical section.
MutexOwner ==
    /\ \A w \in Workers : mutex = w <=> wpc[w] \in {"post", "read", "got", "wait", "unlock"}
    /\ mutex = Updater <=> upc \in {"ext", "cur", "unlock"}

\* _extsemid and _cur name the same buffer, except between the two statements
\* of the swap; next is the other one until the swap is over.
PointersAgree ==
    /\ extsem = IF upc = "cur" THEN (cur + 1) % 2 ELSE cur % 2
    /\ upc \in {"poll", "update", "filling", "lock", "ext", "cur"} => next = cur + 1

\* Once WaitSwap saw zero the idle buffer stays without readers.
IdleBufferFree ==
    upc \in {"update", "filling", "lock", "ext", "cur"} => Counted(next % 2) = {}

Servable(c) == c.status = "whole" \/ c = [load |-> 1, status |-> "failed"]

\* The current buffer and every buffer somebody looks at can be served, and
\* the buffer under reload carries a later load than the current one.
ContentsServable ==
    /\ Servable(content[cur % 2])
    /\ \A w \in Workers : Looking(w) => Servable(content[ret[w]])
    /\ \A b \in Buffers : content[b].load <= loads
    /\ upc \in {"filling", "lock", "ext", "cur"} =>
           content[next % 2].load > content[cur % 2].load
    /\ upc \in {"lock", "ext", "cur"} => content[next % 2].status = "whole"

\* The inductive invariant of the double buffer.
IInv ==
    /\ TypeOK
    /\ MutexOwner
    /\ PointersAgree
    /\ SemaphoreCountsReaders
    /\ IdleBufferFree
    /\ ContentsServable
==============================================================================
