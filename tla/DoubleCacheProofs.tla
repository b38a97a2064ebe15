-------------------------- MODULE DoubleCacheProofs --------------------------
(***************************************************************************)
(* The double buffer is safe for every finite set of workers and every     *)
(* number of reloads; it implements the snapshot store, and it hands its   *)
(* buffers over as the life cycle of the engine takes it.  No thread waits *)
(* for ever while requests go on: what is left is that they do.            *)
(***************************************************************************)
EXTENDS DoubleCache, FiniteSetTheorems, TLAPS

\* Two consecutive values of _cur name different buffers.
LEMMA Parity ==
    \A n \in Nat : n % 2 \in Buffers /\ (n + 1) % 2 \in Buffers /\ (n + 1) % 2 # n % 2
BY DEF Buffers

\* The variables keep their types.
THEOREM TypeCorrect == Spec => []TypeOK
<1> USE DEF TypeOK
<1>1. Init => TypeOK
  BY MaxLoadsAssumption DEF Init, Buffers, Content
<1>2. TypeOK /\ [Next]_vars => TypeOK'
  <2> SUFFICES ASSUME TypeOK, [Next]_vars PROVE TypeOK'
    OBVIOUS
  <2>1. ASSUME NEW w \in Workers, GetData(w) PROVE TypeOK'
    BY <2>1, Parity DEF GetData, GetLock, GetPost, GetRead, GetUnlock, Goto, Lock, Unlock,
                        updaterVars, Buffers
  <2>2. ASSUME NEW w \in Workers, ReleaseData(w) PROVE TypeOK'
    BY <2>2 DEF ReleaseData, RelLock, RelWait, RelUnlock, Goto, Lock, Unlock, updaterVars, Buffers
  <2>3. ASSUME Wake \/ Exit \/ WaitSwap \/ Stop PROVE TypeOK'
    <3>1. /\ UNCHANGED <<mutex, sem, extsem, cur, content, workerVars, loads>>
          /\ next' \in {next, cur + 1}
          /\ upc' \in {upc, "poll", "done", "update"}
      BY <2>3 DEF Wake, Exit, WaitSwap, Stop, updaterVars
    <3>2. runFlag' \in BOOLEAN
      BY <2>3, Zenon DEF Wake, Exit, WaitSwap, Stop
    <3> QED BY <3>1, <3>2 DEF workerVars
  <2>4. CASE UpdateBegin
    BY <2>4, Parity DEF UpdateBegin, workerVars, Content
  <2>5. CASE UpdateEnd
    <3>1. PICK s \in {"whole", "failed"} : content' = [content EXCEPT ![next % 2].status = s]
      BY <2>5 DEF UpdateEnd
    <3>2. content' \in [Buffers -> Content]
      BY <3>1, Parity DEF Content
    <3> QED BY <2>5, <3>2 DEF UpdateEnd, workerVars
  <2>6. CASE Swap
    BY <2>6, Parity DEF Swap, SwapLock, SwapExt, SwapCur, SwapUnlock, Lock, Unlock, workerVars
  <2>7. CASE UNCHANGED vars
    BY <2>7 DEF vars, workerVars, updaterVars
  <2> QED BY <2>1, <2>2, <2>3, <2>4, <2>5, <2>6, <2>7 DEF Next, run
<1> QED BY <1>1, <1>2, PTL DEF Spec

\* The critical sections exclude each other, and the two names of the current
\* buffer agree outside the swap.
THEOREM MutualExclusion == Spec => [](MutexOwner /\ PointersAgree)
<1> DEFINE I == MutexOwner /\ PointersAgree
<1> USE DEF MutexOwner, PointersAgree
<1>1. Init => I
  BY WorkersAssumption DEF Init
<1>2. TypeOK /\ I /\ [Next]_vars => I'
  <2> SUFFICES ASSUME TypeOK, I, [Next]_vars PROVE I'
    OBVIOUS
  <2> USE WorkersAssumption DEF TypeOK
  <2>1. ASSUME NEW w \in Workers, GetData(w) PROVE I'
    BY <2>1 DEF GetData, GetLock, GetPost, GetRead, GetUnlock, Goto, Lock, Unlock, updaterVars
  <2>2. ASSUME NEW w \in Workers, ReleaseData(w) PROVE I'
    BY <2>2 DEF ReleaseData, RelLock, RelWait, RelUnlock, Goto, Lock, Unlock, updaterVars
  <2>3. CASE Wake \/ Exit \/ WaitSwap \/ Stop \/ UpdateBegin \/ UpdateEnd
    BY <2>3 DEF Wake, Exit, WaitSwap, Stop, UpdateBegin, UpdateEnd, workerVars, updaterVars
  <2>4. CASE Swap
    BY <2>4 DEF Swap, SwapLock, SwapExt, SwapCur, SwapUnlock, Lock, Unlock, workerVars
  <2>5. CASE UNCHANGED vars
    BY <2>5 DEF vars, workerVars, updaterVars
  <2> QED BY <2>1, <2>2, <2>3, <2>4, <2>5 DEF Next, run
<1> QED BY <1>1, <1>2, TypeCorrect, PTL DEF Spec

(***************************************************************************)
(* How each step changes the set of workers that a semaphore counts.       *)
(***************************************************************************)
Safe == TypeOK /\ MutexOwner /\ PointersAgree

LEMMA CountedFinite == ASSUME NEW b PROVE IsFiniteSet(Counted(b))
BY WorkersAssumption, FS_Subset DEF Counted

\* A worker that has not posted yet is counted by nobody.
LEMMA CountedAfterPost ==
    ASSUME Safe, NEW w \in Workers, GetPost(w), NEW b \in Buffers
    PROVE  /\ w \notin Counted(b)
           /\ Counted(b)' = IF b = extsem THEN Counted(b) \cup {w} ELSE Counted(b)
BY WorkersAssumption DEF Safe, TypeOK, MutexOwner, Counted, Looking, GetPost, Goto, updaterVars

\* Giving the buffer back takes the worker out of the count of that buffer.
LEMMA CountedAfterWait ==
    ASSUME Safe, NEW w \in Workers, RelWait(w), NEW b \in Buffers
    PROVE  /\ w \in Counted(ret[w])
           /\ Counted(b)' = IF b = ret[w] THEN Counted(b) \ {w} ELSE Counted(b)
BY WorkersAssumption DEF Safe, TypeOK, MutexOwner, Counted, Looking, RelWait, Goto, updaterVars

\* Every other step, the two halves of the swap included, leaves it alone.
LEMMA CountedOtherwise ==
    ASSUME Safe, NEW b \in Buffers,
           \/ \E w \in Workers : GetLock(w) \/ GetRead(w) \/ GetUnlock(w) \/ RelLock(w) \/ RelUnlock(w)
           \/ run \/ Stop \/ UNCHANGED vars
    PROVE  Counted(b)' = Counted(b) /\ sem' = sem
<1> USE WorkersAssumption DEF Safe, TypeOK, MutexOwner, PointersAgree, Counted, Looking, updaterVars
<1>1. ASSUME NEW w \in Workers, GetLock(w) \/ GetUnlock(w) \/ RelLock(w) \/ RelUnlock(w)
      PROVE  Counted(b)' = Counted(b) /\ sem' = sem
  BY <1>1 DEF GetLock, GetUnlock, RelLock, RelUnlock, Goto
<1>2. ASSUME NEW w \in Workers, GetRead(w)
      PROVE  Counted(b)' = Counted(b) /\ sem' = sem
  BY <1>2 DEF GetRead, Goto
<1>3. CASE SwapExt
  BY <1>3 DEF SwapExt, workerVars
<1>4. ASSUME \/ Wake \/ Exit \/ WaitSwap \/ UpdateBegin \/ UpdateEnd
             \/ SwapLock \/ SwapCur \/ SwapUnlock \/ Stop \/ UNCHANGED vars
      PROVE  Counted(b)' = Counted(b) /\ sem' = sem
  <2>1. UNCHANGED <<wpc, ret, extsem, sem>>
    BY <1>4 DEF Wake, Exit, WaitSwap, UpdateBegin, UpdateEnd, SwapLock, SwapCur, SwapUnlock, Stop,
                vars, workerVars
  <2> QED BY <2>1
<1> QED BY <1>1, <1>2, <1>3, <1>4 DEF run, Swap

\* The semaphores count the readers of their buffers in every reachable state.
THEOREM ReadersCounted == Spec => []SemaphoreCountsReaders
<1>1. Init => SemaphoreCountsReaders
  <2> SUFFICES ASSUME Init, NEW b \in Buffers PROVE sem[b] = Cardinality(Counted(b))
    BY DEF SemaphoreCountsReaders
  <2>1. Counted(b) = {}
    BY DEF Init, Counted, Looking
  <2> QED BY <2>1, FS_EmptySet DEF Init
<1>2. Safe /\ SemaphoreCountsReaders /\ [Next]_vars => SemaphoreCountsReaders'
  <2> SUFFICES ASSUME Safe, SemaphoreCountsReaders, [Next]_vars, NEW b \in Buffers
               PROVE  sem'[b] = Cardinality(Counted(b)')
    BY DEF SemaphoreCountsReaders
  <2>1. sem[b] = Cardinality(Counted(b)) /\ sem \in [Buffers -> Nat]
    BY DEF SemaphoreCountsReaders, Safe, TypeOK
  <2>2. ASSUME NEW w \in Workers, GetPost(w) PROVE sem'[b] = Cardinality(Counted(b)')
    <3>1. Cardinality(Counted(b) \cup {w}) = Cardinality(Counted(b)) + 1
      BY <2>2, CountedAfterPost, CountedFinite, FS_AddElement
    <3>2. sem'[b] = IF b = extsem THEN sem[b] + 1 ELSE sem[b]
      BY <2>1, <2>2 DEF GetPost
    <3> QED BY <2>1, <2>2, <3>1, <3>2, CountedAfterPost
  <2>3. ASSUME NEW w \in Workers, RelWait(w) PROVE sem'[b] = Cardinality(Counted(b)')
    <3>1. b = ret[w] => Cardinality(Counted(b) \ {w}) = Cardinality(Counted(b)) - 1
      BY <2>3, CountedAfterWait, CountedFinite, FS_RemoveElement
    <3>2. sem'[b] = IF b = ret[w] THEN sem[b] - 1 ELSE sem[b]
      BY <2>1, <2>3 DEF RelWait
    <3> QED BY <2>1, <2>3, <3>1, <3>2, CountedAfterWait
  <2> QED BY <2>1, <2>2, <2>3, CountedOtherwise DEF Next, GetData, ReleaseData
<1> QED BY <1>1, <1>2, TypeCorrect, MutualExclusion, PTL DEF Spec, Safe

\* A worker inside ReleaseData is counted, so its sem_wait never blocks while
\* it owns the mutex.
THEOREM ReleaseGoesThrough == Spec => []ReleaseNeverBlocks
<1>1. TypeOK /\ SemaphoreCountsReaders => ReleaseNeverBlocks
  <2> SUFFICES ASSUME TypeOK, SemaphoreCountsReaders, NEW w \in Workers, wpc[w] = "wait"
               PROVE  sem[ret[w]] > 0
    BY DEF ReleaseNeverBlocks
  <2>1. ret[w] \in Buffers /\ w \in Counted(ret[w])
    BY DEF TypeOK, Counted, Looking
  <2>2. Cardinality(Counted(ret[w])) # 0
    BY <2>1, CountedFinite, FS_EmptySet
  <2> QED BY <2>1, <2>2 DEF SemaphoreCountsReaders, TypeOK
<1> QED BY <1>1, TypeCorrect, ReadersCounted, PTL

\* Between the poll and the swap the idle buffer has no reader: the semaphore
\* was zero when WaitSwap looked, and GetData posts on the other one.
THEOREM IdleBufferStaysFree == Spec => []IdleBufferFree
<1>1. Init => IdleBufferFree
  BY DEF Init, IdleBufferFree
<1>2. Safe /\ SemaphoreCountsReaders /\ IdleBufferFree /\ [Next]_vars => IdleBufferFree'
  <2> SUFFICES ASSUME Safe, SemaphoreCountsReaders, IdleBufferFree, [Next]_vars
               PROVE  IdleBufferFree'
    OBVIOUS
  <2> DEFINE idle == next % 2
  <2>0. next \in Nat /\ cur \in Nat /\ idle \in Buffers
    BY Parity DEF Safe, TypeOK
  <2>1. ASSUME NEW w \in Workers, GetPost(w) PROVE IdleBufferFree'
    <3>1. UNCHANGED <<upc, next>>
      BY <2>1 DEF GetPost, updaterVars
    <3>2. upc \in {"update", "filling", "lock", "ext", "cur"} => idle # extsem
      BY <2>0, <2>1, Parity, WorkersAssumption DEF Safe, PointersAgree, MutexOwner, GetPost, Goto
    <3> QED BY <2>0, <2>1, <3>1, <3>2, CountedAfterPost DEF IdleBufferFree
  <2>2. ASSUME NEW w \in Workers, RelWait(w) PROVE IdleBufferFree'
    <3>1. UNCHANGED <<upc, next>>
      BY <2>2 DEF RelWait, updaterVars
    <3> QED BY <2>0, <2>2, <3>1, CountedAfterWait DEF IdleBufferFree
  <2>3. CASE WaitSwap
    <3>1. Cardinality(Counted(idle)) = 0
      BY <2>0, <2>3 DEF WaitSwap, SemaphoreCountsReaders
    <3>2. Counted(idle) = {}
      BY <3>1, CountedFinite, FS_EmptySet
    <3> QED BY <2>0, <2>3, <3>2, CountedOtherwise DEF IdleBufferFree, WaitSwap, run
  <2>4. ASSUME \/ \E w \in Workers : \/ GetLock(w) \/ GetRead(w) \/ GetUnlock(w)
                                     \/ RelLock(w) \/ RelUnlock(w)
               \/ Wake \/ Exit \/ UpdateBegin \/ UpdateEnd \/ Swap \/ Stop \/ UNCHANGED vars
        PROVE  IdleBufferFree'
    <3>1. \A b \in Buffers : Counted(b)' = Counted(b)
      BY <2>4, CountedOtherwise DEF run
    <3>2. \/ upc' \notin {"update", "filling", "lock", "ext", "cur"}
          \/ upc \in {"update", "filling", "lock", "ext", "cur"} /\ next' = next
      BY <2>4 DEF GetLock, GetRead, GetUnlock, RelLock, RelUnlock, Wake, Exit, UpdateBegin, UpdateEnd,
                  Swap, SwapLock, SwapExt, SwapCur, SwapUnlock, Stop, vars, updaterVars
    <3> QED BY <2>0, <3>1, <3>2 DEF IdleBufferFree
  <2> QED BY <2>1, <2>2, <2>3, <2>4 DEF Next, GetData, ReleaseData, run
<1> QED BY <1>1, <1>2, TypeCorrect, MutualExclusion, ReadersCounted, PTL DEF Spec, Safe

(***************************************************************************)
(* What the buffers hold.                                                  *)
(***************************************************************************)
Guarded == Safe /\ SemaphoreCountsReaders /\ IdleBufferFree

\* A reload writes only a buffer that is neither current nor looked at.
LEMMA ReloadAside ==
    ASSUME Guarded, UpdateBegin \/ UpdateEnd
    PROVE  /\ next % 2 \in Buffers /\ cur % 2 \in Buffers /\ next % 2 # cur % 2
           /\ \A w \in Workers : Looking(w) => ret[w] \in Buffers /\ ret[w] # next % 2
           /\ UNCHANGED <<cur, next, wpc, ret>>
<1>1. next = cur + 1 /\ Counted(next % 2) = {}
  BY DEF Guarded, Safe, PointersAgree, IdleBufferFree, UpdateBegin, UpdateEnd
<1>2. next % 2 \in Buffers /\ cur % 2 \in Buffers /\ next % 2 # cur % 2
  BY <1>1, Parity DEF Guarded, Safe, TypeOK
<1>3. \A w \in Workers : Looking(w) => ret[w] \in Buffers /\ ret[w] # next % 2
  BY <1>1 DEF Counted, Guarded, Safe, TypeOK
<1> QED BY <1>2, <1>3 DEF UpdateBegin, UpdateEnd, workerVars

THEOREM ContentsStayServable == Spec => []ContentsServable
<1> USE DEF ContentsServable
<1>1. Init => ContentsServable
  BY DEF Init, Servable, Looking, Buffers
<1>2. Guarded /\ ContentsServable /\ [Next]_vars => ContentsServable'
  <2> SUFFICES ASSUME Guarded, ContentsServable, [Next]_vars PROVE ContentsServable'
    OBVIOUS
  <2>0. /\ cur \in Nat /\ next \in Nat /\ loads \in Nat
        /\ content \in [Buffers -> Content]
        /\ wpc \in [Workers -> {"idle", "post", "read", "got", "using", "wait", "unlock"}]
        /\ ret \in [Workers -> Buffers]
        /\ cur % 2 \in Buffers /\ next % 2 \in Buffers
    BY Parity DEF Guarded, Safe, TypeOK
  <2>1. ASSUME NEW w \in Workers, GetData(w) \/ ReleaseData(w) PROVE ContentsServable'
    <3>1. UNCHANGED <<content, cur, upc, next, loads>>
      BY <2>1 DEF GetData, GetLock, GetPost, GetRead, GetUnlock, ReleaseData, RelLock, RelWait,
                  RelUnlock, updaterVars
    <3>2. ASSUME NEW v \in Workers, Looking(v)' PROVE Servable(content[ret'[v]])
      <4>1. (Looking(v) /\ ret'[v] = ret[v]) \/ ret'[v] = cur % 2
        BY <2>0, <2>1, <3>2 DEF GetData, GetLock, GetPost, GetRead, GetUnlock, ReleaseData, RelLock, RelWait,
                  RelUnlock, updaterVars, Goto, Looking
      <4> QED BY <4>1
    <3> QED BY <3>1, <3>2 DEF Servable
  <2>2. CASE UpdateBegin
    <3>1. /\ content' = [content EXCEPT ![next % 2] = [load |-> loads + 1, status |-> "loading"]]
          /\ loads' = loads + 1 /\ upc' = "filling"
      BY <2>2 DEF UpdateBegin
    <3>2. \A b \in Buffers : b # next % 2 => content'[b] = content[b]
      BY <2>0, <3>1
    <3>3. content'[next % 2].load = loads + 1
      BY <2>0, <3>1
    <3>4. \A b \in Buffers : content[b].load <= loads /\ content[b].load \in Nat
      BY <2>0 DEF Content
    <3>5. \A w \in Workers : Looking(w)' = Looking(w)
      BY <2>2, ReloadAside DEF Looking
    <3> QED BY <2>0, <2>2, <3>1, <3>2, <3>3, <3>4, <3>5, ReloadAside DEF Servable
  <2>3. CASE UpdateEnd
    <3>1. PICK s \in {"whole", "failed"} :
             /\ content' = [content EXCEPT ![next % 2].status = s]
             /\ upc' = IF s = "whole" THEN "lock" ELSE "sleep"
      BY <2>3 DEF UpdateEnd
    <3>2. upc = "filling" /\ loads' = loads
      BY <2>3 DEF UpdateEnd
    <3>3. \A b \in Buffers : /\ b # next % 2 => content'[b] = content[b]
                             /\ content'[b].load = content[b].load
      BY <2>0, <3>1 DEF Content
    <3>4. content'[next % 2].status = s
      BY <2>0, <3>1 DEF Content
    <3>5. \A w \in Workers : Looking(w)' = Looking(w)
      BY <2>3, ReloadAside DEF Looking
    <3> QED BY <2>0, <2>3, <3>1, <3>2, <3>3, <3>4, <3>5, ReloadAside DEF Servable
  <2>4. CASE SwapCur
    <3>1. next = cur + 1 /\ cur' = cur + 1 /\ upc = "cur" /\ upc' = "unlock"
      BY <2>4 DEF SwapCur, Guarded, Safe, PointersAgree
    <3> QED BY <2>0, <2>4, <3>1 DEF SwapCur, workerVars, Servable, Looking
  <2>5. CASE Wake \/ Exit \/ WaitSwap \/ SwapLock \/ SwapExt \/ SwapUnlock \/ Stop \/ UNCHANGED vars
    <3>1. UNCHANGED <<content, cur, wpc, ret, loads>>
      BY <2>5 DEF Wake, Exit, WaitSwap, SwapLock, SwapExt, SwapUnlock, Stop, vars, workerVars, updaterVars
    <3>2. \/ upc' \notin {"filling", "lock", "ext", "cur"}
          \/ upc \in {"lock", "ext"} /\ next' = next
          \/ UNCHANGED <<upc, next>>
      BY <2>5 DEF Wake, Exit, WaitSwap, SwapLock, SwapExt, SwapUnlock, Stop, vars, updaterVars
    <3> QED BY <3>1, <3>2 DEF Servable, Looking
  <2> QED BY <2>1, <2>2, <2>3, <2>4, <2>5 DEF Next, run, Swap
<1> QED BY <1>1, <1>2, TypeCorrect, MutualExclusion, ReadersCounted, IdleBufferStaysFree, PTL
        DEF Spec, Safe, Guarded

\* No worker ever looks at a buffer that is being written.
THEOREM NoReadIsTorn == Spec => []NoTornRead
<1>1. ContentsServable => NoTornRead
  BY DEF ContentsServable, NoTornRead, Servable
<1> QED BY <1>1, ContentsStayServable, PTL

(***************************************************************************)
(* The refinement: the pointer is taken at GetRead, given up at RelWait,   *)
(* and a snapshot is published by the increment of _cur; every other step  *)
(* of the code is invisible.                                               *)
(***************************************************************************)
publishedBar == content[cur % 2]
viewBar == [w \in Workers |-> IF Looking(w) THEN content[ret[w]] ELSE Nobody]

Correct == Guarded /\ ContentsServable

\* What is served is a snapshot, never the value of an empty view.
LEMMA ServedIsSnapshot ==
    ASSUME Correct
    PROVE  /\ publishedBar \in Store!Snapshot
           /\ \A w \in Workers : Looking(w) => content[ret[w]] \in Content
           /\ Nobody \notin Content
<1>1. cur % 2 \in Buffers /\ content \in [Buffers -> Content] /\ ret \in [Workers -> Buffers]
  BY Parity DEF Correct, Guarded, Safe, TypeOK
<1>2. Servable(content[cur % 2])
  BY DEF Correct, ContentsServable
<1>3. content[cur % 2] \in Content
  BY <1>1
<1> QED BY <1>1, <1>2, <1>3, WorkersAssumption DEF Servable, Content, Store!Snapshot, publishedBar

\* Every step of the double buffer is a step of the snapshot store or none.
LEMMA StepSimulation ==
    ASSUME Correct, [Next]_vars
    PROVE  Store!Next \/ UNCHANGED <<publishedBar, viewBar>>
<1>0. /\ cur \in Nat /\ cur % 2 \in Buffers /\ next % 2 \in Buffers
      /\ content \in [Buffers -> Content]
      /\ wpc \in [Workers -> {"idle", "post", "read", "got", "using", "wait", "unlock"}]
      /\ ret \in [Workers -> Buffers]
  BY Parity DEF Correct, Guarded, Safe, TypeOK
<1>1. ASSUME NEW w \in Workers, GetRead(w) PROVE Store!Next
  <2>1. /\ UNCHANGED <<content, cur>>
        /\ wpc' = [wpc EXCEPT ![w] = "got"] /\ wpc[w] = "read"
        /\ ret' = [ret EXCEPT ![w] = cur % 2]
    BY <1>1 DEF GetRead, Goto
  <2>2. ~Looking(w) /\ viewBar[w] = Nobody
    BY <2>1 DEF Looking, viewBar
  <2>3. viewBar' = [viewBar EXCEPT ![w] = publishedBar]
    BY <1>0, <2>1 DEF Looking, viewBar, publishedBar
  <2> QED BY <2>1, <2>2, <2>3 DEF Store!Next, Store!Take, viewBar, publishedBar
<1>2. ASSUME NEW w \in Workers, RelWait(w) PROVE Store!Next
  <2>1. /\ UNCHANGED <<content, cur, ret>>
        /\ wpc' = [wpc EXCEPT ![w] = "unlock"] /\ wpc[w] = "wait"
    BY <1>2 DEF RelWait, Goto
  <2>2. Looking(w) /\ viewBar[w] # Nobody
    BY <2>1, ServedIsSnapshot DEF Looking, viewBar
  <2>3. viewBar' = [viewBar EXCEPT ![w] = Nobody]
    BY <1>0, <2>1 DEF Looking, viewBar
  <2> QED BY <2>1, <2>2, <2>3 DEF Store!Next, Store!GiveBack, viewBar, publishedBar
<1>3. ASSUME NEW w \in Workers, GetLock(w) \/ GetPost(w) \/ GetUnlock(w) \/ RelLock(w) \/ RelUnlock(w)
      PROVE  UNCHANGED <<publishedBar, viewBar>>
  <2>1. UNCHANGED <<content, cur, ret>> /\ \A v \in Workers : Looking(v)' = Looking(v)
    BY <1>0, <1>3 DEF GetLock, GetPost, GetUnlock, RelLock, RelUnlock, Goto, Looking
  <2> QED BY <2>1 DEF publishedBar, viewBar
<1>4. CASE UpdateBegin \/ UpdateEnd
  <2>1. \A b \in Buffers : b # next % 2 => content'[b] = content[b]
    BY <1>0, <1>4 DEF UpdateBegin, UpdateEnd
  <2>2. \A w \in Workers : /\ Looking(w)' = Looking(w)
                           /\ Looking(w) => content'[ret'[w]] = content[ret[w]]
    BY <1>4, <2>1, ReloadAside DEF Looking, Correct
  <2> QED BY <1>4, <2>1, <2>2, ReloadAside DEF publishedBar, viewBar, Correct
<1>5. CASE SwapCur
  <2>1. next = cur + 1 /\ cur' = cur + 1 /\ UNCHANGED <<content, wpc, ret>> /\ upc = "cur"
    BY <1>5 DEF SwapCur, Correct, Guarded, Safe, PointersAgree, workerVars
  <2>2. publishedBar' = content[next % 2] /\ UNCHANGED viewBar
    BY <2>1 DEF publishedBar, viewBar, Looking
  <2>3. content[next % 2].load > publishedBar.load /\ content[next % 2].status = "whole"
    BY <2>1 DEF Correct, ContentsServable, publishedBar
  <2>4. content[next % 2] \in Store!Snapshot
    <3>1. content[next % 2] \in Content
      BY <1>0
    <3> QED BY <3>1, <2>3 DEF Content, Store!Snapshot
  <2> QED BY <2>2, <2>3, <2>4 DEF Store!Next, Store!Publish, publishedBar, viewBar
<1>6. CASE Wake \/ Exit \/ WaitSwap \/ SwapLock \/ SwapExt \/ SwapUnlock \/ Stop \/ UNCHANGED vars
  <2>1. UNCHANGED <<content, cur, wpc, ret>>
    BY <1>6 DEF Wake, Exit, WaitSwap, SwapLock, SwapExt, SwapUnlock, Stop, vars, workerVars
  <2> QED BY <2>1 DEF publishedBar, viewBar, Looking
<1> QED BY <1>1, <1>2, <1>3, <1>4, <1>5, <1>6 DEF Next, GetData, ReleaseData, run, Swap

\* The double buffer implements the snapshot store: a request sees one
\* complete, unchanging snapshot, and publications go forward.
THEOREM Implementation == Spec => ImplementsSnapshotStore
<1>1. Init => Store!Init
  BY DEF Init, Store!Init, Looking, Buffers
<1>2. Correct /\ [Next]_vars => [Store!Next]_(Store!vars)
  BY StepSimulation DEF Store!vars, publishedBar, viewBar
<1>3. Spec => []Correct
  BY TypeCorrect, MutualExclusion, ReadersCounted, IdleBufferStaysFree, ContentsStayServable, PTL
     DEF Correct, Guarded, Safe
<1> QED BY <1>1, <1>2, <1>3, PTL DEF Spec, ImplementsSnapshotStore, Store!Spec
------------------------------------------------------------------------------
(* Why WaitSwap comes to an end and the updater does after the stop.  *)

\* How many steps a request has left until it gives back the idle buffer.
IdleRank(w) ==
    IF w \notin Counted(next % 2) THEN 0
    ELSE CASE wpc[w] = "read" -> 4 [] wpc[w] = "got" -> 3 [] wpc[w] = "using" -> 2 [] OTHER -> 1

\* While WaitSwap polls, nobody comes to the idle buffer, and whoever looks at
\* it gets nearer to giving it back with every step.
IdleBufferDrains ==
    upc = "poll" => \A w \in Workers :
        \/ IdleRank(w)' = IdleRank(w) /\ (wpc'[w] = wpc[w] \/ IdleRank(w) = 0)
        \/ IdleRank(w)' < IdleRank(w)

\* The statements that the updater has still to execute after the stop.
UpdaterRank ==
    CASE upc = "poll" -> 8 [] upc = "update" -> 7 [] upc = "filling" -> 6 [] upc = "lock" -> 5
      [] upc = "ext" -> 4 [] upc = "cur" -> 3 [] upc = "unlock" -> 2 [] upc = "sleep" -> 1 [] OTHER -> 0

\* After the stop the updater only comes closer to the end of its loop.
UpdaterEnds == ~runFlag => upc' = upc \/ UpdaterRank' < UpdaterRank

\* Whoever owns the mutex does not wait: no thread waits for it for ever.
OwnerCanStep ==
    mutex # Nobody =>
        \/ upc \in {"ext", "cur", "unlock"}
        \/ \E w \in Workers : mutex = w /\ (wpc[w] \in {"post", "read", "got", "unlock"} \/ sem[ret[w]] > 0)

\* A step of a worker, as the others and the updater see it.
LEMMA WorkerMoves ==
    ASSUME Safe, NEW w \in Workers, GetData(w) \/ ReleaseData(w)
    PROVE  /\ \A v \in Workers : v # w => wpc'[v] = wpc[v] /\ ret'[v] = ret[v]
           /\ UNCHANGED <<upc, next, cur, extsem, runFlag>>
           /\ \/ wpc[w] = "read" /\ wpc'[w] = "got" /\ ret'[w] = cur % 2
              \/ ret'[w] = ret[w] /\ \/ wpc[w] = "idle" /\ wpc'[w] = "post"
                                     \/ wpc[w] = "post" /\ wpc'[w] = "read"
                                     \/ wpc[w] = "got" /\ wpc'[w] = "using"
                                     \/ wpc[w] = "using" /\ wpc'[w] = "wait"
                                     \/ wpc[w] = "wait" /\ wpc'[w] = "unlock"
                                     \/ wpc[w] = "unlock" /\ wpc'[w] = "idle"
BY DEF Safe, TypeOK, GetData, ReleaseData, GetLock, GetPost, GetRead, GetUnlock, RelLock, RelWait, RelUnlock, Goto,
       updaterVars

\* WaitSwap polls without the mutex, and yet it comes to an end: once it has
\* chosen the idle buffer no request gets it any more.
THEOREM PollingEnds == Spec => [][IdleBufferDrains]_vars
<1>1. Safe /\ [Next]_vars => [IdleBufferDrains]_vars
  <2>. SUFFICES ASSUME Safe, Next, upc = "poll", NEW v \in Workers
                PROVE  \/ IdleRank(v)' = IdleRank(v) /\ (wpc'[v] = wpc[v] \/ IdleRank(v) = 0)
                       \/ IdleRank(v)' < IdleRank(v)
    BY DEF IdleBufferDrains
  <2>. DEFINE b == next % 2
  <2>1. b # extsem /\ extsem = cur % 2
    BY Parity DEF Safe, TypeOK, PointersAgree
  <2>2. IdleRank(v) = IF v \notin Counted(b) THEN 0
                      ELSE CASE wpc[v] = "read" -> 4 [] wpc[v] = "got" -> 3 [] wpc[v] = "using" -> 2 [] OTHER -> 1
    BY DEF IdleRank
  <2>3. v \in Counted(b) <=> wpc[v] \in {"got", "using", "wait"} /\ ret[v] = b
    BY <2>1 DEF Counted, Looking
  <2>4. ASSUME next' = next, extsem' = extsem
        PROVE  v \in Counted(next % 2)' <=> wpc'[v] \in {"got", "using", "wait"} /\ ret'[v] = b
    BY <2>1, <2>4 DEF Counted, Looking
  <2>5. ASSUME NEW w \in Workers, GetData(w) \/ ReleaseData(w)
        PROVE  \/ IdleRank(v)' = IdleRank(v) /\ (wpc'[v] = wpc[v] \/ IdleRank(v) = 0)
               \/ IdleRank(v)' < IdleRank(v)
    <3>1. next' = next /\ extsem' = extsem
      BY <2>5, WorkerMoves
    <3>2. CASE v # w
      <4>1. wpc'[v] = wpc[v] /\ ret'[v] = ret[v]
        BY <2>5, <3>2, WorkerMoves
      <4>. QED BY <2>3, <2>4, <3>1, <4>1 DEF IdleRank
    <3>3. CASE v = w
      <4>1. \/ wpc[v] = "read" /\ wpc'[v] = "got" /\ ret'[v] = cur % 2
            \/ ret'[v] = ret[v] /\ \/ wpc[v] = "idle" /\ wpc'[v] = "post"
                                   \/ wpc[v] = "post" /\ wpc'[v] = "read"
                                   \/ wpc[v] = "got" /\ wpc'[v] = "using"
                                   \/ wpc[v] = "using" /\ wpc'[v] = "wait"
                                   \/ wpc[v] = "wait" /\ wpc'[v] = "unlock"
                                   \/ wpc[v] = "unlock" /\ wpc'[v] = "idle"
        BY <2>5, <3>3, WorkerMoves
      <4>. QED BY <2>1, <2>3, <2>4, <3>1, <4>1 DEF IdleRank
    <3>. QED BY <3>2, <3>3
  <2>6. CASE run \/ Stop
    <3>1. UNCHANGED <<wpc, ret, next, extsem>>
      BY <2>6 DEF run, Wake, Exit, WaitSwap, UpdateBegin, UpdateEnd, Swap, SwapLock, SwapExt, SwapCur, SwapUnlock,
                  Stop, workerVars, updaterVars
    <3>. QED BY <3>1 DEF IdleRank, Counted, Looking
  <2>. QED BY <2>5, <2>6 DEF Next
<1>. QED BY <1>1, TypeCorrect, MutualExclusion, PTL DEF Spec, Safe

\* After the stop no step takes the updater back into its loop, wherever it is:
\* at most one more reload and one more swap are ahead of it.
THEOREM UpdaterLeavesLoop == Spec => [][UpdaterEnds]_vars
<1>1. Safe /\ [Next]_vars => [UpdaterEnds]_vars
  <2>. SUFFICES ASSUME Safe, Next, ~runFlag, upc' # upc PROVE UpdaterRank' < UpdaterRank
    BY DEF UpdaterEnds
  <2>1. run
    BY WorkerMoves DEF Next, Stop, updaterVars
  <2>2. \/ upc = "sleep" /\ upc' = "done"
        \/ upc = "poll" /\ upc' = "update"
        \/ upc = "update" /\ upc' = "filling"
        \/ upc = "filling" /\ upc' \in {"lock", "sleep"}
        \/ upc = "lock" /\ upc' = "ext"
        \/ upc = "ext" /\ upc' = "cur"
        \/ upc = "cur" /\ upc' = "unlock"
        \/ upc = "unlock" /\ upc' = "sleep"
    BY <2>1 DEF run, Wake, Exit, WaitSwap, UpdateBegin, UpdateEnd, Swap, SwapLock, SwapExt, SwapCur, SwapUnlock
  <2>. QED BY <2>2 DEF UpdaterRank
<1>. QED BY <1>1, TypeCorrect, MutualExclusion, PTL DEF Spec, Safe

\* No thread waits for ever for the mutex: its owner always has a step, also
\* the one that waits for a semaphore while it owns it.
THEOREM OwnerGoesOn == Spec => []OwnerCanStep
<1>1. Safe /\ ReleaseNeverBlocks => OwnerCanStep
  <2>. SUFFICES ASSUME Safe, ReleaseNeverBlocks, mutex # Nobody PROVE OwnerCanStep
    BY DEF OwnerCanStep
  <2>1. mutex = Updater \/ mutex \in Workers
    BY DEF Safe, TypeOK
  <2>. QED BY <2>1 DEF Safe, MutexOwner, ReleaseNeverBlocks, OwnerCanStep
<1>. QED BY <1>1, TypeCorrect, MutualExclusion, ReleaseGoesThrough, PTL DEF Safe
------------------------------------------------------------------------------
(* How the buffers pass between the threads, as the life cycle uses it. *)

\* Every step is one that passes a buffer, or the updater, on, or none.
LEMMA StepPassesOn ==
    ASSUME Guarded, [Next]_vars
    PROVE  Handover!Next \/ UNCHANGED <<~runFlag, HeldNow, UpdaterNow>>
<1>0. /\ cur \in Nat /\ cur % 2 \in Buffers /\ next \in Nat /\ next % 2 \in Buffers
      /\ wpc \in [Workers -> {"idle", "post", "read", "got", "using", "wait", "unlock"}]
      /\ ret \in [Workers -> Buffers] /\ runFlag \in BOOLEAN
  BY Parity DEF Guarded, Safe, TypeOK
<1>1. ASSUME NEW w \in Workers, GetData(w) \/ ReleaseData(w)
      PROVE  Handover!Next \/ UNCHANGED <<~runFlag, HeldNow, UpdaterNow>>
  <2>1. /\ UNCHANGED <<runFlag, cur>> /\ UpdaterNow' = UpdaterNow
        /\ \A v \in Workers : v # w => wpc'[v] = wpc[v] /\ ret'[v] = ret[v]
    BY <1>1, WorkerMoves DEF Guarded, UpdaterNow
  <2>2. \A v \in Workers : v # w => HeldNow'[v] = HeldNow[v]
    BY <2>1 DEF HeldNow, Looking
  <2>3. CASE wpc[w] = "read"
    <3>1. wpc'[w] = "got" /\ ret'[w] = cur % 2
      BY <1>1, <2>3, WorkerMoves DEF Guarded
    <3>2. HeldNow[w] = "none" /\ HeldNow'[w] = "current"
      BY <2>1, <2>3, <3>1 DEF HeldNow, Looking
    <3>3. HeldNow' = [HeldNow EXCEPT ![w] = "current"]
      BY <2>2, <3>2 DEF HeldNow
    <3>4. Handover!Take(w)
      BY <2>1, <3>2, <3>3 DEF Handover!Take
    <3>. QED BY <3>4 DEF Handover!Next
  <2>4. CASE wpc[w] = "wait"
    <3>1. wpc'[w] = "unlock"
      BY <1>1, <2>4, WorkerMoves DEF Guarded
    <3>2. HeldNow[w] # "none" /\ HeldNow'[w] = "none"
      BY <2>4, <3>1 DEF HeldNow, Looking
    <3>3. HeldNow' = [HeldNow EXCEPT ![w] = "none"]
      BY <2>2, <3>2 DEF HeldNow
    <3>4. Handover!GiveBack(w)
      BY <2>1, <3>2, <3>3 DEF Handover!GiveBack
    <3>. QED BY <3>4 DEF Handover!Next
  <2>5. CASE wpc[w] \notin {"read", "wait"}
    <3>1. ret'[w] = ret[w] /\ Looking(w)' = Looking(w)
      BY <1>1, <2>5, WorkerMoves DEF Guarded, Looking
    <3>2. HeldNow'[w] = HeldNow[w]
      BY <2>1, <3>1 DEF HeldNow
    <3>3. HeldNow' = HeldNow
      BY <2>2, <3>2 DEF HeldNow
    <3>. QED BY <2>1, <3>3
  <2>. QED BY <2>3, <2>4, <2>5
<1>2. ASSUME run \/ Stop \/ UNCHANGED vars, ~SwapCur PROVE UNCHANGED HeldNow
  <2>1. UNCHANGED <<cur, wpc, ret>>
    BY <1>2 DEF run, Wake, Exit, WaitSwap, UpdateBegin, UpdateEnd, Swap, SwapLock, SwapExt, SwapUnlock, Stop, vars,
                workerVars
  <2>. QED BY <2>1 DEF HeldNow, Looking
<1>3. ASSUME run PROVE runFlag' = runFlag
  BY <1>3 DEF run, Wake, Exit, WaitSwap, UpdateBegin, UpdateEnd, Swap, SwapLock, SwapExt, SwapCur, SwapUnlock
<1>4. CASE Wake \/ Exit
  <2>1. Handover!Goes("sleep", IF ~runFlag THEN "done" ELSE "poll")
    BY <1>3, <1>4 DEF run, Wake, Exit, UpdaterNow, Handover!Goes
  <2>2. UNCHANGED HeldNow
    BY <1>2, <1>4 DEF run, Wake, Exit, SwapCur
  <2>. QED BY <2>1, <2>2 DEF Handover!Wake, Handover!Next
<1>5. CASE WaitSwap
  <2>1. Cardinality(Counted(next % 2)) = 0
    BY <1>0, <1>5 DEF WaitSwap, Guarded, SemaphoreCountsReaders
  <2>2. Counted(next % 2) = {} /\ next = cur + 1
    BY <1>5, <2>1, CountedFinite, FS_EmptySet DEF WaitSwap, Guarded, Safe, PointersAgree
  <2>3. \A w \in Workers : Looking(w) => ret[w] = cur % 2
    BY <1>0, <2>2, Parity DEF Counted, Buffers
  <2>4. \A w \in Workers : HeldNow[w] # "idle"
    BY <2>3 DEF HeldNow
  <2>5. Handover!Goes("poll", "update")
    BY <1>3, <1>5 DEF run, WaitSwap, UpdaterNow, Handover!Goes
  <2>6. UNCHANGED HeldNow
    BY <1>2, <1>5 DEF run, WaitSwap, SwapCur
  <2>. QED BY <2>4, <2>5, <2>6 DEF Handover!Begin, Handover!Next
<1>6. CASE UpdateEnd
  <2>1. Handover!Goes("update", "swap") \/ Handover!Goes("update", "sleep")
    BY <1>3, <1>6 DEF run, UpdateEnd, UpdaterNow, Handover!Goes
  <2>2. UNCHANGED HeldNow
    BY <1>2, <1>6 DEF run, UpdateEnd, SwapCur
  <2>. QED BY <2>1, <2>2 DEF Handover!End, Handover!Next
<1>7. CASE SwapCur
  <2>1. cur' = cur + 1 /\ UNCHANGED <<wpc, ret>> /\ upc = "cur" /\ upc' = "unlock"
    BY <1>7 DEF SwapCur, workerVars
  <2>2. \A b \in Buffers : b = cur' % 2 <=> b # cur % 2
    BY <1>0, <2>1, Parity DEF Buffers
  <2>3. \A w \in Workers : HeldNow'[w] = Handover!Other(HeldNow[w])
    BY <1>0, <2>1, <2>2 DEF HeldNow, Looking, Handover!Other
  <2>4. HeldNow' = [w \in Workers |-> Handover!Other(HeldNow[w])]
    BY <2>3 DEF HeldNow
  <2>5. Handover!Goes("swap", "sleep")
    BY <1>3, <1>7, <2>1 DEF run, Swap, UpdaterNow, Handover!Goes
  <2>. QED BY <2>4, <2>5 DEF Handover!Swap, Handover!Next
<1>8. CASE UpdateBegin \/ SwapLock \/ SwapExt \/ SwapUnlock \/ UNCHANGED vars
  <2>1. UpdaterNow' = UpdaterNow /\ runFlag' = runFlag
    BY <1>3, <1>8 DEF run, Swap, UpdateBegin, SwapLock, SwapExt, SwapUnlock, UpdaterNow, vars, updaterVars
  <2>2. UNCHANGED HeldNow
    BY <1>2, <1>8 DEF run, Swap, UpdateBegin, SwapLock, SwapExt, SwapUnlock, SwapCur, vars, updaterVars
  <2>. QED BY <2>1, <2>2
<1>9. CASE Stop
  <2>1. runFlag = TRUE /\ runFlag' = FALSE /\ UpdaterNow' = UpdaterNow
    BY <1>0, <1>9 DEF Stop, UpdaterNow, updaterVars
  <2>2. UNCHANGED HeldNow
    <3>1. UNCHANGED <<cur, wpc, ret>>
      BY <1>9 DEF Stop, workerVars
    <3>. QED BY <3>1 DEF HeldNow, Looking
  <2>. QED BY <2>1, <2>2 DEF Handover!Stop, Handover!Next
<1>. QED BY <1>1, <1>4, <1>5, <1>6, <1>7, <1>8, <1>9 DEF Next, run, Swap

\* The two buffers, the two semaphores and the mutex pass the buffers between
\* the workers and the updater exactly as the life cycle of the engine takes
\* it: by _cur alone, and never while the idle buffer has a reader.
THEOREM HandoverKept == Spec => ImplementsHandover
<1>1. Init => Handover!Init
  BY DEF Init, Handover!Init, HeldNow, UpdaterNow, Looking
<1>2. Guarded /\ [Next]_vars => [Handover!Next]_(Handover!vars)
  BY StepPassesOn DEF Handover!vars
<1>. QED BY <1>1, <1>2, TypeCorrect, MutualExclusion, ReadersCounted, IdleBufferStaysFree, PTL
     DEF Spec, ImplementsHandover, Handover!Spec, Guarded, Safe
==============================================================================
