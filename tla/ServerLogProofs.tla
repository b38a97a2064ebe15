--------------------------- MODULE ServerLogProofs ---------------------------
(***************************************************************************)
(* Proofs about ServerLog, for any number of workers and requests and any  *)
(* sampling rate: its queues keep what Outbox promises, and one request in *)
(* Dest is detailed.                                                       *)
(*                                                                         *)
(* A queue always holds the last messages that were added, in order, so    *)
(* the front message is the one after those that are settled.  The counter *)
(* of SendSwitch counts down from Dest as the requests count up.  The      *)
(* consumer goes round whatever Kafka refuses, and so does its drain.      *)
(***************************************************************************)
EXTENDS ServerLog, FiniteSetTheorems, SequenceTheorems, TLAPS

\* The queue of t holds the messages that were added last.
InOrder(t) ==
    /\ Len(queue[t]) <= added[t]
    /\ \A i \in 1..Len(queue[t]) : queue[t][i] = (added[t] - Len(queue[t])) + i

\* A message is sent and popped only while it is there; the drain comes only
\* after the stop.
AtItsPlace ==
    /\ \A t \in Topics : At("send", t) \/ At("pop", t) => queue[t] # <<>>
    /\ con[1] \in {"drain", "test", "done"} => ~runFlag

QueueInv == TypeOK /\ AtItsPlace /\ \A t \in Topics : InOrder(t)

\* The workers that still owe a detail message are on their way.
Owing == {w \in Workers : need[w]}

OwingInv == IsFiniteSet(Owing) /\ \A w \in Workers : need[w] => wst[w] # "idle"

\* In its round q, from 0, the counter has come down from Dest by the requests
\* of the round; the first of them was detailed, or still owes its message.
SampleInv ==
    /\ Dest = 0 => added["detail"] + Cardinality(Owing) = 0
    /\ Dest = 1 => added["detail"] + Cardinality(Owing) = requests
    /\ Dest > 1 => \E q \in Nat :
          /\ requests + count = (q + 1) * Dest
          /\ added["detail"] + Cardinality(Owing) = (IF count = Dest THEN q ELSE q + 1)

LEMMA InitQueue == Init => QueueInv
<1>. SUFFICES ASSUME Init PROVE QueueInv
  OBVIOUS
<1>1. TypeOK
  <2>1. count \in (IF Dest < 2 THEN {Dest} ELSE 1..Dest) /\ requests \in 0..MaxRequests
    BY ServerLogAssumption DEF Init
  <2>2. queue \in [Topics -> Seq(Nat)] /\ accepted \in [Topics -> Seq(Nat)] /\ added \in [Topics -> Nat]
    BY DEF Init
  <2>3. wst \in [Workers -> {"idle", "bid", "detail"}] /\ need \in [Workers -> BOOLEAN]
    BY DEF Init
  <2>4. con \in ({"peek", "send", "pop", "drain"} \X Topics) \cup ({"loop", "test", "done"} \X {"bid"})
    BY DEF Init
  <2>. QED BY <2>1, <2>2, <2>3, <2>4 DEF Init, TypeOK
<1>2. AtItsPlace
  BY DEF Init, AtItsPlace, At, Topics
<1>3. \A t \in Topics : InOrder(t)
  BY DEF Init, InOrder, Topics
<1>. QED BY <1>1, <1>2, <1>3 DEF QueueInv

\* What happens to the queue of t when a message is added or taken away.
LEMMA AddKeepsOrder ==
    ASSUME TypeOK, NEW t \in Topics, AddLog(t), \A s \in Topics : InOrder(s)
    PROVE  /\ added' \in [Topics -> Nat] /\ queue' \in [Topics -> Seq(Nat)]
           /\ \A s \in Topics : InOrder(s)' /\ (queue[s] # <<>> => queue'[s] # <<>>)
           /\ \A s \in Topics : added'[s] - Len(queue'[s]) = added[s] - Len(queue[s])
<1>1. added' \in [Topics -> Nat] /\ queue' \in [Topics -> Seq(Nat)]
  BY DEF TypeOK, AddLog
<1>2. \A s \in Topics : s # t => added'[s] = added[s] /\ queue'[s] = queue[s]
  BY DEF TypeOK, AddLog
<1>3. added'[t] = added[t] + 1 /\ queue'[t] = Append(queue[t], added[t] + 1)
  BY DEF TypeOK, AddLog
<1>4. Len(queue'[t]) = Len(queue[t]) + 1 /\ queue[t] \in Seq(Nat) /\ added[t] \in Nat /\ Len(queue[t]) \in Nat
  BY <1>3 DEF TypeOK
<1>5. InOrder(t)'
  <2>1. \A i \in 1..Len(queue'[t]) :
           queue'[t][i] = IF i <= Len(queue[t]) THEN queue[t][i] ELSE added[t] + 1
    BY <1>3, <1>4
  <2>. QED BY <2>1, <1>3, <1>4 DEF InOrder
<1>6. \A s \in Topics : InOrder(s)'
  BY <1>2, <1>5 DEF InOrder
<1>7. \A s \in Topics : queue[s] # <<>> => queue'[s] # <<>>
  BY <1>2, <1>3, <1>4
<1>8. \A s \in Topics : added'[s] - Len(queue'[s]) = added[s] - Len(queue[s])
  <2>1. added'[t] - Len(queue'[t]) = added[t] - Len(queue[t])
    BY <1>3, <1>4
  <2>. QED BY <1>2, <2>1
<1>. QED BY <1>1, <1>6, <1>7, <1>8

LEMMA TailKeepsOrder ==
    ASSUME TypeOK, NEW t \in Topics, queue[t] # <<>>, queue' = [queue EXCEPT ![t] = Tail(@)],
           added' = added, \A s \in Topics : InOrder(s)
    PROVE  /\ queue' \in [Topics -> Seq(Nat)]
           /\ \A s \in Topics : InOrder(s)' /\ (s # t => queue'[s] = queue[s])
           /\ Len(queue'[t]) = Len(queue[t]) - 1
           /\ Head(queue[t]) = (added[t] - Len(queue[t])) + 1
<1>1. queue[t] \in Seq(Nat) /\ added[t] \in Nat /\ Len(queue[t]) \in Nat /\ Len(queue[t]) >= 1
  BY DEF TypeOK
<1>2. queue' \in [Topics -> Seq(Nat)] /\ queue'[t] = Tail(queue[t])
  BY <1>1 DEF TypeOK
<1>3. \A s \in Topics : s # t => queue'[s] = queue[s]
  BY DEF TypeOK
<1>4. /\ Len(queue'[t]) = Len(queue[t]) - 1
      /\ \A i \in 1..Len(queue'[t]) : queue'[t][i] = queue[t][i + 1]
  BY <1>1, <1>2
<1>5. InOrder(t)'
  <2>. DEFINE n == Len(queue[t])
  <2>. SUFFICES ASSUME NEW i \in 1..(n - 1)
                PROVE  queue'[t][i] = (added[t] - (n - 1)) + i
    BY <1>1, <1>4 DEF InOrder
  <2>1. queue'[t][i] = queue[t][i + 1] /\ i + 1 \in 1..n
    BY <1>1, <1>4
  <2>2. queue[t][i + 1] = (added[t] - n) + (i + 1)
    BY <2>1 DEF InOrder
  <2>3. \A a, m, j \in Int : (a - m) + (j + 1) = (a - (m - 1)) + j
    OBVIOUS
  <2>4. added[t] \in Int /\ n \in Int /\ i \in Int
    BY <1>1
  <2>. QED BY <2>1, <2>2, <2>3, <2>4
<1>6. Head(queue[t]) = (added[t] - Len(queue[t])) + 1
  BY <1>1 DEF InOrder
<1>. QED BY <1>2, <1>3, <1>4, <1>5, <1>6 DEF InOrder

LEMMA WorkerQueue ==
    ASSUME QueueInv, NEW w \in Workers, Worker(w)
    PROVE  /\ QueueInv'
           /\ \A t \in Topics : Settled(t)' = Settled(t)
           /\ \/ UNCHANGED <<runFlag, added, accepted>>
              \/ \E t \in Topics : added' = [added EXCEPT ![t] = @ + 1] /\ UNCHANGED <<runFlag, accepted>>
<1>. USE DEF QueueInv
<1>1. CASE NeedSend(w)
  <2>1. /\ UNCHANGED <<runFlag, added, queue, con, doSend, accepted>>
        /\ requests' \in 0..MaxRequests
        /\ need' \in [Workers -> BOOLEAN] /\ wst' \in [Workers -> {"idle", "bid", "detail"}]
    BY <1>1, ServerLogAssumption DEF NeedSend, TypeOK
  <2>2. count' \in (IF Dest < 2 THEN {Dest} ELSE 1..Dest)
    BY <1>1, ServerLogAssumption DEF NeedSend, TypeOK
  <2>3. TypeOK'
    BY <2>1, <2>2 DEF TypeOK
  <2>. QED BY <2>1, <2>3 DEF AtItsPlace, At, InOrder, Settled
<1>2. CASE SendBidLog(w)
  <2>1. /\ UNCHANGED <<runFlag, count, requests, need, con, doSend, accepted>>
        /\ wst' \in [Workers -> {"idle", "bid", "detail"}]
        /\ AddLog("bid") \/ UNCHANGED <<added, queue>>
    BY <1>2 DEF SendBidLog, TypeOK
  <2>2. CASE UNCHANGED <<added, queue>>
    BY <2>1, <2>2 DEF TypeOK, AtItsPlace, At, InOrder, Settled
  <2>3. CASE AddLog("bid")
    <3>1. "bid" \in Topics
      BY DEF Topics
    <3>2. /\ added' \in [Topics -> Nat] /\ queue' \in [Topics -> Seq(Nat)]
          /\ \A s \in Topics : InOrder(s)' /\ (queue[s] # <<>> => queue'[s] # <<>>)
          /\ \A s \in Topics : added'[s] - Len(queue'[s]) = added[s] - Len(queue[s])
      BY <2>3, <3>1, AddKeepsOrder
    <3>3. TypeOK' /\ AtItsPlace'
      BY <2>1, <3>2 DEF TypeOK, AtItsPlace, At
    <3>4. \A t \in Topics : Settled(t)' = Settled(t)
      BY <2>1, <3>2 DEF Settled, At
    <3>. QED BY <2>1, <2>3, <3>1, <3>2, <3>3, <3>4 DEF AddLog
  <2>. QED BY <2>1, <2>2, <2>3
<1>3. CASE SendDetailLog(w)
  <2>1. /\ UNCHANGED <<runFlag, count, requests, con, doSend, accepted>>
        /\ wst' \in [Workers -> {"idle", "bid", "detail"}] /\ need' \in [Workers -> BOOLEAN]
        /\ AddLog("detail") \/ UNCHANGED <<added, queue>>
    BY <1>3 DEF SendDetailLog, TypeOK
  <2>2. CASE UNCHANGED <<added, queue>>
    BY <2>1, <2>2 DEF TypeOK, AtItsPlace, At, InOrder, Settled
  <2>3. CASE AddLog("detail")
    <3>1. "detail" \in Topics
      BY DEF Topics
    <3>2. /\ added' \in [Topics -> Nat] /\ queue' \in [Topics -> Seq(Nat)]
          /\ \A s \in Topics : InOrder(s)' /\ (queue[s] # <<>> => queue'[s] # <<>>)
          /\ \A s \in Topics : added'[s] - Len(queue'[s]) = added[s] - Len(queue[s])
      BY <2>3, <3>1, AddKeepsOrder
    <3>3. TypeOK' /\ AtItsPlace'
      BY <2>1, <3>2 DEF TypeOK, AtItsPlace, At
    <3>4. \A t \in Topics : Settled(t)' = Settled(t)
      BY <2>1, <3>2 DEF Settled, At
    <3>. QED BY <2>1, <2>3, <3>1, <3>2, <3>3, <3>4 DEF AddLog
  <2>. QED BY <2>1, <2>2, <2>3
<1>. QED BY <1>1, <1>2, <1>3 DEF Worker

\* A step of the consumer settles nothing, or one message of a topic, which
\* Kafka has taken unless the engine is told to stop.
SettlesOne(t) ==
    /\ Settled(t)' = Settled(t) + 1
    /\ \A s \in Topics : s # t => Settled(s)' = Settled(s)
    /\ \/ accepted' = [accepted EXCEPT ![t] = Append(@, Settled(t) + 1)]
       \/ ~runFlag /\ UNCHANGED accepted

ConsumerStep ==
    \/ UNCHANGED accepted /\ \A t \in Topics : Settled(t)' = Settled(t)
    \/ \E t \in Topics : SettlesOne(t)

LEMMA SettledType == ASSUME QueueInv PROVE \A t \in Topics : Settled(t) \in Nat
BY DEF QueueInv, TypeOK, InOrder, Settled

LEMMA RunQueue ==
    ASSUME QueueInv, run
    PROVE  QueueInv' /\ UNCHANGED <<runFlag, added>> /\ ConsumerStep
<1>. USE DEF QueueInv, ConsumerStep
<1>1. CASE LoopTest
  <2>1. /\ UNCHANGED <<runFlag, producerVars, queue, doSend, accepted>>
        /\ con = <<"loop", "bid">> /\ con' \in {<<"peek", "bid">>, <<"drain", "bid">>}
        /\ con' = <<"drain", "bid">> => ~runFlag
    BY <1>1 DEF LoopTest, At
  <2>2. TypeOK' /\ AtItsPlace'
    BY <2>1 DEF producerVars, TypeOK, AtItsPlace, At, Topics
  <2>. QED BY <2>1, <2>2 DEF producerVars, InOrder, Settled, At
<1>2. CASE DrainTest
  <2>1. /\ UNCHANGED <<runFlag, producerVars, queue, doSend, accepted>>
        /\ con = <<"test", "bid">> /\ con' \in {<<"drain", "bid">>, <<"done", "bid">>}
    BY <1>2 DEF DrainTest, At
  <2>2. TypeOK' /\ AtItsPlace'
    BY <2>1 DEF producerVars, TypeOK, AtItsPlace, At, Topics
  <2>. QED BY <2>1, <2>2 DEF producerVars, InOrder, Settled, At
<1>3. ASSUME NEW t \in Topics, Peek(t)
      PROVE  QueueInv' /\ UNCHANGED <<runFlag, added>> /\ ConsumerStep
  <2>1. /\ UNCHANGED <<runFlag, producerVars, queue, doSend, accepted>>
        /\ con = <<"peek", t>> /\ con' \in {<<"send", t>>, <<"peek", "detail">>, <<"loop", "bid">>}
        /\ con' = <<"send", t>> => queue[t] # <<>>
    BY <1>3 DEF Peek, At, AfterTopic
  <2>2. con' \in ({"peek", "send", "pop", "drain"} \X Topics) \cup ({"loop", "test", "done"} \X {"bid"})
    BY <2>1 DEF Topics
  <2>3. TypeOK'
    BY <2>1, <2>2 DEF producerVars, TypeOK
  <2>4. AtItsPlace'
    BY <2>1 DEF AtItsPlace, At
  <2>. QED BY <2>1, <2>3, <2>4 DEF producerVars, InOrder, Settled, At
<1>4. ASSUME NEW t \in Topics, SendLog(t)
      PROVE  QueueInv' /\ UNCHANGED <<runFlag, added>> /\ ConsumerStep
  <2>1. /\ UNCHANGED <<runFlag, producerVars, queue, doSend>>
        /\ con = <<"send", t>> /\ queue[t] # <<>>
    BY <1>4 DEF SendLog, At, AtItsPlace
  <2>2. CASE UNCHANGED accepted /\ con' = AfterTopic(t)
    <3>1. con' \in {<<"peek", "detail">>, <<"loop", "bid">>}
      BY <2>2 DEF AfterTopic
    <3>2. TypeOK' /\ AtItsPlace'
      BY <2>1, <2>2, <3>1 DEF producerVars, TypeOK, AtItsPlace, At, Topics
    <3>. QED BY <2>1, <2>2, <3>1, <3>2 DEF producerVars, InOrder, Settled, At
  <2>3. CASE Take(t) /\ con' = <<"pop", t>>
    <3>1. queue[t] \in Seq(Nat) /\ Head(queue[t]) = (added[t] - Len(queue[t])) + 1 /\ Head(queue[t]) \in Nat
      BY <2>1 DEF TypeOK, InOrder
    <3>2. TypeOK' /\ AtItsPlace'
      BY <2>1, <2>3, <3>1 DEF producerVars, TypeOK, AtItsPlace, At, Take, Topics
    <3>3. Settled(t) = added[t] - Len(queue[t]) /\ Settled(t)' = (added[t] - Len(queue[t])) + 1
      BY <2>1, <2>3 DEF producerVars, Settled, At, TypeOK
    <3>4. \A s \in Topics : s # t => Settled(s)' = Settled(s)
      BY <2>1, <2>3 DEF producerVars, Settled, At
    <3>5. SettlesOne(t)
      BY <2>3, <3>1, <3>3, <3>4 DEF SettlesOne, Take
    <3>. QED BY <2>1, <3>2, <3>5 DEF producerVars, InOrder
  <2>. QED BY <1>4, <2>2, <2>3 DEF SendLog
<1>5. ASSUME NEW t \in Topics, Pop(t)
      PROVE  QueueInv' /\ UNCHANGED <<runFlag, added>> /\ ConsumerStep
  <2>1. /\ UNCHANGED <<runFlag, producerVars, doSend, accepted>>
        /\ con = <<"pop", t>> /\ queue[t] # <<>>
        /\ queue' = [queue EXCEPT ![t] = Tail(@)]
        /\ con' \in {<<"peek", "detail">>, <<"loop", "bid">>}
    BY <1>5 DEF Pop, At, AtItsPlace, AfterTopic
  <2>2. /\ queue' \in [Topics -> Seq(Nat)]
        /\ \A s \in Topics : InOrder(s)' /\ (s # t => queue'[s] = queue[s])
        /\ Len(queue'[t]) = Len(queue[t]) - 1
    BY <2>1, TailKeepsOrder DEF producerVars
  <2>3. TypeOK' /\ AtItsPlace'
    BY <2>1, <2>2 DEF producerVars, TypeOK, AtItsPlace, At, Topics
  <2>4. Settled(t)' = Settled(t)
    BY <2>1, <2>2 DEF producerVars, Settled, At, TypeOK
  <2>5. \A s \in Topics : s # t => Settled(s)' = Settled(s)
    BY <2>1, <2>2 DEF producerVars, Settled, At
  <2>. QED BY <2>1, <2>2, <2>3, <2>4, <2>5 DEF producerVars
<1>6. ASSUME NEW t \in Topics, Drain(t)
      PROVE  QueueInv' /\ UNCHANGED <<runFlag, added>> /\ ConsumerStep
  <2>1. /\ UNCHANGED <<runFlag, producerVars>> /\ ~runFlag
        /\ con = <<"drain", t>> /\ con' \in {<<"drain", "detail">>, <<"test", "bid">>}
    BY <1>6 DEF Drain, At, AtItsPlace
  <2>2. CASE queue[t] = <<>>
    <3>1. UNCHANGED <<queue, accepted>> /\ doSend' \in BOOLEAN
      BY <1>6, <2>2 DEF Drain, TypeOK
    <3>2. TypeOK' /\ AtItsPlace'
      BY <2>1, <3>1 DEF producerVars, TypeOK, AtItsPlace, At, Topics
    <3>. QED BY <2>1, <3>1, <3>2 DEF producerVars, InOrder, Settled, At
  <2>3. CASE queue[t] # <<>>
    <3>1. /\ doSend' = TRUE /\ queue' = [queue EXCEPT ![t] = Tail(@)]
          /\ Take(t) \/ UNCHANGED accepted
      BY <1>6, <2>3 DEF Drain
    <3>2. /\ queue' \in [Topics -> Seq(Nat)]
          /\ \A s \in Topics : InOrder(s)' /\ (s # t => queue'[s] = queue[s])
          /\ Len(queue'[t]) = Len(queue[t]) - 1
          /\ Head(queue[t]) = (added[t] - Len(queue[t])) + 1
      BY <2>1, <2>3, <3>1, TailKeepsOrder DEF producerVars
    <3>3. Head(queue[t]) \in Nat
      BY <2>3 DEF TypeOK
    <3>4. accepted' \in [Topics -> Seq(Nat)]
      <4>1. Append(accepted[t], Head(queue[t])) \in Seq(Nat)
        BY <3>3 DEF TypeOK
      <4>2. accepted' = accepted \/ accepted' = [accepted EXCEPT ![t] = Append(accepted[t], Head(queue[t]))]
        BY <3>1 DEF Take
      <4>. QED BY <4>1, <4>2 DEF TypeOK
    <3>5. TypeOK' /\ AtItsPlace'
      <4>1. con' \in ({"peek", "send", "pop", "drain"} \X Topics) \cup ({"loop", "test", "done"} \X {"bid"})
        BY <2>1 DEF Topics
      <4>2. TypeOK'
        BY <2>1, <3>1, <3>2, <3>4, <4>1 DEF producerVars, TypeOK
      <4>. QED BY <2>1, <4>2 DEF AtItsPlace, At
    <3>6. Settled(t) = added[t] - Len(queue[t]) /\ Settled(t)' = Settled(t) + 1
      BY <2>1, <3>2 DEF producerVars, Settled, At, TypeOK
    <3>7. \A s \in Topics : s # t => Settled(s)' = Settled(s)
      BY <2>1, <3>2 DEF producerVars, Settled, At
    <3>8. SettlesOne(t)
      BY <2>1, <3>1, <3>2, <3>6, <3>7 DEF SettlesOne, Take
    <3>. QED BY <2>1, <3>2, <3>5, <3>8 DEF producerVars
  <2>. QED BY <2>2, <2>3
<1>. QED BY <1>1, <1>2, <1>3, <1>4, <1>5, <1>6 DEF run

LEMMA QueueStep == ASSUME QueueInv, [Next]_vars PROVE QueueInv'
<1>1. CASE run
  BY <1>1, RunQueue
<1>2. CASE StopBid
  BY <1>2 DEF StopBid, producerVars, QueueInv, TypeOK, AtItsPlace, At, InOrder
<1>3. CASE \E w \in Workers : Worker(w)
  BY <1>3, WorkerQueue
<1>4. CASE UNCHANGED vars
  BY <1>4 DEF vars, producerVars, QueueInv, TypeOK, AtItsPlace, At, InOrder
<1>. QED BY <1>1, <1>2, <1>3, <1>4 DEF Next

LEMMA QueuesInOrder == Spec => []QueueInv
BY InitQueue, QueueStep, PTL DEF Spec

\* The variables keep their shape; the counter of SendSwitch stays in range.
THEOREM TypeCorrect == Spec => []TypeOK
BY QueuesInOrder, PTL DEF QueueInv
-----------------------------------------------------------------------------
(* The queues keep what Outbox promises. *)

LEMMA StepKeepsPromise ==
    ASSUME QueueInv, [Next]_vars
    PROVE  Promise!Next \/ UNCHANGED <<~runFlag, added, [t \in Topics |-> Settled(t)], accepted>>
<1>. DEFINE bar == [t \in Topics |-> Settled(t)]
<1>0. runFlag \in BOOLEAN /\ added \in [Topics -> Nat] /\ accepted \in [Topics -> Seq(Nat)]
  BY DEF QueueInv, TypeOK
<1>1. CASE run
  <2>1. UNCHANGED <<runFlag, added>> /\ ConsumerStep /\ QueueInv'
    BY <1>1, RunQueue
  <2>2. CASE UNCHANGED accepted /\ \A t \in Topics : Settled(t)' = Settled(t)
    BY <2>1, <2>2
  <2>3. ASSUME NEW t \in Topics, SettlesOne(t) PROVE Promise!Next
    <3>1. Settled(t) \in Nat /\ Settled(t)' \in Nat /\ Settled(t)' = Settled(t) + 1
      BY <2>1, <2>3, SettledType DEF SettlesOne
    <3>2. bar' = [bar EXCEPT ![t] = @ + 1]
      BY <2>3, <3>1 DEF SettlesOne
    <3>3. Settled(t)' <= added'[t]
      <4>1. \A s \in Topics : Len(queue'[s]) \in Nat /\ added'[s] \in Nat /\ Len(queue'[s]) <= added'[s]
        BY <2>1 DEF QueueInv, TypeOK, InOrder
      <4>2. At("pop", t)' => Len(queue'[t]) >= 1
        BY <2>1 DEF QueueInv, AtItsPlace, TypeOK
      <4>. QED BY <4>1, <4>2 DEF Settled
    <3>4. 1 \in 1..(added[t] - bar[t])
      BY <2>1, <3>1, <3>3, <1>0
    <3>5. Append(accepted[t], Settled(t) + 1) = accepted[t] \o [i \in 1..1 |-> bar[t] + i]
      <4>1. [i \in 1..1 |-> bar[t] + i] = <<Settled(t) + 1>>
        BY <3>1
      <4>2. accepted[t] \in Seq(Nat) /\ Settled(t) + 1 \in Nat
        BY <1>0, <3>1
      <4>. QED BY <4>1, <4>2, AppendIsConcat
    <3>6. \/ accepted' = [accepted EXCEPT ![t] = @ \o [i \in 1..1 |-> bar[t] + i]]
          \/ ~runFlag /\ UNCHANGED accepted
      BY <2>3, <3>5 DEF SettlesOne
    <3>7. Promise!Settle(t)
      BY <2>1, <3>2, <3>4, <3>6 DEF Promise!Settle
    <3>. QED BY <3>7 DEF Promise!Next
  <2>. QED BY <2>1, <2>2, <2>3 DEF ConsumerStep
<1>2. CASE StopBid
  <2>1. runFlag /\ ~runFlag' /\ UNCHANGED <<added, accepted, queue, con>>
    BY <1>2 DEF StopBid, producerVars
  <2>2. bar' = bar
    BY <2>1 DEF Settled, At
  <2>. QED BY <2>1, <2>2, <1>0 DEF Promise!Next, Promise!Stop
<1>3. CASE \E w \in Workers : Worker(w)
  <2>1. /\ \A t \in Topics : Settled(t)' = Settled(t)
        /\ \/ UNCHANGED <<runFlag, added, accepted>>
           \/ \E t \in Topics : added' = [added EXCEPT ![t] = @ + 1] /\ UNCHANGED <<runFlag, accepted>>
    BY <1>3, WorkerQueue
  <2>2. bar' = bar
    BY <2>1
  <2>. QED BY <2>1, <2>2 DEF Promise!Next, Promise!Add
<1>4. CASE UNCHANGED vars
  BY <1>4 DEF vars, producerVars, Settled, At
<1>. QED BY <1>1, <1>2, <1>3, <1>4 DEF Next

\* The reports reach Kafka in order, none twice, and none is given up before
\* the stop: every step of ServerLog is one of Outbox, or leaves it alone.
THEOREM QueuesKeepPromise == Spec => ImplementsOutbox
<1>1. Init => Promise!Init
  BY DEF Init, Promise!Init, Settled, At
<1>2. QueueInv /\ [Next]_vars => [Promise!Next]_(Promise!vars)
  BY StepKeepsPromise DEF Promise!vars
<1>. QED BY <1>1, <1>2, QueuesInOrder, PTL DEF Spec, ImplementsOutbox, Promise!Spec
-----------------------------------------------------------------------------
(* One request in Dest is detailed. *)

LEMMA Rounds ==
    ASSUME NEW d \in Nat, d > 1, NEW q \in Nat, NEW r \in 0..(d - 1)
    PROVE  (q * d + r) \div d = q
OBVIOUS

LEMMA Multiples ==
    ASSUME NEW d \in Nat, NEW q \in Nat
    PROVE  q * d \in Nat /\ (q + 1) * d = q * d + d
OBVIOUS

LEMMA InitSample == Init => OwingInv /\ SampleInv
<1>. SUFFICES ASSUME Init PROVE OwingInv /\ SampleInv
  OBVIOUS
<1>1. Owing = {}
  BY DEF Init, Owing
<1>2. IsFiniteSet(Owing) /\ Cardinality(Owing) = 0
  BY <1>1, FS_EmptySet
<1>3. added["detail"] = 0 /\ requests = 0 /\ count = Dest
  BY DEF Init, Topics
<1>4. Dest \in Nat /\ 0 + Dest = (0 + 1) * Dest
  BY ServerLogAssumption
<1>. QED BY <1>2, <1>3, <1>4 DEF Init, OwingInv, SampleInv

LEMMA StepOwing ==
    ASSUME TypeOK, OwingInv, [Next]_vars
    PROVE  /\ OwingInv'
           /\ \/ /\ UNCHANGED <<requests, count>>
                 /\ added'["detail"] + Cardinality(Owing') = added["detail"] + Cardinality(Owing)
              \/ /\ requests' = requests + 1
                 /\ count' = (IF Dest < 2 THEN count ELSE IF count = 1 THEN Dest ELSE count - 1)
                 /\ added'["detail"] = added["detail"]
                 /\ Cardinality(Owing') = IF Dest = 1 \/ (Dest > 1 /\ count = Dest)
                                          THEN Cardinality(Owing) + 1 ELSE Cardinality(Owing)
<1>. USE DEF OwingInv
<1>0. Cardinality(Owing) \in Nat /\ added["detail"] \in Nat
  BY FS_CardinalityType DEF TypeOK, Topics
<1>1. ASSUME UNCHANGED <<need, wst, requests, count, added>>
      PROVE  OwingInv' /\ Owing' = Owing
  BY <1>1 DEF Owing
<1>2. CASE run
  BY <1>2, <1>1 DEF run, LoopTest, DrainTest, Peek, SendLog, Pop, Drain, producerVars
<1>3. CASE StopBid \/ UNCHANGED vars
  BY <1>3, <1>1 DEF StopBid, vars, producerVars
<1>4. ASSUME NEW w \in Workers, NeedSend(w)
      PROVE  /\ OwingInv'
             /\ requests' = requests + 1
             /\ count' = (IF Dest < 2 THEN count ELSE IF count = 1 THEN Dest ELSE count - 1)
             /\ added'["detail"] = added["detail"]
             /\ Cardinality(Owing') = IF Dest = 1 \/ (Dest > 1 /\ count = Dest)
                                      THEN Cardinality(Owing) + 1 ELSE Cardinality(Owing)
  <2>. DEFINE d == Dest = 1 \/ (Dest > 1 /\ count = Dest)
  <2>1. /\ need' = [need EXCEPT ![w] = d] /\ wst' = [wst EXCEPT ![w] = "bid"]
        /\ requests' = requests + 1 /\ added' = added
        /\ count' = (IF Dest < 2 THEN count ELSE IF count = 1 THEN Dest ELSE count - 1)
        /\ wst[w] = "idle" /\ ~need[w]
    BY <1>4 DEF NeedSend
  <2>2. d \in BOOLEAN
    OBVIOUS
  <2>3. Owing' = IF d THEN Owing \cup {w} ELSE Owing
    BY <2>1, <2>2 DEF Owing, TypeOK
  <2>4. w \notin Owing
    BY <2>1 DEF Owing
  <2>5. IsFiniteSet(Owing')
    BY <2>3, FS_AddElement
  <2>6. Cardinality(Owing \cup {w}) = Cardinality(Owing) + 1
    BY <2>4, FS_AddElement
  <2>7. \A v \in Workers : need'[v] => wst'[v] # "idle"
    BY <2>1, <2>2 DEF TypeOK
  <2>. QED BY <2>1, <2>3, <2>5, <2>6, <2>7
<1>5. ASSUME NEW w \in Workers, SendBidLog(w)
      PROVE  OwingInv' /\ Owing' = Owing /\ UNCHANGED <<requests, count>> /\ added'["detail"] = added["detail"]
  <2>1. UNCHANGED <<need, requests, count>> /\ wst' = [wst EXCEPT ![w] = "detail"]
    BY <1>5 DEF SendBidLog
  <2>2. added'["detail"] = added["detail"]
    BY <1>5 DEF SendBidLog, AddLog, TypeOK, Topics
  <2>3. Owing' = Owing
    BY <2>1 DEF Owing
  <2>. QED BY <2>1, <2>2, <2>3 DEF TypeOK
<1>6. ASSUME NEW w \in Workers, SendDetailLog(w)
      PROVE  /\ OwingInv' /\ UNCHANGED <<requests, count>>
             /\ added'["detail"] + Cardinality(Owing') = added["detail"] + Cardinality(Owing)
  <2>1. /\ need' = [need EXCEPT ![w] = FALSE] /\ wst' = [wst EXCEPT ![w] = "idle"]
        /\ UNCHANGED <<requests, count>>
    BY <1>6 DEF SendDetailLog
  <2>2. Owing' = Owing \ {w}
    BY <2>1 DEF Owing, TypeOK
  <2>3. OwingInv'
    BY <2>1, <2>2, FS_RemoveElement DEF TypeOK
  <2>4. CASE need[w]
    <3>1. added'["detail"] = added["detail"] + 1
      BY <1>6, <2>4 DEF SendDetailLog, AddLog, TypeOK, Topics
    <3>2. w \in Owing /\ Cardinality(Owing') = Cardinality(Owing) - 1
      BY <2>2, <2>4, FS_RemoveElement DEF Owing
    <3>. QED BY <2>1, <2>3, <3>1, <3>2, <1>0
  <2>5. CASE ~need[w]
    <3>1. added' = added
      BY <1>6, <2>5 DEF SendDetailLog
    <3>2. Owing' = Owing
      BY <2>2, <2>5 DEF Owing
    <3>. QED BY <2>1, <2>3, <3>1, <3>2
  <2>. QED BY <2>4, <2>5
<1>. QED BY <1>2, <1>3, <1>4, <1>5, <1>6 DEF Next, Worker

LEMMA StepSample ==
    ASSUME TypeOK, TypeOK', OwingInv, SampleInv, [Next]_vars
    PROVE  SampleInv'
<1>. DEFINE detailed == added["detail"] + Cardinality(Owing)
<1>0. /\ Dest \in Nat /\ count \in Nat /\ requests \in Nat /\ requests' \in Nat
      /\ Cardinality(Owing) \in Nat /\ added["detail"] \in Nat /\ detailed \in Nat
      /\ Dest > 1 => count \in 1..Dest
  BY ServerLogAssumption, FS_CardinalityType DEF TypeOK, OwingInv, Topics
<1>1. CASE /\ UNCHANGED <<requests, count>>
           /\ added'["detail"] + Cardinality(Owing') = added["detail"] + Cardinality(Owing)
  BY <1>1 DEF SampleInv
<1>2. CASE /\ requests' = requests + 1
           /\ count' = (IF Dest < 2 THEN count ELSE IF count = 1 THEN Dest ELSE count - 1)
           /\ added'["detail"] = added["detail"]
           /\ Cardinality(Owing') = IF Dest = 1 \/ (Dest > 1 /\ count = Dest)
                                    THEN Cardinality(Owing) + 1 ELSE Cardinality(Owing)
  <2>1. detailed' = IF Dest = 1 \/ (Dest > 1 /\ count = Dest) THEN detailed + 1 ELSE detailed
    BY <1>2, <1>0
  <2>2. CASE Dest < 2
    BY <1>0, <2>1, <2>2, <1>2 DEF SampleInv
  <2>3. CASE Dest > 1
    <3>1. PICK q \in Nat : /\ requests + count = (q + 1) * Dest
                           /\ detailed = IF count = Dest THEN q ELSE q + 1
      BY <2>3 DEF SampleInv
    <3>2. CASE count = 1
      <4>1. requests' + count' = (requests + count) + Dest
        BY <3>2, <1>2, <1>0, <2>3
      <4>2. requests' + count' = ((q + 1) + 1) * Dest
        BY <4>1, <3>1, Multiples, <1>0
      <4>3. detailed' = q + 1 /\ count' = Dest
        BY <3>1, <3>2, <2>1, <2>3, <1>2, <1>0
      <4>. QED BY <2>3, <4>2, <4>3 DEF SampleInv
    <3>3. CASE count # 1
      <4>1. requests' + count' = (q + 1) * Dest
        BY <3>1, <3>3, <1>2, <1>0, <2>3
      <4>2. detailed' = q + 1 /\ count' # Dest
        BY <3>1, <3>3, <2>1, <2>3, <1>2, <1>0
      <4>. QED BY <2>3, <4>1, <4>2 DEF SampleInv
    <3>. QED BY <3>2, <3>3
  <2>. QED BY <2>2, <2>3, <1>0
<1>. QED BY <1>1, <1>2, StepOwing

\* However the requests overlap, the first one and then every Dest-th one has
\* a detail message, which was added or is about to be.
THEOREM OneInDestIsDetailed == Spec => []OneInDest
<1>1. Init => OwingInv /\ SampleInv
  BY InitSample
<1>2. ASSUME TypeOK, TypeOK', OwingInv, SampleInv, [Next]_vars PROVE OwingInv' /\ SampleInv'
  BY <1>2, StepOwing, StepSample
<1>3. ASSUME TypeOK, OwingInv, SampleInv PROVE OneInDest
  <2>0. /\ Dest \in Nat /\ count \in Nat /\ requests \in Nat
        /\ Dest > 1 => count \in 1..Dest
    BY <1>3, ServerLogAssumption DEF TypeOK
  <2>1. Cardinality({w \in Workers : need[w]}) = Cardinality(Owing)
    BY DEF Owing
  <2>2. CASE Dest = 0
    BY <1>3, <2>1, <2>2 DEF SampleInv, OneInDest
  <2>3. CASE Dest = 1
    BY <1>3, <2>0, <2>1, <2>3 DEF SampleInv, OneInDest
  <2>4. CASE Dest > 1
    <3>1. PICK q \in Nat : /\ requests + count = (q + 1) * Dest
                           /\ added["detail"] + Cardinality(Owing) = IF count = Dest THEN q ELSE q + 1
      BY <1>3, <2>4 DEF SampleInv
    <3>2. CASE count = Dest
      <4>1. requests + Dest - 1 = q * Dest + (Dest - 1)
        BY <3>1, <3>2, <2>0, Multiples
      <4>2. (requests + Dest - 1) \div Dest = q
        BY <4>1, <2>0, <2>4, Rounds
      <4>. QED BY <2>1, <2>4, <3>1, <3>2, <4>2 DEF OneInDest
    <3>3. CASE count # Dest
      <4>1. requests + Dest - 1 = (q + 1) * Dest + (Dest - count - 1)
        BY <3>1, <3>3, <2>0, <2>4, Multiples
      <4>2. (requests + Dest - 1) \div Dest = q + 1
        BY <4>1, <2>0, <2>4, <3>3, Rounds
      <4>. QED BY <2>1, <2>4, <3>1, <3>3, <4>2 DEF OneInDest
    <3>. QED BY <3>2, <3>3
  <2>. QED BY <2>0, <2>2, <2>3, <2>4
<1>. QED BY <1>1, <1>2, <1>3, TypeCorrect, PTL DEF Spec
------------------------------------------------------------------------------
(* Why a topic that is refused does not hold up the other, and why the drain *)
(* comes to an end.                                                          *)

\* The steps of the consumer, at most, until it sends a detail message.
StepsToDetail ==
    CASE At("pop", "detail") -> 6 [] At("loop", "bid") -> 5 [] At("peek", "bid") -> 4
      [] At("send", "bid") -> 3 [] At("pop", "bid") -> 2 [] At("peek", "detail") -> 1 [] OTHER -> 0

\* Whatever Kafka does with the bid topic, every step of the consumer brings
\* it nearer to the next detail message, or the stop has taken it to the drain.
DetailGetsItsTurn ==
    con[1] \notin {"drain", "test", "done"} /\ queue["detail"] # <<>> /\ ~At("send", "detail") =>
        IF run THEN con'[1] = "drain" \/ StepsToDetail' < StepsToDetail ELSE con' = con

\* The steps of the drain if nothing is added any more: a round per message,
\* and a last one that finds both queues empty.
DrainLeft ==
    6 * (Len(queue["bid"]) + Len(queue["detail"]))
    + (CASE At("drain", "bid") -> 3 [] At("drain", "detail") -> 2 [] At("test", "bid") -> 1 [] OTHER -> 0)
    + (IF doSend /\ ~At("drain", "bid") THEN 3 ELSE 0)

\* Every step of the drain brings it nearer to its end, whatever Kafka refuses.
DrainGetsOn == run /\ con[1] \in {"drain", "test"} => DrainLeft' < DrainLeft

\* Refusing one topic costs the other at most a bounded number of steps.
THEOREM DetailComesUp == Spec => [][DetailGetsItsTurn]_vars
<1>1. QueueInv /\ [Next]_vars => [DetailGetsItsTurn]_vars
  <2>. SUFFICES ASSUME QueueInv, Next, queue["detail"] # <<>>, ~At("send", "detail"),
                       con[1] \notin {"drain", "test", "done"}
                PROVE  IF run THEN con'[1] = "drain" \/ StepsToDetail' < StepsToDetail ELSE con' = con
    BY DEF DetailGetsItsTurn
  <2>1. ASSUME run PROVE con'[1] = "drain" \/ StepsToDetail' < StepsToDetail
    <3>1. CASE LoopTest
      BY <3>1 DEF LoopTest, At, StepsToDetail
    <3>2. ASSUME NEW t \in Topics, Peek(t) \/ SendLog(t) \/ Pop(t)
          PROVE  StepsToDetail' < StepsToDetail
      <4>1. CASE t = "bid"
        BY <3>2, <4>1 DEF Peek, SendLog, Pop, At, AfterTopic, StepsToDetail
      <4>2. CASE t = "detail"
        BY <3>2, <4>2 DEF Peek, SendLog, Pop, At, AfterTopic, StepsToDetail
      <4>. QED BY <4>1, <4>2 DEF Topics
    <3>. QED BY <2>1, <3>1, <3>2 DEF run, DrainTest, Drain, At
  <2>2. ASSUME ~run PROVE con' = con
    BY <2>2 DEF Next, StopBid, Worker, NeedSend, SendBidLog, SendDetailLog
  <2>. QED BY <2>1, <2>2
<1>. QED BY <1>1, QueuesInOrder, PTL DEF Spec

\* After the stop each message is tried once: the drain ends although Kafka
\* may refuse everything, as soon as no more messages are added.
THEOREM DrainComesToEnd == Spec => [][DrainGetsOn]_vars
<1>1. QueueInv /\ [Next]_vars => [DrainGetsOn]_vars
  <2>. SUFFICES ASSUME QueueInv, run, con[1] \in {"drain", "test"} PROVE DrainLeft' < DrainLeft
    BY DEF DrainGetsOn
  <2>1. /\ queue \in [Topics -> Seq(Nat)] /\ doSend \in BOOLEAN
        /\ \A t \in Topics : Len(queue[t]) \in Nat
    BY DEF QueueInv, TypeOK
  <2>2. CASE DrainTest
    <3>1. con = <<"test", "bid">> /\ con' = <<IF doSend THEN "drain" ELSE "done", "bid">> /\ UNCHANGED <<queue, doSend>>
      BY <2>2 DEF DrainTest, At
    <3>. QED BY <2>1, <3>1 DEF DrainLeft, At, Topics
  <2>3. ASSUME NEW t \in Topics, Drain(t) PROVE DrainLeft' < DrainLeft
    <3>1. con = <<"drain", t>> /\ con' = IF t = "bid" THEN <<"drain", "detail">> ELSE <<"test", "bid">>
      BY <2>3 DEF Drain, At
    <3>2. CASE queue[t] = <<>>
      <4>1. queue' = queue /\ doSend' = (t = "detail" /\ doSend)
        BY <2>3, <3>2 DEF Drain
      <4>2. CASE t = "bid"
        <5>1. con = <<"drain", "bid">> /\ con' = <<"drain", "detail">> /\ ~doSend'
          BY <3>1, <4>1, <4>2
        <5>. QED BY <2>1, <4>1, <5>1 DEF DrainLeft, At, Topics
      <4>3. CASE t = "detail"
        BY <2>1, <3>1, <4>1, <4>3 DEF DrainLeft, At, Topics
      <4>. QED BY <4>2, <4>3 DEF Topics
    <3>3. CASE queue[t] # <<>>
      <4>1. doSend' = TRUE /\ queue' = [queue EXCEPT ![t] = Tail(@)]
        BY <2>3, <3>3 DEF Drain
      <4>2. queue[t] \in Seq(Nat)
        BY <2>1
      <4>3. Len(Tail(queue[t])) = Len(queue[t]) - 1
        BY <3>3, <4>2
      <4>4. Len(queue'[t]) = Len(queue[t]) - 1 /\ \A s \in Topics : s # t => queue'[s] = queue[s]
        BY <2>1, <4>1, <4>3
      <4>5. CASE t = "bid"
        <5>1. con = <<"drain", "bid">> /\ con' = <<"drain", "detail">>
          BY <3>1, <4>5
        <5>2. /\ Len(queue'["bid"]) = Len(queue["bid"]) - 1 /\ queue'["detail"] = queue["detail"]
              /\ Len(queue["bid"]) \in Nat /\ Len(queue["detail"]) \in Nat
          BY <2>1, <4>4, <4>5 DEF Topics
        <5>3. DrainLeft = 6 * (Len(queue["bid"]) + Len(queue["detail"])) + 3
          BY <5>1, <5>2 DEF DrainLeft, At
        <5>4. DrainLeft' = 6 * (Len(queue'["bid"]) + Len(queue'["detail"])) + 5
          <6>1. doSend' /\ Len(queue'["bid"]) \in Int /\ Len(queue'["detail"]) \in Int
            BY <4>1, <5>2
          <6>. QED BY <5>1, <6>1 DEF DrainLeft, At
        <5>5. Len(queue'["detail"]) = Len(queue["detail"])
          BY <5>2
        <5>6. \A m, n \in Nat : 6 * ((m - 1) + n) + 5 < 6 * (m + n) + 3
          OBVIOUS
        <5>. QED BY <5>2, <5>3, <5>4, <5>5, <5>6
      <4>6. CASE t = "detail"
        BY <2>1, <3>1, <4>1, <4>4, <4>6 DEF DrainLeft, At, Topics
      <4>. QED BY <4>5, <4>6 DEF Topics
    <3>. QED BY <3>2, <3>3
  <2>. QED BY <2>2, <2>3 DEF run, LoopTest, Peek, SendLog, Pop, At
<1>. QED BY <1>1, QueuesInOrder, PTL DEF Spec
==============================================================================
