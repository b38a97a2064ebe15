------------------------------ MODULE ServerLog ------------------------------
(***************************************************************************)
(* The reports to the Kafka servers (common/serverLog/server_log.cpp):     *)
(* worker threads add a bid message per request and, for one request in    *)
(* SendSwitch::_dest, a detail message; one consumer thread sends them.    *)
(*                                                                         *)
(* The front message is sent outside the lock and popped only when Kafka   *)
(* took it, so a message that fails is tried again in the next round.      *)
(* When the run flag is cleared the consumer drains both queues, tries     *)
(* each message once, and ends; workers may still be adding by then.       *)
(***************************************************************************)
EXTENDS Naturals, Sequences, FiniteSets

CONSTANTS Workers,      \* the threads that serve requests
          Dest,         \* SendSwitch::_dest: one request in Dest is detailed
          MaxRequests   \* bound: how many requests are served

ASSUME ServerLogAssumption == Dest \in Nat /\ MaxRequests \in Nat

Topics == {"bid", "detail"}

VARIABLES
    runFlag,    \* *_run_flag
    count,      \* SendSwitch::_count
    requests,   \* how many times NeedSend was called
    wst, need,  \* where each worker is, and its _send_detail
    added,      \* added[t]: how many messages AddLog pushed on t
    queue,      \* _msg_bid and _msg_detail: the messages by serial number
    con,        \* where the consumer is
    doSend,     \* its do_send
    accepted    \* accepted[t]: the messages Kafka took, in order

producerVars == <<count, requests, wst, need, added>>
vars == <<runFlag, producerVars, queue, con, doSend, accepted>>

Init ==
    /\ runFlag = TRUE
    /\ count = Dest
    /\ requests = 0
    /\ wst = [w \in Workers |-> "idle"]
    /\ need = [w \in Workers |-> FALSE]
    /\ added = [t \in Topics |-> 0]
    /\ queue = [t \in Topics |-> <<>>]
    /\ con = <<"loop", "bid">>
    /\ doSend = FALSE
    /\ accepted = [t \in Topics |-> <<>>]

At(where, t) == con = <<where, t>>

\* Where the round goes on after topic t.
AfterTopic(t) == IF t = "bid" THEN <<"peek", "detail">> ELSE <<"loop", "bid">>

\* Kafka takes the front message of t.
Take(t) == accepted' = [accepted EXCEPT ![t] = Append(@, Head(queue[t]))]
------------------------------------------------------------------------------
(* Seeded faults: wrong variants of the actions below, each of which must   *)
(* break a property.                                                        *)

\* NeedSend lets the counter start again one call early.
NeedSendEarly(w) ==
    /\ wst[w] = "idle" /\ requests < MaxRequests
    /\ requests' = requests + 1
    /\ need' = [need EXCEPT ![w] = Dest = 1 \/ (Dest > 1 /\ count = Dest)]
    /\ count' = IF Dest < 2 THEN count ELSE IF count <= 2 THEN Dest ELSE count - 1
    /\ wst' = [wst EXCEPT ![w] = "bid"]
    /\ UNCHANGED <<runFlag, added, queue, con, doSend, accepted>>

\* The message is popped whether Kafka took it or not.
SendThenAlwaysPop(t) ==
    /\ At("send", t)
    /\ Take(t) \/ UNCHANGED accepted
    /\ con' = <<"pop", t>>
    /\ UNCHANGED <<runFlag, producerVars, queue, doSend>>

\* A failed send is tried again before the other topic is looked at.
SendUntilTaken(t) ==
    /\ At("send", t)
    /\ \/ Take(t) /\ con' = <<"pop", t>>
       \/ con' = <<"peek", t>> /\ UNCHANGED accepted
    /\ UNCHANGED <<runFlag, producerVars, queue, doSend>>

\* The drain keeps a message until Kafka takes it.
DrainUntilTaken(t) ==
    /\ At("drain", t)
    /\ IF queue[t] = <<>>
       THEN UNCHANGED <<queue, accepted>> /\ doSend' = (t = "detail" /\ doSend)
       ELSE /\ doSend' = TRUE
            /\ \/ Take(t) /\ queue' = [queue EXCEPT ![t] = Tail(@)]
               \/ UNCHANGED <<queue, accepted>>
    /\ con' = IF t = "bid" THEN <<"drain", "detail">> ELSE <<"test", "bid">>
    /\ UNCHANGED <<runFlag, producerVars>>
------------------------------------------------------------------------------
(* A worker: NeedSend at the start of a request, AddLog at its end *)

NeedSend(w) ==
    /\ wst[w] = "idle" /\ requests < MaxRequests
    /\ requests' = requests + 1
    /\ need' = [need EXCEPT ![w] = Dest = 1 \/ (Dest > 1 /\ count = Dest)]
    /\ count' = IF Dest < 2 THEN count ELSE IF count = 1 THEN Dest ELSE count - 1
    /\ wst' = [wst EXCEPT ![w] = "bid"]
    /\ UNCHANGED <<runFlag, added, queue, con, doSend, accepted>>

AddLog(t) ==
    /\ added' = [added EXCEPT ![t] = @ + 1]
    /\ queue' = [queue EXCEPT ![t] = Append(@, added[t] + 1)]

\* Only a request that went as far as selecting an advertisement is reported.
SendBidLog(w) ==
    /\ wst[w] = "bid"
    /\ wst' = [wst EXCEPT ![w] = "detail"]
    /\ AddLog("bid") \/ UNCHANGED <<added, queue>>
    /\ UNCHANGED <<runFlag, count, requests, need, con, doSend, accepted>>

SendDetailLog(w) ==
    /\ wst[w] = "detail"
    /\ wst' = [wst EXCEPT ![w] = "idle"]
    /\ IF need[w] THEN AddLog("detail") ELSE UNCHANGED <<added, queue>>
    /\ need' = [need EXCEPT ![w] = FALSE]
    /\ UNCHANGED <<runFlag, count, requests, con, doSend, accepted>>
------------------------------------------------------------------------------
(* The consumer: ServerLog::run *)

LoopTest ==
    /\ At("loop", "bid")
    /\ con' = <<IF runFlag THEN "peek" ELSE "drain", "bid">>
    /\ UNCHANGED <<runFlag, producerVars, queue, doSend, accepted>>

Peek(t) ==
    /\ At("peek", t)
    /\ con' = IF queue[t] # <<>> THEN <<"send", t>> ELSE AfterTopic(t)
    /\ UNCHANGED <<runFlag, producerVars, queue, doSend, accepted>>

SendLog(t) ==
    /\ At("send", t)
    /\ \/ Take(t) /\ con' = <<"pop", t>>
       \/ con' = AfterTopic(t) /\ UNCHANGED accepted
    /\ UNCHANGED <<runFlag, producerVars, queue, doSend>>

Pop(t) ==
    /\ At("pop", t)
    /\ queue' = [queue EXCEPT ![t] = Tail(@)]
    /\ con' = AfterTopic(t)
    /\ UNCHANGED <<runFlag, producerVars, doSend, accepted>>

\* The drain sends and pops under the lock; do_send starts each round FALSE.
Drain(t) ==
    /\ At("drain", t)
    /\ IF queue[t] = <<>>
       THEN UNCHANGED <<queue, accepted>> /\ doSend' = (t = "detail" /\ doSend)
       ELSE /\ doSend' = TRUE
            /\ Take(t) \/ UNCHANGED accepted
            /\ queue' = [queue EXCEPT ![t] = Tail(@)]
    /\ con' = IF t = "bid" THEN <<"drain", "detail">> ELSE <<"test", "bid">>
    /\ UNCHANGED <<runFlag, producerVars>>

DrainTest ==
    /\ At("test", "bid")
    /\ con' = <<IF doSend THEN "drain" ELSE "done", "bid">>
    /\ UNCHANGED <<runFlag, producerVars, queue, doSend, accepted>>

StopBid ==
    /\ runFlag
    /\ runFlag' = FALSE
    /\ UNCHANGED <<producerVars, queue, con, doSend, accepted>>
------------------------------------------------------------------------------
run == LoopTest \/ DrainTest \/ \E t \in Topics : Peek(t) \/ SendLog(t) \/ Pop(t) \/ Drain(t)

Worker(w) == NeedSend(w) \/ SendBidLog(w) \/ SendDetailLog(w)

Next == run \/ StopBid \/ \E w \in Workers : Worker(w)

Spec == Init /\ [][Next]_vars

\* The consumer is scheduled, and Kafka does not refuse detail messages for
\* ever.  Nothing is assumed of the bid topic.
TakesDetail == SendLog("detail") /\ Take("detail")

FairSpec == Spec /\ WF_vars(run) /\ SF_vars(TakesDetail)
------------------------------------------------------------------------------
\* The variables keep their shape; the counter of SendSwitch never leaves its
\* range, whatever the order of the calls of NeedSend.
TypeOK ==
    /\ runFlag \in BOOLEAN /\ doSend \in BOOLEAN
    /\ requests \in 0..MaxRequests
    /\ count \in (IF Dest < 2 THEN {Dest} ELSE 1..Dest)
    /\ wst \in [Workers -> {"idle", "bid", "detail"}]
    /\ need \in [Workers -> BOOLEAN]
    /\ added \in [Topics -> Nat]
    /\ queue \in [Topics -> Seq(Nat)]
    /\ con \in ({"peek", "send", "pop", "drain"} \X Topics) \cup ({"loop", "test", "done"} \X {"bid"})
    /\ accepted \in [Topics -> Seq(Nat)]

\* How many messages of t are delivered or given up: those that were popped
\* and the one that was taken and is about to be popped.
Settled(t) == added[t] - Len(queue[t]) + (IF At("pop", t) THEN 1 ELSE 0)

\* The queues deliver in order, never twice, and give up nothing before the
\* stop: a send that fails while the engine runs loses no message.
Promise == INSTANCE Outbox WITH stopped <- ~runFlag,
                                settled <- [t \in Topics |-> Settled(t)]

ImplementsOutbox == Promise!Spec

\* One request in Dest is detailed, the first one included, however the
\* requests of the workers overlap.
OneInDest ==
    added["detail"] + Cardinality({w \in Workers : need[w]})
        = IF Dest = 0 THEN 0 ELSE (requests + Dest - 1) \div Dest

\* A topic that Kafka refuses does not hold up the other one.
DetailNotHeldUp ==
    \A n \in 1..MaxRequests :
        added["detail"] >= n ~> (Settled("detail") >= n \/ At("done", "bid"))

\* The consumer ends after the stop, even if Kafka takes nothing any more.
DrainEnds == ~runFlag ~> At("done", "bid")
==============================================================================
