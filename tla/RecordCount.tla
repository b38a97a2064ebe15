----------------------------- MODULE RecordCount -----------------------------
(***************************************************************************)
(* The counters of won bids (common/ad_control.cpp, RecordCount): worker   *)
(* threads queue a record per bid; one thread takes a record out of the    *)
(* queue and adds 1 to a counter of bids and the price to a counter of     *)
(* prices.  Both live in the Redis cluster, under a key made of the policy *)
(* and the day of the bid.                                                 *)
(*                                                                         *)
(* The two hincrby are separate commands whose results nobody looks at:    *)
(* each of them takes place once or not at all.  A node of the cluster     *)
(* that could not be reached when the client connected has no connection,  *)
(* and a command for a key of its slots waits for one for ever; the client *)
(* connects only once.  When the flag is cleared the thread empties the    *)
(* queue and ends, under the lock all the while.                           *)
(*                                                                         *)
(* The standard definitions have the prefix RC, because the proofs about   *)
(* this module stand beside those about the client that it uses.           *)
(***************************************************************************)
EXTENDS Naturals, Sequences, FiniteSets, Functions

CONSTANTS Workers,     \* the threads that serve requests
          Policies,    \* bound: the policies that win
          Prices,      \* bound: the prices they pay
          MaxRecords,  \* bound: how many bids are won
          MaxDay,      \* bound: the last day
          Holes,       \* bound: the sets of keys whose node may have no connection
          None         \* no record

ASSUME RecordCountAssumption ==
    /\ MaxRecords \in Nat /\ MaxDay \in Nat \ {0}
    /\ Prices \subseteq 0..10000
    /\ Holes \subseteq SUBSET (Policies \X (1..MaxDay))
    /\ None \notin [id : Nat, pid : Policies, price : Nat, day : Nat]

VARIABLES
    runFlag,   \* *_run_flag
    day,       \* the day by the clock
    won,       \* the bids that were won: policy, price and day, in order
    making,    \* making[w]: the record that AddRecord made and has not pushed
    queue,     \* _all
    con,       \* where the thread is
    one,       \* the record it has in hand
    bids,      \* bids[k]: the counter of bids under key k
    spent,     \* spent[k]: the counter of prices under key k
    lost,      \* lost[counter]: the bids whose command did not take place
    hole       \* the keys whose node has no connection

redisVars == <<bids, spent, lost, hole>>
rcVars == <<runFlag, day, won, making, queue, con, one, redisVars>>

Keys == Policies \X (1..MaxDay)

RCInit ==
    /\ runFlag = TRUE
    /\ day = 1
    /\ won = <<>>
    /\ making = [w \in Workers |-> None]
    /\ queue = <<>>
    /\ con = "loop"
    /\ one = None
    /\ bids = [k \in Keys |-> 0]
    /\ spent = [k \in Keys |-> 0]
    /\ lost = [bids |-> {}, spent |-> {}]
    /\ hole \in Holes

\* The lock is held by the thread from the end of its loop to its own end.
LockHeld == con \in {"drain", "lastBid", "lastPrice"}

KeyOf(r) == <<r.pid, r.day>>

\* GetConnection finds the list of the node empty, and waits.
Waits == one # None /\ KeyOf(one) \in hole
------------------------------------------------------------------------------
(* Seeded faults: wrong variants of the actions below, each of which must   *)
(* break a property.                                                        *)

\* The day is the one on which the record is pushed, not the one of the bid.
PushStampsDay(w) ==
    /\ making[w] # None /\ ~LockHeld
    /\ queue' = Append(queue, [making[w] EXCEPT !.day = day])
    /\ making' = [making EXCEPT ![w] = None]
    /\ UNCHANGED <<runFlag, day, won, con, one, redisVars>>

\* The record is taken and, when the flag is cleared meanwhile, dropped.
TakeOrQuit ==
    /\ con = "loop" /\ queue # <<>>
    /\ one' = IF runFlag THEN Head(queue) ELSE None
    /\ queue' = Tail(queue)
    /\ con' = IF runFlag THEN "bid" ELSE "drain"
    /\ UNCHANGED <<runFlag, day, won, making, redisVars>>

\* The drain looks at the front record and does not remove it.
DrainTakeKeeps ==
    /\ con = "drain" /\ queue # <<>>
    /\ one' = Head(queue)
    /\ con' = "lastBid"
    /\ UNCHANGED <<runFlag, day, won, making, queue, redisVars>>

\* A record whose command was lost goes back to the front of the queue.
CountBidOrPutBack ==
    /\ con \in {"bid", "lastBid"} /\ ~Waits
    /\ \/ /\ bids' = [bids EXCEPT ![KeyOf(one)] = @ + 1]
          /\ con' = IF con = "bid" THEN "price" ELSE "lastPrice"
          /\ UNCHANGED <<queue, one>>
       \/ /\ queue' = <<one>> \o queue
          /\ one' = None
          /\ con' = IF con = "bid" THEN "loop" ELSE "drain"
          /\ UNCHANGED bids
    /\ UNCHANGED <<runFlag, day, won, making, spent, lost, hole>>
------------------------------------------------------------------------------
(* AddRecord: the day is read before the lock is taken *)

Make(w) ==
    /\ making[w] = None /\ Len(won) < MaxRecords
    /\ \E p \in Policies, x \in Prices :
          LET r == [id |-> Len(won) + 1, pid |-> p, price |-> x, day |-> day]
          IN won' = Append(won, r) /\ making' = [making EXCEPT ![w] = r]
    /\ UNCHANGED <<runFlag, day, queue, con, one, redisVars>>

Push(w) ==
    /\ making[w] # None /\ ~LockHeld
    /\ queue' = Append(queue, making[w])
    /\ making' = [making EXCEPT ![w] = None]
    /\ UNCHANGED <<runFlag, day, won, con, one, redisVars>>

AddRecord(w) == Make(w) \/ Push(w)
------------------------------------------------------------------------------
(* The thread: run and RecordOne *)

Take ==
    /\ con = "loop" /\ runFlag /\ queue # <<>>
    /\ one' = Head(queue)
    /\ queue' = Tail(queue)
    /\ con' = "bid"
    /\ UNCHANGED <<runFlag, day, won, making, redisVars>>

\* hincrby key field 1
CountBid ==
    /\ con \in {"bid", "lastBid"} /\ ~Waits
    /\ \/ bids' = [bids EXCEPT ![KeyOf(one)] = @ + 1] /\ UNCHANGED lost
       \/ lost' = [lost EXCEPT !.bids = @ \cup {one.id}] /\ UNCHANGED bids
    /\ con' = IF con = "bid" THEN "price" ELSE "lastPrice"
    /\ UNCHANGED <<runFlag, day, won, making, queue, one, spent, hole>>

\* hincrby key field price
CountPrice ==
    /\ con \in {"price", "lastPrice"} /\ ~Waits
    /\ \/ spent' = [spent EXCEPT ![KeyOf(one)] = @ + one.price] /\ UNCHANGED lost
       \/ lost' = [lost EXCEPT !.spent = @ \cup {one.id}] /\ UNCHANGED spent
    /\ con' = IF con = "price" THEN "loop" ELSE "drain"
    /\ one' = None
    /\ UNCHANGED <<runFlag, day, won, making, queue, bids, hole>>

LoopEnds ==
    /\ con = "loop" /\ ~runFlag
    /\ con' = "drain"
    /\ UNCHANGED <<runFlag, day, won, making, queue, one, redisVars>>

DrainTake ==
    /\ con = "drain" /\ queue # <<>>
    /\ one' = Head(queue)
    /\ queue' = Tail(queue)
    /\ con' = "lastBid"
    /\ UNCHANGED <<runFlag, day, won, making, redisVars>>

DrainEnd ==
    /\ con = "drain" /\ queue = <<>>
    /\ con' = "done"
    /\ UNCHANGED <<runFlag, day, won, making, queue, one, redisVars>>

run == Take \/ CountBid \/ CountPrice \/ LoopEnds \/ DrainTake \/ DrainEnd
------------------------------------------------------------------------------
Midnight ==
    /\ day < MaxDay
    /\ day' = day + 1
    /\ UNCHANGED <<runFlag, won, making, queue, con, one, redisVars>>

StopBid ==
    /\ runFlag
    /\ runFlag' = FALSE
    /\ UNCHANGED <<day, won, making, queue, con, one, redisVars>>

RCNext == run \/ Midnight \/ StopBid \/ \E w \in Workers : AddRecord(w)

RCSpec == RCInit /\ [][RCNext]_rcVars

RCFairSpec == RCSpec /\ WF_rcVars(run)
------------------------------------------------------------------------------
MakingIds == {making[w].id : w \in {v \in Workers : making[v] # None}}
QueueIds == {queue[i].id : i \in 1..Len(queue)}

\* The bids on their way: with a worker, in the queue or in hand.
OnTheWay(counter) ==
    MakingIds \cup QueueIds
    \cup (IF one # None /\ (counter = "spent" \/ con \in {"bid", "lastBid"}) THEN {one.id} ELSE {})

\* The bids a counter should stand for: all those of its policy and its day
\* but for those on their way and those whose command was lost.
Due(counter, k) ==
    {i \in 1..Len(won) : KeyOf(won[i]) = k} \ (OnTheWay(counter) \cup lost[counter])

\* The variables keep their shape, and a record is passed on as it was made.
RCTypeOK ==
    /\ runFlag \in BOOLEAN /\ day \in 1..MaxDay
    /\ con \in {"loop", "bid", "price", "drain", "lastBid", "lastPrice", "done"}
    /\ one # None <=> con \in {"bid", "price", "lastBid", "lastPrice"}
    /\ Len(won) <= MaxRecords
    /\ \A w \in Workers : making[w] = None \/ making[w] \in Range(won)
    /\ Range(queue) \subseteq Range(won)

\* The prices of those records whose place is in S, added up one by one.
PricesUpTo(records, S) ==
    LET sum[n \in 0..Len(records)] ==
            IF n = 0 THEN 0 ELSE sum[n - 1] + (IF n \in S THEN records[n].price ELSE 0)
    IN  sum

Total(records, S) == PricesUpTo(records, S)[Len(records)]

\* Every bid is counted once, under its policy and the day on which it was
\* won, as soon as it is neither on its way nor lost; none is counted twice.
CountsAgree ==
    \A k \in Keys :
        /\ bids[k] = Cardinality(Due("bids", k))
        /\ spent[k] = Total(won, Due("spent", k))

\* A record that was pushed is tried, unless it was pushed too late or the
\* thread waits for a connection to the node of a record before it.
EventuallyTried ==
    \A n \in 1..MaxRecords :
        (\E i \in 1..Len(queue) : queue[i].id = n)
            ~> ((\A i \in 1..Len(queue) : queue[i].id # n) \/ con = "done" \/ Waits)

\* The thread ends after the stop, whatever Redis does with the commands,
\* and hangs only for a bid whose policy and day lead to a node without a
\* connection: then it does so with the lock held, or will not end its loop.
DrainEnds == ~runFlag ~> con = "done" \/ Waits
==============================================================================
