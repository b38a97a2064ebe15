------------------------------- MODULE Refresh -------------------------------
(***************************************************************************)
(* How the two caches are loaded from Redis (common/ad_cache.cpp, with     *)
(* EffectChecker of ad_cache.h and the pool of common/xRedis): AdData, the *)
(* policies and their creatives, and AdCtrl, the pauses and the devices    *)
(* that have reached a frequency limit.  They run alike and share nothing, *)
(* so the module describes one of them; the variable kind says which.      *)
(*                                                                         *)
(* A load is a row of commands between which the back end changes Redis    *)
(* and connections break.  Whatever happens, Update returns true, and the  *)
(* buffer is swapped in.  The last command of a load reads a stamp which   *)
(* the back end renews as long as it works; when it has been the same for  *)
(* too long the buffer is emptied.  Each buffer has clients of its own and *)
(* remembers the stamp by itself.                                          *)
(*                                                                         *)
(* A policy is read by a row of commands of its own: what it is, which     *)
(* creatives it has, each of them with its prices, and then its deals,     *)
(* target and audiences.  Without the first three it is passed over; of    *)
(* the others nobody looks at the result, and the policy is served as if   *)
(* Redis had nothing there.                                                *)
(*                                                                         *)
(* A mark is a pause or a frequency limit reached by the device of the     *)
(* request; its id is that of a campaign, a policy or a creative.  The     *)
(* other things AdData reads, the templates apart, may be missing and are  *)
(* left out.  Readers are the matter of DoubleCache.                       *)
(***************************************************************************)
EXTENDS Naturals, FiniteSets

CONSTANTS Policies,     \* bound: the policies there may be
          Creatives,    \* bound: the creatives there may be
          PolicyOf(_),  \* the policy of a creative
          Lasting,      \* bound: the policies and creatives that are never taken away
          Weak,         \* bound: the buffers whose pools lose single connections
          Ids,          \* bound: the ids of policies, campaigns and creatives
          IdsOf(_),     \* the ids that stop a creative when they are marked
          Second,       \* EffectChecker::_second, in ticks of the clock
          None          \* no policy or creative

ASSUME RefreshAssumption ==
    /\ \A c \in Creatives : PolicyOf(c) \in Policies /\ IdsOf(c) \subseteq Ids
    /\ Second \in Nat \ {0}
    /\ None \notin Policies \cup Creatives

Kinds == {"data", "ctrl"}
Buffers == {0, 1}

VARIABLES
    kind,      \* which of the two caches this is
    runFlag,   \* *_run_flag
    listed,    \* Redis: the policies in dsp_policyids, with their keys
    offered,   \* Redis: the creatives in dsp_policy_mapids, with their keys
    marked,    \* Redis: the ids with a pause or a capped device
    up,        \* whether the Redis server can be reached
    pool,      \* pool[b]: how many of the connections of buffer b work
    seen,      \* seen[b]: how long ago b saw the present stamp for the first
               \* time, up to Second + 1; Unseen when it has not seen it yet
    cur,       \* _cur % 2
    pc,        \* where the updater is
    todo,      \* the policies, later the ids, still to be read
    policy,    \* the policy that is being read
    ahead,     \* its creatives still to be read
    creative,  \* the creative whose prices are to be read
    got,       \* got[b]: all_creative of AdData, each with its policy; in a
               \* load the creatives behind _creatives and _policies of AdCtrl
    bare,      \* those of this load that lack a price, deal, target or audience
    marks,     \* marks[b]: pause_* and full_* of AdCtrl
    there,     \* history: the creatives that could be found all through this load
    sure,      \* history: the ids marked all through this load; both are empty
               \* when a read of it was not made or not answered
    maybe      \* history: the ids marked at some time of this load

redis == <<listed, offered, marked, up>>
inHand == <<todo, policy, ahead, creative>>
history == <<there, sure, maybe>>
vars == <<kind, runFlag, redis, pool, seen, cur, pc, inHand, got, bare, marks, history>>

\* The buffer that is loaded, all connections broken or working.
next == 1 - cur
All(state) == [b \in Buffers |-> state]

Unseen == Second + 2

\* Init of the double buffer loads the buffer 0 first.  The connections were
\* just made.  AdCtrl pings all its connections before each load and makes
\* the broken ones anew: all one can say is that a read of it may fail.
Init ==
    /\ kind \in Kinds
    /\ runFlag = TRUE
    /\ listed \in SUBSET Policies /\ marked \in SUBSET Ids
    /\ offered \in SUBSET Creatives /\ Lasting \subseteq listed \cup offered
    /\ kind = "data" => marked = {}
    /\ up = TRUE
    /\ pool = All(IF kind = "data" THEN "sound" ELSE "partly")
    /\ seen = All(Unseen)
    /\ cur = 1 /\ pc = "begin"
    /\ todo = {} /\ policy = None /\ ahead = {} /\ creative = None
    /\ got = All({}) /\ bare = {} /\ marks = All({})
    /\ there = {} /\ sure = {} /\ maybe = {}

\* A command takes the next connection of the pool, in turn.  Nothing is
\* promised of a load in which one gets no answer.
NoPromise == there' = {} /\ sure' = {}
Answer == pool[next] # "broken" /\ UNCHANGED <<there, sure>>
NoAnswer == pool[next] # "sound" /\ NoPromise

\* The step of the updater at this place; the rest of Redis stays as it is.
At(place) == pc = place /\ UNCHANGED <<kind, redis>>

\* What a load at this moment would find.
OfPolicy(p) == {c \in Creatives : PolicyOf(c) = p}
Findable == {c \in offered : PolicyOf(c) \in listed}

\* What becomes of a policy or creative that was read.  AdCtrl needs only the
\* ids of the campaign, the policy and the creative, AdData reads on.
PolicyFound(p) == pc' = "mapids" /\ policy' = p

CreativeFound(c) ==
    /\ got' = [got EXCEPT ![next] = @ \cup {c}]
    /\ IF kind = "data" THEN pc' = "price" /\ creative' = c ELSE UNCHANGED <<pc, creative>>
------------------------------------------------------------------------------
(* Seeded faults: wrong variants of the definitions below, each of which    *)
(* must break a property.                                                   *)

\* A creative that is gone ends the loop instead of being passed over.
ReadCreativeOrStop(c) ==
    /\ At("creatives") /\ runFlag /\ c \in ahead
    /\ ahead' = IF c \in offered THEN ahead \ {c} ELSE {}
    /\ \/ /\ Answer /\ c \in offered
          /\ CreativeFound(c)
       \/ /\ Answer /\ c \notin offered
          /\ UNCHANGED <<got, pc, creative>>
       \/ /\ NoAnswer
          /\ UNCHANGED <<got, pc, creative>>
    /\ UNCHANGED <<runFlag, cur, pool, seen, todo, policy, bare, marks, maybe>>

\* ClearData forgets the pauses.
Unpaused == marks

\* Each look at the stamp counts as a change of it.
ChangedAlways(b) == TRUE

\* The connections that were lost are not made anew.
ReconnectNever == pool

------------------------------------------------------------------------------
(* AdData::Update and AdCtrl::Update *)

\* What ClearData leaves of the marks.
Unmarked == [marks EXCEPT ![next] = {}]

\* Release, Init and ConnectRedisCache: all connections or none.
Reconnect == [pool EXCEPT ![next] = IF up THEN "sound" ELSE "broken"]

Wake ==
    /\ At("sleep")
    /\ pc' = IF runFlag THEN "begin" ELSE "done"
    /\ UNCHANGED <<runFlag, cur, pool, seen, inHand, got, bare, marks, history>>

\* The loop over the policies that Redis has now.
Listed == pc' = "policies" /\ todo' = listed /\ there' = Findable /\ sure' = marked

\* ClearData, then smembers dsp_policyids.  AdData tries once more over new
\* connections and fails when there are none; AdCtrl goes on with no ids.
Begin ==
    /\ At("begin")
    /\ got' = [got EXCEPT ![next] = {}] /\ marks' = Unmarked
    /\ maybe' = marked
    /\ \/ /\ pool[next] # "broken"
          /\ Listed
          /\ UNCHANGED pool
       \/ /\ pool[next] # "sound" /\ kind = "data"
          /\ pool' = Reconnect
          /\ IF pool'[next] = "sound" THEN Listed
             ELSE pc' = "swap" /\ todo' = {} /\ NoPromise
       \/ /\ NoAnswer /\ kind = "ctrl"
          /\ pc' = "policies" /\ todo' = {}
          /\ UNCHANGED pool
    /\ UNCHANGED <<runFlag, cur, seen, policy, ahead, creative, bare>>

\* The loop takes a policy and gets dsp_policy_info; a policy that is gone, or
\* of which nothing is heard, is passed over.
ReadPolicy(p) ==
    /\ At("policies") /\ runFlag /\ p \in todo
    /\ todo' = todo \ {p}
    /\ \/ /\ Answer
          /\ IF p \in listed THEN PolicyFound(p) ELSE UNCHANGED <<pc, policy>>
       \/ /\ NoAnswer
          /\ UNCHANGED <<pc, policy>>
    /\ UNCHANGED <<runFlag, cur, pool, seen, ahead, creative, got, bare, marks, maybe>>

\* smembers dsp_policy_mapids, which goes with the policy.
ReadMapids ==
    /\ At("mapids")
    /\ pc' = "creatives"
    /\ \/ /\ Answer
          /\ ahead' = Findable \cap OfPolicy(policy)
       \/ /\ NoAnswer
          /\ UNCHANGED ahead
    /\ UNCHANGED <<runFlag, cur, pool, seen, todo, policy, creative, got, bare, marks, maybe>>

\* One turn of the loop over the creatives: get dsp_mapid.
ReadCreative(c) ==
    /\ At("creatives") /\ runFlag /\ c \in ahead
    /\ ahead' = ahead \ {c}
    /\ \/ /\ Answer /\ c \in offered
          /\ CreativeFound(c)
       \/ /\ Answer /\ c \notin offered
          /\ UNCHANGED <<got, pc, creative>>
       \/ /\ NoAnswer
          /\ UNCHANGED <<got, pc, creative>>
    /\ UNCHANGED <<runFlag, cur, pool, seen, todo, policy, bare, marks, maybe>>

\* A command whose result nobody looks at, about these creatives: without an
\* answer, or with an empty one since the key is gone, they go without.
ReadAside(about, isThere) ==
    \/ /\ Answer
       /\ bare' = IF isThere THEN bare ELSE bare \cup about
    \/ /\ NoAnswer
       /\ bare' = bare \cup about

\* GetCreativePrice: hgetall dsp_mapid_bid.
ReadPrice ==
    /\ At("price")
    /\ pc' = "creatives" /\ creative' = None
    /\ ReadAside({creative}, creative \in offered)
    /\ UNCHANGED <<runFlag, cur, pool, seen, todo, policy, ahead, got, marks, maybe>>

\* Both loops look at the flag before each turn, and end as if they were done.
CutShort ==
    /\ ~runFlag /\ NoPromise
    /\ \/ At("policies") /\ todo # {} /\ todo' = {} /\ UNCHANGED ahead
       \/ At("creatives") /\ ahead # {} /\ ahead' = {} /\ UNCHANGED todo
    /\ UNCHANGED <<runFlag, cur, pc, pool, seen, policy, creative, got, bare, marks, maybe>>

\* A policy without a creative is passed over.
CreativesDone ==
    /\ At("creatives") /\ ahead = {}
    /\ IF kind = "data" /\ got[next] \cap OfPolicy(policy) # {}
       THEN pc' = "deals" /\ UNCHANGED policy
       ELSE pc' = "policies" /\ policy' = None
    /\ UNCHANGED <<runFlag, cur, pool, seen, todo, ahead, creative, got, bare, marks, history>>

\* GetPolicyDealPrice, GetPolicyTarget, GetPolicyAudiences, in this order.
After == [deals |-> "target", target |-> "audiences", audiences |-> "policies"]

ReadRest(part) ==
    /\ At(part)
    /\ pc' = After[part]
    /\ policy' = IF pc' = "policies" THEN None ELSE policy
    /\ ReadAside(got[next] \cap OfPolicy(policy), policy \in listed)
    /\ UNCHANGED <<runFlag, cur, pool, seen, todo, ahead, creative, got, marks, maybe>>

\* The ids whose marks AdCtrl looks up.
Known == UNION {IdsOf(c) : c \in got[next]}

PoliciesDone ==
    /\ At("policies") /\ todo = {}
    /\ pc' = IF kind = "data" THEN "template" ELSE "marks"
    /\ todo' = IF kind = "data" THEN {} ELSE Known
    /\ UNCHANGED <<runFlag, cur, pool, seen, policy, ahead, creative, got, bare, marks, history>>

\* GetAdxTemplate fails the load; the other things a load reads may be missing.
GetAdxTemplate ==
    /\ At("template")
    /\ \/ /\ Answer
          /\ pc' = "check"
          /\ UNCHANGED got
       \/ /\ NoAnswer
          /\ pc' = "swap"
          /\ got' = [got EXCEPT ![next] = {}]
    /\ UNCHANGED <<runFlag, cur, pool, seen, inHand, bare, marks, maybe>>

\* GetFreFullDeviceid and GetPauseAd, for one id.
ReadMark(i) ==
    /\ At("marks") /\ i \in todo
    /\ todo' = todo \ {i}
    /\ \/ /\ Answer
          /\ marks' = [marks EXCEPT ![next] = @ \cup ({i} \cap marked)]
       \/ /\ NoAnswer
          /\ UNCHANGED marks
    /\ UNCHANGED <<runFlag, cur, pc, pool, seen, policy, ahead, creative, got, bare, maybe>>

\* _policies and the like serve this load only; nobody reads them from here on.
MarksDone ==
    /\ At("marks") /\ todo = {}
    /\ pc' = "check"
    /\ got' = [got EXCEPT ![next] = {}]
    /\ UNCHANGED <<runFlag, cur, pool, seen, inHand, bare, marks, history>>

\* Whether the stamp is another one than that which the buffer remembers.
Changed(b) == seen[b] = Unseen

\* A stamp that is too old, or none: ClearData.
Emptied ==
    /\ got' = [got EXCEPT ![next] = {}] /\ marks' = Unmarked
    /\ NoPromise

\* EffectChecker::Check; without an answer it remembers what it did before.
Check ==
    /\ At("check")
    /\ pc' = "swap"
    /\ \/ /\ pool[next] # "broken"
          /\ seen' = [seen EXCEPT ![next] = IF Changed(next) THEN 0 ELSE @]
          /\ IF seen'[next] <= Second THEN UNCHANGED <<got, marks, there, sure>> ELSE Emptied
       \/ /\ NoAnswer
          /\ UNCHANGED seen
          /\ Emptied
    /\ UNCHANGED <<runFlag, cur, pool, inHand, bare, maybe>>

\* Update has returned true, whatever it has found.  What the snapshot lacks
\* is remembered no longer than the load.
Swap ==
    /\ At("swap")
    /\ pc' = "sleep"
    /\ cur' = next
    /\ bare' = {} /\ there' = {} /\ sure' = {} /\ maybe' = {}
    /\ UNCHANGED <<runFlag, pool, seen, inHand, got, marks>>

Update ==
    \/ Wake \/ Begin \/ CutShort \/ PoliciesDone \/ GetAdxTemplate \/ MarksDone \/ Check \/ Swap
    \/ ReadMapids \/ ReadPrice \/ CreativesDone
    \/ \E p \in Policies : ReadPolicy(p)
    \/ \E c \in Creatives : ReadCreative(c)
    \/ \E part \in DOMAIN After : ReadRest(part)
    \/ \E i \in Ids : ReadMark(i)
------------------------------------------------------------------------------
(* The back end, Redis, the clock and the stop *)

updater == <<cur, pc, inHand, got, bare, marks>>

\* A policy appears or goes, its keys with it.
List(p) ==
    /\ p \notin Lasting
    /\ listed' = IF p \in listed THEN listed \ {p} ELSE listed \cup {p}
    /\ UNCHANGED <<kind, runFlag, offered, marked, up, pool, seen, updater, sure, maybe>>
    /\ there' = there \cap Findable'

\* A creative appears or goes, its keys with it; its policy may be another's.
Offer(c) ==
    /\ c \notin Lasting
    /\ offered' = IF c \in offered THEN offered \ {c} ELSE offered \cup {c}
    /\ UNCHANGED <<kind, runFlag, listed, marked, up, pool, seen, updater, sure, maybe>>
    /\ there' = there \cap Findable'

\* A pause or a frequency limit begins or ends.
Mark(i) ==
    /\ kind = "ctrl"
    /\ marked' = IF i \in marked THEN marked \ {i} ELSE marked \cup {i}
    /\ sure' = sure \cap marked'
    /\ maybe' = IF pc = "sleep" THEN maybe ELSE maybe \cup marked'
    /\ UNCHANGED <<kind, runFlag, listed, offered, up, pool, seen, updater, there>>

\* The stamp is renewed: a value that no buffer has seen.
WriteStamp ==
    /\ seen' = All(Unseen)
    /\ UNCHANGED <<kind, runFlag, redis, pool, updater, there, sure, maybe>>

\* A connection of the pool in use breaks (in the other it is noticed as late),
\* or Redis goes away with all of them, or comes back.
BreakOne ==
    /\ kind = "data" /\ next \in Weak /\ pool[next] = "sound"
    /\ pool' = [pool EXCEPT ![next] = "partly"]
    /\ UNCHANGED <<kind, runFlag, redis, seen, updater, there, sure, maybe>>

GoOrComeBack ==
    /\ kind = "data"
    /\ up' = ~up
    /\ pool' = IF up THEN All("broken") ELSE pool
    /\ UNCHANGED <<kind, runFlag, listed, offered, marked, seen, updater, there, sure, maybe>>

Tick ==
    /\ seen' = [b \in Buffers |-> IF seen[b] > Second THEN seen[b] ELSE seen[b] + 1]
    /\ UNCHANGED <<kind, runFlag, redis, pool, updater, there, sure, maybe>>

StopBid ==
    /\ runFlag
    /\ runFlag' = FALSE
    /\ UNCHANGED <<kind, redis, pool, seen, updater, there, sure, maybe>>

\* What happens to Redis after the stop is of no interest any more.
Environment ==
  /\ runFlag
  /\ \/ \E p \in Policies : List(p)
     \/ \E c \in Creatives : Offer(c)
     \/ \E i \in Ids : Mark(i)
     \/ BreakOne \/ WriteStamp \/ GoOrComeBack \/ Tick \/ StopBid

Next == Update \/ Environment

Spec == Init /\ [][Next]_vars

\* The thread of the cache goes on, and so does time.
FairSpec == Spec /\ WF_vars(Update) /\ WF_vars(Tick)
------------------------------------------------------------------------------
\* The variables keep their shape; only AdData keeps creatives between loads,
\* and only AdCtrl has marks.
TypeOK ==
    /\ kind \in Kinds /\ runFlag \in BOOLEAN
    /\ listed \subseteq Policies /\ offered \subseteq Creatives /\ marked \subseteq Ids
    /\ up \in BOOLEAN
    /\ pool \in [Buffers -> {"sound", "partly", "broken"}]
    /\ seen \in [Buffers -> 0..Unseen]
    /\ cur \in Buffers
    /\ pc \in {"begin", "policies", "mapids", "creatives", "price", "deals", "target", "audiences",
              "template", "marks", "check", "swap", "sleep", "done"}
    /\ todo \subseteq (IF pc = "marks" THEN Ids ELSE Policies)
    /\ policy \in Policies \cup {None}
    /\ pc \in {"mapids", "creatives", "price"} \cup DOMAIN After => policy \in Policies
    /\ ahead \subseteq OfPolicy(policy)
    /\ creative \in Creatives \cup {None} /\ (pc = "price" => creative \in got[next] \cap OfPolicy(policy))
    /\ got \in [Buffers -> SUBSET Creatives] /\ bare \subseteq Creatives
    /\ marks \in [Buffers -> SUBSET Ids]
    /\ kind = "data" => marked = {} /\ marks = All({})
    /\ kind = "ctrl" => got[cur] = {} /\ bare = {}
    /\ there \subseteq Findable /\ sure \subseteq marked

\* A creative that could be found during the whole load, its policy listed all
\* the while, is in the snapshot, with its prices and with the deals, target
\* and audiences of its policy: however the lists changed meanwhile, and unless
\* a command got no answer or the engine stops.  A policy whose only creative
\* is exchanged for another during the load may be missing till the next one.
SoundLoadIsWhole ==
    pc = "swap" /\ kind = "data" => there \subseteq got[next] \ bare

\* When all commands were answered and the stamp was good, the pauses and the
\* limits that held during the whole load are in the snapshot, of creatives
\* that could be found during the whole load; no snapshot has one that did not
\* hold at any time of its load.
MarksFollowRedis ==
    pc = "swap" =>
        /\ sure \cap UNION {IdsOf(c) : c \in there} \subseteq marks[next]
        /\ marks[next] \subseteq maybe

\* When the back end renews the stamp no more, the engine serves no advertisement
\* any more after some time, from neither of the buffers.
DeadBackEndEndsBids ==
    (<>[]runFlag /\ <>[][\A b \in Buffers : seen'[b] = Unseen => seen[b] = Unseen]_seen)
        => <>[](kind = "data" => got[cur] = {})

\* After any outage of Redis, and as long as the back end renews the stamp, a
\* creative that stays, with its policy, is served again.  A single broken
\* connection of the pool is another matter: whether the command that would
\* notice it ever meets it depends on how many commands a load makes.
Recovers ==
    \A c \in Creatives :
        (/\ <>[](up /\ runFlag /\ c \in Findable /\ \A b \in Buffers : pool[b] # "partly")
         /\ []<>(seen = All(Unseen)))
            => []<>(c \in got[cur])
==============================================================================
