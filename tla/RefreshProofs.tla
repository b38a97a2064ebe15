---------------------------- MODULE RefreshProofs ----------------------------
(***************************************************************************)
(* Proofs about Refresh, for any policies, ids and limit of the stamp.     *)
(*                                                                         *)
(* A load is whole because at every moment what could be found from its    *)
(* start has been read, is ahead in the policy that is being read, or its  *)
(* policy is still to be read; what lacks some of its data has gone        *)
(* meanwhile.  A mark is in the snapshot because its id is known from a    *)
(* creative and is still to be looked up or has been.                      *)
(***************************************************************************)
EXTENDS Refresh, TLAPS

\* Where the updater reads a policy, and where it loads at all.
Reading == {"policies", "mapids", "creatives", "price"} \cup DOMAIN After
Loading == pc \in Reading \cup {"template", "marks", "check", "swap"}

\* Only AdCtrl looks up marks, and keeps its creatives only until then.
OnlyForTheLoad ==
    /\ kind = "ctrl" /\ pc \notin {"policies", "mapids", "creatives", "marks"} => got[next] = {}
    /\ pc = "marks" => kind = "ctrl"
    /\ pc \in {"price", "template"} \cup DOMAIN After => kind = "data"
    /\ ~Loading => bare = {}
    /\ pc \notin {"creatives", "price"} => ahead = {}

\* A creative that could be found all the while: is it still ahead?
Ahead(c) ==
    \/ PolicyOf(c) \in todo
    \/ pc = "mapids" /\ PolicyOf(c) = policy
    \/ c \in ahead

CreativesInHand ==
    /\ pc \in Reading => \A c \in there : c \in got[next] \/ Ahead(c)
    /\ kind = "data" /\ pc \in {"template", "check"} => there \subseteq got[next]

\* What lacks some of its data was gone when that was read.
BareHasGone == there \cap bare = {}

\* The marks of these creatives are read or still to be read.
Needed == sure \cap UNION {IdsOf(c) : c \in there}

MarksInHand ==
    /\ pc = "marks" => Needed \subseteq marks[next] \cup todo
    /\ pc \in {"template", "check"} => Needed \subseteq marks[next]

\* What was marked during the load is remembered, and only that is read.
MarksRemembered == Loading => marked \subseteq maybe /\ marks[next] \subseteq maybe

Inv == /\ TypeOK /\ OnlyForTheLoad /\ CreativesInHand /\ BareHasGone /\ MarksInHand /\ MarksRemembered
       /\ SoundLoadIsWhole /\ MarksFollowRedis

LEMMA NextBuffer == ASSUME TypeOK PROVE next \in Buffers /\ next # cur /\ 1 - next = cur
BY DEF TypeOK, next, Buffers

\* The places of the loop, written out for the provers.
LEMMA Places ==
    /\ DOMAIN After = {"deals", "target", "audiences"}
    /\ \A part \in DOMAIN After : After[part] \in {"target", "audiences", "policies"}
    /\ OfPolicy(None) = {}
BY RefreshAssumption DEF After, OfPolicy

LEMMA InitInv == Init => Inv
<1>. SUFFICES ASSUME Init PROVE Inv
  OBVIOUS
<1>1. TypeOK
  <2>1. pool \in [Buffers -> {"sound", "partly", "broken"}]
    BY DEF Init, All
  <2>2. seen \in [Buffers -> 0..Unseen]
    BY RefreshAssumption DEF Init, All, Unseen
  <2>3. cur \in Buffers /\ got \in [Buffers -> SUBSET Creatives] /\ marks \in [Buffers -> SUBSET Ids] /\ got[cur] = {}
    BY DEF Init, All, Buffers
  <2>4. runFlag \in BOOLEAN /\ up \in BOOLEAN
    BY DEF Init
  <2>. QED BY <2>1, <2>2, <2>3, <2>4, Places DEF Init, TypeOK
<1>2. got[next] = {} /\ marks[next] = {}
  BY <1>1, NextBuffer DEF Init, All
<1>3. OnlyForTheLoad /\ CreativesInHand /\ BareHasGone /\ MarksInHand /\ MarksRemembered
  BY <1>2, Places DEF Init, OnlyForTheLoad, CreativesInHand, BareHasGone, MarksInHand, MarksRemembered,
     Loading, Reading
<1>4. SoundLoadIsWhole /\ MarksFollowRedis
  BY DEF Init, SoundLoadIsWhole, MarksFollowRedis
<1>. QED BY <1>1, <1>3, <1>4 DEF Inv

LEMMA StepType == ASSUME Inv, [Next]_vars PROVE TypeOK' /\ OnlyForTheLoad'
<1>. USE DEF Inv, TypeOK, OnlyForTheLoad, Loading, Reading, Findable
<1>0. /\ next \in Buffers /\ next # cur /\ 1 - next = cur /\ Buffers = {0, 1}
      /\ DOMAIN After = {"deals", "target", "audiences"} /\ OfPolicy(None) = {}
  BY NextBuffer, Places DEF Buffers
<1>. USE <1>0
<1>1. CASE Wake
  BY <1>1 DEF Wake, At, redis, inHand, history, next
<1>2. CASE Begin
  <2>1. next' = next /\ cur' = cur /\ UNCHANGED <<kind, runFlag, listed, offered, marked, up, seen, policy, ahead, creative, bare>>
    BY <1>2 DEF Begin, At, redis, next
  <2>2. got' = [got EXCEPT ![next] = {}] /\ marks' = [marks EXCEPT ![next] = {}] /\ pc = "begin"
    BY <1>2 DEF Begin, Unmarked, At
  <2>3. (there' = Findable /\ sure' = marked) \/ (there' = {} /\ sure' = {})
    BY <1>2 DEF Begin, Listed, NoAnswer, NoPromise
  <2>4. pc' \in {"policies", "swap"} /\ todo' \subseteq Policies
    BY <1>2 DEF Begin, Listed
  <2>5. pool' \in [Buffers -> {"sound", "partly", "broken"}]
    BY <1>2 DEF Begin, Reconnect
  <2>6. kind = "data" => marks' = All({})
    BY <2>2 DEF All
  <2>7. got' \in [Buffers -> SUBSET Creatives] /\ marks' \in [Buffers -> SUBSET Ids]
    BY <2>2
  <2>8. got'[next] = {} /\ got'[cur] = got[cur]
    BY <2>2
  <2>. QED BY <2>1, <2>2, <2>3, <2>4, <2>5, <2>6, <2>7, <2>8
<1>3. CASE \E p \in Policies : ReadPolicy(p)
  <2>1. PICK p \in Policies : ReadPolicy(p)
    BY <1>3
  <2>2. UNCHANGED <<kind, runFlag, redis, cur, next, pool, seen, ahead, creative, got, bare, marks>>
    BY <2>1 DEF ReadPolicy, At, next
  <2>3. /\ pc = "policies" /\ todo' \subseteq todo
        /\ (pc' = "mapids" /\ policy' = p) \/ (pc' = pc /\ policy' = policy)
        /\ UNCHANGED <<there, sure>> \/ (there' = {} /\ sure' = {})
    BY <2>1 DEF ReadPolicy, At, PolicyFound, Answer, NoAnswer, NoPromise
  <2>. QED BY <2>2, <2>3 DEF redis, OfPolicy
<1>4. CASE ReadMapids
  <2>1. UNCHANGED <<kind, runFlag, redis, cur, next, pool, seen, todo, policy, creative, got, bare, marks>>
    BY <1>4 DEF ReadMapids, At, next
  <2>2. /\ pc = "mapids" /\ pc' = "creatives" /\ ahead' \subseteq OfPolicy(policy)
        /\ UNCHANGED <<there, sure>> \/ (there' = {} /\ sure' = {})
    BY <1>4 DEF ReadMapids, At, Answer, NoAnswer, NoPromise
  <2>. QED BY <2>1, <2>2 DEF redis, OfPolicy
<1>5. CASE \E c \in Creatives : ReadCreative(c)
  <2>1. PICK c \in Creatives : ReadCreative(c)
    BY <1>5
  <2>2. UNCHANGED <<kind, runFlag, redis, cur, next, pool, seen, todo, policy, bare, marks>>
    BY <2>1 DEF ReadCreative, At, next
  <2>3. /\ pc = "creatives" /\ c \in ahead /\ ahead' = ahead \ {c}
        /\ UNCHANGED <<there, sure>> \/ (there' = {} /\ sure' = {})
    BY <2>1 DEF ReadCreative, At, Answer, NoAnswer, NoPromise
  <2>4. \/ UNCHANGED <<got, pc, creative>>
        \/ /\ got' = [got EXCEPT ![next] = @ \cup {c}]
           /\ IF kind = "data" THEN pc' = "price" /\ creative' = c ELSE UNCHANGED <<pc, creative>>
    BY <2>1 DEF ReadCreative, CreativeFound
  <2>5. got' \in [Buffers -> SUBSET Creatives] /\ got'[cur] = got[cur] /\ (got' = got \/ c \in got'[next])
    BY <2>4
  <2>6. pc' = "price" => kind = "data" /\ creative' \in got'[next] \cap OfPolicy(policy)
    BY <2>3, <2>4, <2>5
  <2>7. pc' \in {"creatives", "price"} /\ creative' \in Creatives \cup {None}
    BY <2>3, <2>4
  <2>. QED BY <2>2, <2>3, <2>5, <2>6, <2>7 DEF redis, OfPolicy
<1>6. CASE ReadPrice
  <2>1. UNCHANGED <<kind, runFlag, redis, cur, next, pool, seen, todo, policy, ahead, got, marks>>
    BY <1>6 DEF ReadPrice, At, next
  <2>2. /\ pc = "price" /\ pc' = "creatives" /\ creative' = None /\ bare' \subseteq bare \cup {creative}
        /\ UNCHANGED <<there, sure>> \/ (there' = {} /\ sure' = {})
    BY <1>6 DEF ReadPrice, At, ReadAside, Answer, NoAnswer, NoPromise
  <2>. QED BY <2>1, <2>2 DEF redis, OfPolicy
<1>7. CASE CutShort
  BY <1>7 DEF CutShort, At, redis, next, NoPromise
<1>8. CASE CreativesDone
  <2>1. /\ UNCHANGED <<kind, runFlag, redis, cur, next, pool, seen, todo, ahead, creative, got, bare, marks, history>>
        /\ pc = "creatives" /\ ahead = {}
        /\ (kind = "data" /\ pc' = "deals" /\ policy' = policy) \/ (pc' = "policies" /\ policy' = None)
    BY <1>8 DEF CreativesDone, At, next
  <2>. QED BY <2>1 DEF redis, history
<1>9. CASE \E part \in DOMAIN After : ReadRest(part)
  <2>1. PICK part \in DOMAIN After : ReadRest(part)
    BY <1>9
  <2>2. UNCHANGED <<kind, runFlag, redis, cur, next, pool, seen, todo, ahead, creative, got, marks>>
    BY <2>1 DEF ReadRest, At, next
  <2>3. /\ pc = part /\ pc' \in {"target", "audiences", "policies"}
        /\ policy' = (IF pc' = "policies" THEN None ELSE policy)
        /\ UNCHANGED <<there, sure>> \/ (there' = {} /\ sure' = {})
    BY <2>1, Places DEF ReadRest, At, ReadAside, Answer, NoAnswer, NoPromise
  <2>4. bare' \subseteq bare \cup got[next]
    BY <2>1 DEF ReadRest, ReadAside
  <2>5. kind = "data" /\ bare' \subseteq Creatives
    BY <2>3, <2>4
  <2>. QED BY <2>2, <2>3, <2>5 DEF redis, OfPolicy
<1>10. CASE PoliciesDone
  <2>1. UNCHANGED <<kind, runFlag, redis, cur, next, pool, seen, policy, ahead, creative, got, bare, marks, history>>
    BY <1>10 DEF PoliciesDone, At, next
  <2>2. pc = "policies" /\ ((kind = "data" /\ pc' = "template" /\ todo' = {}) \/ (kind = "ctrl" /\ pc' = "marks" /\ todo' = Known))
    BY <1>10 DEF PoliciesDone, At, Kinds
  <2>3. Known \subseteq Ids
    BY RefreshAssumption DEF Known
  <2>. QED BY <2>1, <2>2, <2>3 DEF redis, history
<1>11. CASE GetAdxTemplate
  <2>1. UNCHANGED <<kind, runFlag, redis, seen, cur, next, pool, todo, policy, ahead, creative, bare, marks>>
    BY <1>11 DEF GetAdxTemplate, At, inHand, next
  <2>2. /\ pc = "template" /\ pc' \in {"check", "swap"}
        /\ got' = got \/ got' = [got EXCEPT ![next] = {}]
        /\ UNCHANGED <<there, sure>> \/ (there' = {} /\ sure' = {})
    BY <1>11 DEF GetAdxTemplate, At, Answer, NoAnswer, NoPromise
  <2>3. got' \in [Buffers -> SUBSET Creatives] /\ got'[cur] = got[cur] /\ (got[next] = {} => got'[next] = {})
    BY <2>2
  <2>. QED BY <2>1, <2>2, <2>3 DEF redis
<1>12. CASE \E i \in Ids : ReadMark(i)
  <2>1. PICK i \in Ids : ReadMark(i)
    BY <1>12
  <2>2. UNCHANGED <<kind, runFlag, redis, cur, next, pc, pool, seen, policy, ahead, creative, got, bare>>
    BY <2>1 DEF ReadMark, At, next
  <2>3. pc = "marks" /\ todo' \subseteq todo /\ (UNCHANGED <<there, sure>> \/ (there' = {} /\ sure' = {}))
    BY <2>1 DEF ReadMark, At, Answer, NoAnswer, NoPromise
  <2>4. marks' = marks \/ marks' = [marks EXCEPT ![next] = @ \cup ({i} \cap marked)]
    BY <2>1 DEF ReadMark
  <2>5. marks' \in [Buffers -> SUBSET Ids]
    BY <2>4
  <2>. QED BY <2>2, <2>3, <2>5 DEF redis
<1>13. CASE MarksDone
  <2>1. UNCHANGED <<kind, runFlag, redis, cur, next, pool, seen, inHand, bare, marks, history>>
    BY <1>13 DEF MarksDone, At, next
  <2>2. pc = "marks" /\ todo = {} /\ pc' = "check" /\ got' = [got EXCEPT ![next] = {}]
    BY <1>13 DEF MarksDone, At
  <2>3. got' \in [Buffers -> SUBSET Creatives] /\ got'[cur] = got[cur] /\ got'[next] = {}
    BY <2>2
  <2>. QED BY <2>1, <2>2, <2>3 DEF redis, inHand, history
<1>14. CASE Check
  <2>1. UNCHANGED <<kind, runFlag, redis, cur, next, pool, inHand, bare>> /\ pc = "check" /\ pc' = "swap"
    BY <1>14 DEF Check, At, next
  <2>2. seen' = seen \/ seen' = [seen EXCEPT ![next] = IF Changed(next) THEN 0 ELSE @]
    BY <1>14 DEF Check
  <2>3. seen' \in [Buffers -> 0..Unseen]
    BY <2>2, RefreshAssumption DEF Unseen
  <2>4. \/ UNCHANGED <<got, marks, there, sure>>
        \/ /\ got' = [got EXCEPT ![next] = {}] /\ marks' = [marks EXCEPT ![next] = {}]
           /\ there' = {} /\ sure' = {}
    BY <1>14 DEF Check, Emptied, Unmarked, NoPromise
  <2>5. /\ got' \in [Buffers -> SUBSET Creatives] /\ got'[cur] = got[cur]
        /\ got[next] = {} => got'[next] = {}
        /\ marks' \in [Buffers -> SUBSET Ids]
        /\ kind = "data" => marks' = All({})
    BY <2>4 DEF All
  <2>. QED BY <2>1, <2>3, <2>4, <2>5 DEF redis, inHand
<1>15. CASE Swap
  BY <1>15 DEF Swap, At, redis, inHand, next, Kinds
<1>16. CASE \E p \in Policies : List(p)
  BY <1>16 DEF List, updater, inHand, next
<1>17. CASE \E c \in Creatives : Offer(c)
  BY <1>17 DEF Offer, updater, inHand, next
<1>18. CASE \E i \in Ids : Mark(i)
  BY <1>18 DEF Mark, updater, inHand, next
<1>19. CASE WriteStamp
  BY <1>19, RefreshAssumption DEF WriteStamp, updater, inHand, redis, next, All, Unseen
<1>20. CASE BreakOne
  BY <1>20 DEF BreakOne, updater, inHand, redis, next
<1>21. CASE GoOrComeBack
  BY <1>21 DEF GoOrComeBack, updater, inHand, next, All
<1>22. CASE Tick
  BY <1>22, RefreshAssumption DEF Tick, updater, inHand, redis, next, Unseen
<1>23. CASE StopBid
  BY <1>23 DEF StopBid, updater, inHand, redis, next
<1>24. CASE UNCHANGED vars
  BY <1>24 DEF vars, redis, inHand, history, next
<1>. QED
  BY <1>1, <1>2, <1>3, <1>4, <1>5, <1>6, <1>7, <1>8, <1>9, <1>10, <1>11, <1>12, <1>13, <1>14, <1>15,
     <1>16, <1>17, <1>18, <1>19, <1>20, <1>21, <1>22, <1>23, <1>24 DEF Next, Update, Environment

\* Only the steps of a load matter to what it has in hand: the back end can
\* only take ids and creatives away from those that were there all the while.
LEMMA StepInv ==
    ASSUME Inv, [Next]_vars
    PROVE CreativesInHand' /\ BareHasGone' /\ MarksInHand' /\ MarksRemembered' /\ SoundLoadIsWhole' /\ MarksFollowRedis'
<1>. USE DEF Inv, CreativesInHand, BareHasGone, MarksInHand, MarksRemembered, SoundLoadIsWhole, MarksFollowRedis,
             Needed, Loading, Reading, Ahead
<1>0. /\ next \in Buffers /\ next # cur /\ 1 - next = cur /\ Buffers = {0, 1}
      /\ DOMAIN After = {"deals", "target", "audiences"} /\ TypeOK
      /\ \A c \in there : c \in Creatives /\ c \in offered /\ PolicyOf(c) \in listed
  BY NextBuffer, Places DEF Buffers, TypeOK, Findable
<1>. USE <1>0
<1>1. CASE Wake
  BY <1>1 DEF Wake, At, redis, inHand, history, next
<1>2. CASE Begin
  <2>1. next' = next /\ kind' = kind /\ marked' = marked /\ bare' = bare /\ pc = "begin" /\ pc' \in {"policies", "swap"}
    BY <1>2 DEF Begin, Listed, At, redis, next
  <2>2. maybe' = marked /\ marks'[next] = {}
    BY <1>2 DEF Begin, Unmarked, TypeOK
  <2>3. \/ pc' = "policies" /\ todo' = listed /\ there' = Findable /\ sure' = marked
        \/ there' = {} /\ sure' = {}
    BY <1>2 DEF Begin, Listed, NoAnswer, NoPromise
  <2>4. bare = {}
    BY <2>1 DEF OnlyForTheLoad
  <2>. QED BY <2>1, <2>2, <2>3, <2>4 DEF Findable
<1>3. CASE \E p \in Policies : ReadPolicy(p)
  <2>1. PICK p \in Policies : ReadPolicy(p)
    BY <1>3
  <2>2. /\ UNCHANGED <<kind, marked, next, got, bare, marks, maybe, ahead>> /\ pc = "policies" /\ todo' = todo \ {p}
        /\ (pc' = "mapids" /\ policy' = p) \/ (pc' = "policies" /\ (p \notin listed \/ there' = {}))
        /\ UNCHANGED <<there, sure>> \/ (there' = {} /\ sure' = {})
    BY <2>1 DEF ReadPolicy, At, redis, next, PolicyFound, Answer, NoAnswer, NoPromise
  <2>. QED BY <2>2
<1>4. CASE ReadMapids
  <2>1. /\ UNCHANGED <<kind, marked, next, got, bare, marks, maybe, todo, policy>> /\ pc = "mapids" /\ pc' = "creatives"
        /\ (UNCHANGED <<there, sure>> /\ ahead' = Findable \cap OfPolicy(policy)) \/ (there' = {} /\ sure' = {})
    BY <1>4 DEF ReadMapids, At, redis, next, Answer, NoAnswer, NoPromise
  <2>2. \A c \in there : PolicyOf(c) = policy => c \in Findable \cap OfPolicy(policy)
    BY DEF TypeOK, OfPolicy
  <2>3. \A c \in there : c \in got[next] \/ PolicyOf(c) \in todo \/ PolicyOf(c) = policy
    BY <2>1 DEF OnlyForTheLoad
  <2>. QED BY <2>1, <2>2, <2>3
<1>5. CASE \E c \in Creatives : ReadCreative(c)
  <2>1. PICK c \in Creatives : ReadCreative(c)
    BY <1>5
  <2>2. /\ UNCHANGED <<kind, marked, next, bare, marks, maybe, todo, policy>> /\ pc = "creatives" /\ ahead' = ahead \ {c}
        /\ UNCHANGED <<there, sure>> \/ (there' = {} /\ sure' = {})
    BY <2>1 DEF ReadCreative, At, redis, next, Answer, NoAnswer, NoPromise
  <2>3. pc' \in {"creatives", "price"}
    BY <2>1 DEF ReadCreative, CreativeFound, At
  <2>4. there' = {} \/ c \notin offered \/ got'[next] = got[next] \cup {c}
    BY <2>1 DEF ReadCreative, CreativeFound, NoAnswer, NoPromise, TypeOK
  <2>5. got[next] \subseteq got'[next]
    BY <2>1 DEF ReadCreative, CreativeFound, TypeOK
  <2>. QED BY <2>2, <2>3, <2>4, <2>5
<1>6. CASE ReadPrice
  <2>1. /\ UNCHANGED <<kind, marked, next, got, marks, maybe, todo, policy, ahead>> /\ pc = "price" /\ pc' = "creatives"
        /\ \/ UNCHANGED <<there, sure>> /\ (bare' = bare \/ (creative \notin offered /\ bare' = bare \cup {creative}))
           \/ there' = {} /\ sure' = {}
    BY <1>6 DEF ReadPrice, At, redis, next, ReadAside, Answer, NoAnswer, NoPromise
  <2>. QED BY <2>1
<1>7. CASE CutShort
  BY <1>7 DEF CutShort, At, redis, next, NoPromise
<1>8. CASE CreativesDone
  <2>1. /\ UNCHANGED <<kind, marked, next, got, bare, marks, maybe, todo, ahead, there, sure>>
        /\ pc = "creatives" /\ ahead = {} /\ pc' \in {"deals", "policies"}
    BY <1>8 DEF CreativesDone, At, redis, history, next
  <2>. QED BY <2>1
<1>9. CASE \E part \in DOMAIN After : ReadRest(part)
  <2>1. PICK part \in DOMAIN After : ReadRest(part)
    BY <1>9
  <2>2. UNCHANGED <<kind, marked, next, got, marks, maybe, todo, ahead>>
    BY <2>1 DEF ReadRest, At, redis, next
  <2>3. pc = part /\ pc' \in {"target", "audiences", "policies"}
    BY <2>1, Places DEF ReadRest, At
  <2>4. \/ UNCHANGED <<there, sure>> /\ (bare' = bare \/ (policy \notin listed /\ bare' = bare \cup (got[next] \cap OfPolicy(policy))))
        \/ there' = {} /\ sure' = {}
    BY <2>1 DEF ReadRest, ReadAside, Answer, NoAnswer, NoPromise
  <2>5. \A c \in there : policy \notin listed => c \notin OfPolicy(policy)
    BY DEF OfPolicy
  <2>. QED BY <2>2, <2>3, <2>4, <2>5
<1>10. CASE PoliciesDone
  <2>1. /\ UNCHANGED <<kind, marked, next, got, bare, marks, maybe, ahead, there, sure>> /\ pc = "policies" /\ todo = {}
        /\ (kind = "data" /\ pc' = "template") \/ (kind = "ctrl" /\ pc' = "marks" /\ todo' = Known)
    BY <1>10 DEF PoliciesDone, At, redis, history, next, Kinds, TypeOK
  <2>2. there \subseteq got[next]
    BY <2>1 DEF OnlyForTheLoad
  <2>3. Needed \subseteq Known
    BY <2>2 DEF Known
  <2>4. kind = "data" => Needed = {}
    BY DEF TypeOK
  <2>. QED BY <2>1, <2>2, <2>3, <2>4
<1>11. CASE GetAdxTemplate
  <2>1. UNCHANGED <<kind, marked, next, bare, marks, maybe>>
    BY <1>11 DEF GetAdxTemplate, At, redis, next
  <2>2. /\ pc = "template"
        /\ \/ pc' = "check" /\ got' = got /\ UNCHANGED <<there, sure>>
           \/ pc' = "swap" /\ there' = {} /\ sure' = {}
    BY <1>11 DEF GetAdxTemplate, At, Answer, NoAnswer, NoPromise
  <2>. QED BY <2>1, <2>2
<1>12. CASE \E i \in Ids : ReadMark(i)
  <2>1. PICK i \in Ids : ReadMark(i)
    BY <1>12
  <2>2. UNCHANGED <<kind, marked, next, pc, got, bare, maybe>> /\ pc = "marks" /\ todo' = todo \ {i}
    BY <2>1 DEF ReadMark, At, redis, next
  <2>3. \/ UNCHANGED <<there, sure>> /\ marks' = [marks EXCEPT ![next] = @ \cup ({i} \cap marked)]
        \/ there' = {} /\ sure' = {} /\ marks' = marks
    BY <2>1 DEF ReadMark, Answer, NoAnswer, NoPromise
  <2>4. (there' = {} /\ sure' = {}) \/ (UNCHANGED <<there, sure>> /\ marks'[next] = marks[next] \cup ({i} \cap marked))
    BY <2>3 DEF TypeOK
  <2>5. marks'[next] \subseteq marks[next] \cup marked
    BY <2>3 DEF TypeOK
  <2>6. sure \subseteq marked
    BY DEF TypeOK
  <2>. QED BY <2>2, <2>4, <2>5, <2>6
<1>13. CASE MarksDone
  <2>1. UNCHANGED <<kind, marked, next, bare, marks, maybe, there, sure>> /\ pc = "marks" /\ todo = {} /\ pc' = "check"
    BY <1>13 DEF MarksDone, At, redis, history, next
  <2>. QED BY <2>1 DEF OnlyForTheLoad
<1>14. CASE Check
  <2>1. UNCHANGED <<kind, marked, next, bare, maybe>> /\ pc = "check" /\ pc' = "swap"
    BY <1>14 DEF Check, At, redis, next
  <2>2. \/ UNCHANGED <<got, marks, there, sure>>
        \/ marks'[next] = {} /\ there' = {} /\ sure' = {}
    BY <1>14 DEF Check, Emptied, Unmarked, NoPromise, TypeOK
  <2>. QED BY <2>1, <2>2
<1>15. CASE Swap
  BY <1>15 DEF Swap, At, redis
<1>16. CASE \E p \in Policies : List(p)
  BY <1>16 DEF List, updater, inHand, next
<1>17. CASE \E c \in Creatives : Offer(c)
  BY <1>17 DEF Offer, updater, inHand, next
<1>18. CASE \E i \in Ids : Mark(i)
  BY <1>18 DEF Mark, updater, inHand, next
<1>19. CASE WriteStamp
  BY <1>19 DEF WriteStamp, updater, inHand, redis, next
<1>20. CASE BreakOne
  BY <1>20 DEF BreakOne, updater, inHand, redis, next
<1>21. CASE GoOrComeBack
  BY <1>21 DEF GoOrComeBack, updater, inHand, next
<1>22. CASE Tick
  BY <1>22 DEF Tick, updater, inHand, redis, next
<1>23. CASE StopBid
  BY <1>23 DEF StopBid, updater, inHand, redis, next
<1>24. CASE UNCHANGED vars
  BY <1>24 DEF vars, redis, inHand, history, next
<1>. QED
  BY <1>1, <1>2, <1>3, <1>4, <1>5, <1>6, <1>7, <1>8, <1>9, <1>10, <1>11, <1>12, <1>13, <1>14, <1>15,
     <1>16, <1>17, <1>18, <1>19, <1>20, <1>21, <1>22, <1>23, <1>24 DEF Next, Update, Environment

LEMMA Invariance == Spec => []Inv
<1>1. ASSUME Inv, [Next]_vars PROVE Inv'
  BY <1>1, StepType, StepInv DEF Inv
<1>. QED BY <1>1, InitInv, PTL DEF Spec

\* Whatever Redis does, the variables keep their shape; AdData keeps creatives
\* between loads and AdCtrl does not.
THEOREM TypeCorrect == Spec => []TypeOK
BY Invariance, PTL DEF Inv

\* AdData swaps in less than what stays there only when a command got no
\* answer, the engine stops, or the stamp is too old; and it serves nothing
\* that stays there without its prices, deals, target or audiences.
THEOREM LoadsAreWhole == Spec => []SoundLoadIsWhole
BY Invariance, PTL DEF Inv

\* AdCtrl misses no pause and no limit that lasts, and invents none.
THEOREM MarksAreFollowed == Spec => []MarksFollowRedis
BY Invariance, PTL DEF Inv
==============================================================================
