------------------------------ MODULE RedisProofs ------------------------------
(***************************************************************************)
(* Proofs about the client of the Redis cluster and about one of its       *)
(* users, the counters of won bids.                                        *)
(*                                                                         *)
(* ClusterClient, for any cluster, layout and number of events: as long as *)
(* nothing breaks and no master is without slots, all servers are up and   *)
(* all connections work, whatever moves: nothing is left that would crash  *)
(* a user or keep it waiting.  A call takes three steps at most, and one   *)
(* reconnect finds every slot once each master has its slots in one piece. *)
(*                                                                         *)
(* RecordCount, for any workers, policies, prices and days: each counter   *)
(* is the number, or the sum of the prices, of exactly those bids that it  *)
(* should stand for.  Every step of the thread brings each record nearer   *)
(* to its turn and, after the stop, the thread nearer to its end.          *)
(***************************************************************************)
EXTENDS ClusterClient, RecordCount, FiniteSetTheorems, SequenceTheorems, WellFoundedInduction, TLAPS

\* What a client may count on while there was no trouble.
Sound ==
    /\ up = Servers /\ Empty = {} /\ ready
    /\ \A i \in DOMAIN nodes : conns[i] = "sound"
    /\ pc # "crashed"

SoundInv == ~trouble => Sound

\* A client reconnects only after an answer, so it has its lists.
Connected == pc = "reconnect" => ready

\* A list of nodes as the client reads it from the cluster.
LEMMA FreshNodes ==
    ASSUME owner \in [Slots -> Servers], Owners \subseteq masters, masters \subseteq Servers,
           NEW order \in Orders
    PROVE  /\ 1 \in DOMAIN NodesIn(order)
           /\ \A i \in DOMAIN NodesIn(order) :
                 /\ NodesIn(order)[i].server \in masters
                 /\ \A j \in DOMAIN NodesIn(order) :
                       j # i => NodesIn(order)[i].slots \cap NodesIn(order)[j].slots = {}
<1>1. masters # {} /\ IsFiniteSet(masters)
  <2>1. 0 \in Slots
    BY ClusterAssumption DEF Slots
  <2>2. owner[0] \in masters
    BY <2>1 DEF Owners
  <2>. QED BY <2>2, FS_Subset, ClusterAssumption
<1>2. Cardinality(masters) \in Nat /\ Cardinality(masters) # 0
  BY <1>1, FS_CardinalityType, FS_EmptySet
<1>3. order \in [1..Cardinality(masters) -> masters] /\ DOMAIN order = 1..Cardinality(masters)
  BY DEF Orders
<1>4. \A i, j \in DOMAIN order : j # i => order[i] # order[j]
  BY DEF Orders
<1>5. \A m, n : m # n => FirstRange(m) \cap FirstRange(n) = {}
  BY DEF FirstRange, SlotsOf
<1>6. 1 \in DOMAIN order
  BY <1>2, <1>3
<1>. QED BY <1>3, <1>4, <1>5, <1>6 DEF NodesIn

LEMMA InitInv == Init => TypeOK /\ Connected /\ AnsweredMeansStored /\ SoundInv
<1>. SUFFICES ASSUME Init PROVE TypeOK /\ Connected /\ AnsweredMeansStored /\ SoundInv
  OBVIOUS
<1>. USE DEF Init
<1>1. owner \in [Slots -> Servers]
  BY ClusterAssumption
<1>2. Owners \subseteq Servers /\ masters = Owners
  BY <1>1 DEF Owners
<1>3. PICK order \in Orders : nodes = NodesIn(order)
  OBVIOUS
<1>4. /\ 1 \in DOMAIN nodes
      /\ \A i \in DOMAIN nodes :
            /\ nodes[i].server \in masters
            /\ \A j \in DOMAIN nodes : j # i => nodes[i].slots \cap nodes[j].slots = {}
  BY <1>1, <1>2, <1>3, FreshNodes
<1>5. /\ DOMAIN conns = DOMAIN nodes
      /\ \A i \in DOMAIN nodes : conns[i] = IF nodes[i].server \in up THEN "sound" ELSE "none"
  BY DEF ConnectRedisNode
<1>6. TypeOK
  <2>1. up \subseteq Servers /\ trouble \in BOOLEAN
    OBVIOUS
  <2>2. 0 \in 0..MaxEvents
    BY ClusterAssumption
  <2>. QED BY <1>1, <1>2, <1>4, <1>5, <2>1, <2>2 DEF TypeOK
<1>7. Empty = {}
  BY <1>2 DEF Empty, Owners, SlotsOf
<1>8. SoundInv
  <2>1. ~trouble => up = Servers
    OBVIOUS
  <2>. QED BY <2>1, <1>2, <1>4, <1>5, <1>7 DEF SoundInv, Sound
<1>. QED BY <1>6, <1>8 DEF AnsweredMeansStored, Connected

\* Where the user goes with a reply, and with which verdict.
LEMMA RepliedKeepsType ==
    ASSUME TypeOK, NEW reply, Replied(reply), stored' \in BOOLEAN
    PROVE  TypeOK'
<1>1. UNCHANGED <<user, owner, masters, moving, up, events, nodes, conns, ready, trouble>>
  BY DEF Replied, cluster, client
<1>2. pc' \in {"idle", "send", "reconnect", "again", "crashed"}
  BY DEF Replied, After
<1>3. outcome' \in {"none", "answered", "dropped"}
  BY DEF Replied, Verdict
<1>. QED BY <1>1, <1>2, <1>3 DEF TypeOK, Owners

LEMMA StepType == ASSUME TypeOK, Connected, [Next]_vars PROVE TypeOK'
<1>. USE DEF TypeOK
<1>1. CASE Ask
  BY <1>1 DEF Ask, cluster, client, Owners
<1>2. CASE CommandDone \/ CommandRefused \/ NoReply
  <2>1. \E reply : Replied(reply) /\ stored' \in BOOLEAN
    BY <1>2 DEF CommandDone, CommandRefused, NoReply
  <2>. QED BY <2>1, RepliedKeepsType
<1>3. CASE Unconnected \/ ReconnectOverrun
  BY <1>3 DEF Unconnected, ReconnectOverrun, cluster, client, Owners
<1>4. CASE Reconnect
  <2>1. PICK order \in Orders : nodes' = NodesIn(order)
    BY <1>4 DEF Reconnect
  <2>2. UNCHANGED <<user, owner, masters, moving, up, events, ready, outcome, stored, trouble>> /\ pc' = "again" /\ ready
    BY <1>4 DEF Reconnect, cluster, Connected
  <2>3. /\ DOMAIN conns' = DOMAIN nodes'
        /\ \A i \in DOMAIN nodes' : conns'[i] = IF nodes'[i].server \in up THEN "sound" ELSE "none"
    BY <1>4 DEF Reconnect, ConnectRedisNode
  <2>4. /\ 1 \in DOMAIN nodes'
        /\ \A i, j \in DOMAIN nodes' : j # i => nodes'[i].slots \cap nodes'[j].slots = {}
    BY <2>1, FreshNodes
  <2>. QED BY <2>2, <2>3, <2>4 DEF Owners
<1>5. CASE ReconnectFails \/ ReconnectTorn
  <2>1. /\ UNCHANGED <<user, owner, masters, moving, up, stored>> /\ ready' = FALSE
        /\ nodes' = <<>> /\ conns' = <<>>
        /\ pc' \in {"idle", "again"} /\ outcome' \in {"none", "dropped"}
    BY <1>5 DEF ReconnectFails, ReconnectTorn, cluster
  <2>2. events' \in 0..MaxEvents
    BY <1>5, ClusterAssumption DEF ReconnectFails, ReconnectTorn, cluster
  <2>3. trouble' \in BOOLEAN
    BY <1>5 DEF ReconnectFails, ReconnectTorn
  <2>4. DOMAIN nodes' = {} /\ DOMAIN conns' = {}
    BY <2>1
  <2>. QED BY <2>1, <2>2, <2>3, <2>4 DEF Owners
<1>6. ASSUME Happens PROVE /\ UNCHANGED <<user, pc, job, outcome, stored, nodes, ready>>
                           /\ events' \in 0..MaxEvents
  BY <1>6, ClusterAssumption DEF Happens, call
<1>7. ASSUME NEW s \in Slots, Migrate(s) PROVE TypeOK'
  BY <1>7, <1>6 DEF Migrate, Owners
<1>8. ASSUME NEW s \in Slots, NEW n \in Servers, MoveSlot(s, n) PROVE TypeOK'
  <2>1. /\ owner' = [owner EXCEPT ![s] = n] /\ n \in masters
        /\ UNCHANGED <<masters, up, conns>> /\ moving' \subseteq moving
        /\ Happens
    BY <1>8 DEF MoveSlot
  <2>2. Owners' \subseteq masters
    BY <2>1 DEF Owners
  <2>3. trouble' \in BOOLEAN
    BY <1>8 DEF MoveSlot
  <2>. QED BY <2>1, <2>2, <2>3, <1>6
<1>9. ASSUME NEW n \in Servers, Join(n) \/ Leave(n) PROVE TypeOK'
  <2>1. Happens /\ UNCHANGED <<owner, moving, up, conns>> /\ trouble' \in BOOLEAN
    BY <1>9 DEF Join, Leave
  <2>2. Owners \subseteq masters' /\ masters' \subseteq Servers
    BY <1>9 DEF Join, Leave, Empty, SlotsOf, Owners
  <2>. QED BY <2>1, <2>2, <1>6 DEF Owners
<1>10. ASSUME NEW n \in Servers, GoDown(n) PROVE TypeOK'
  <2>1. Happens /\ UNCHANGED <<owner, masters, moving>> /\ trouble' = TRUE /\ up' = up \ {n}
    BY <1>10 DEF GoDown
  <2>2. /\ DOMAIN conns' = DOMAIN conns
        /\ \A i \in DOMAIN conns :
              conns'[i] = IF nodes[i].server = n /\ conns[i] = "sound" THEN "broken" ELSE conns[i]
    BY <1>10 DEF GoDown
  <2>. QED BY <2>1, <2>2, <1>6 DEF Owners
<1>11. ASSUME NEW n \in Servers, ComeBack(n) PROVE TypeOK'
  BY <1>11, <1>6 DEF ComeBack, Owners
<1>12. ASSUME NEW n \in Servers, NEW m \in Servers, Failover(n, m) PROVE TypeOK'
  <2>1. Happens /\ UNCHANGED <<up, conns, trouble>> /\ masters' = masters \cup {m} /\ moving' \subseteq moving
    BY <1>12 DEF Failover
  <2>2. owner' = [s \in Slots |-> IF owner[s] = n THEN m ELSE owner[s]]
    BY <1>12 DEF Failover
  <2>3. owner' \in [Slots -> Servers] /\ Owners' \subseteq masters'
    BY <2>1, <2>2 DEF Owners
  <2>. QED BY <2>1, <2>3, <1>6
<1>13. ASSUME NEW i \in 1..Cardinality(Servers), BreakLink(i) PROVE TypeOK'
  <2>1. /\ Happens /\ UNCHANGED <<owner, masters, moving, up>> /\ trouble' = TRUE
        /\ conns' = [conns EXCEPT ![i] = "broken"]
    BY <1>13 DEF BreakLink
  <2>2. /\ DOMAIN conns' = DOMAIN conns
        /\ \A j \in DOMAIN conns : conns'[j] = "broken" \/ conns'[j] = conns[j]
    BY <2>1
  <2>. QED BY <2>1, <2>2, <1>6 DEF Owners
<1>14. CASE UNCHANGED vars
  BY <1>14 DEF vars, cluster, client, call, Owners
<1>. QED
  BY <1>1, <1>2, <1>3, <1>4, <1>5, <1>7, <1>8, <1>9, <1>10, <1>11, <1>12, <1>13, <1>14 DEF Next, Client, Events

LEMMA StepConnected ==
    ASSUME TypeOK, Connected, AnsweredMeansStored, [Next]_vars
    PROVE  Connected' /\ AnsweredMeansStored'
<1>. USE DEF Connected, AnsweredMeansStored
<1>1. CASE Ask \/ Unconnected \/ ReconnectOverrun \/ ReconnectFails \/ ReconnectTorn
  BY <1>1 DEF Ask, Unconnected, ReconnectOverrun, ReconnectFails, ReconnectTorn, cluster, client
<1>2. CASE CommandDone
  BY <1>2 DEF CommandDone, Replied, After, Sends, client
<1>3. CASE CommandRefused \/ NoReply
  <2>1. PICK reply \in {"error", "none"} : Replied(reply) /\ ready
    BY <1>3 DEF CommandRefused, NoReply, Sends
  <2>. QED BY <2>1 DEF Replied, After, Verdict, client
<1>4. CASE Reconnect
  BY <1>4 DEF Reconnect
<1>5. CASE UNCHANGED <<call, ready>>
  BY <1>5 DEF call
<1>. QED
  BY <1>1, <1>2, <1>3, <1>4, <1>5 DEF Next, Client, Events, Migrate, MoveSlot, Join, Leave, GoDown, ComeBack,
     Failover, BreakLink, Happens, vars, client

\* Without trouble no command goes without a reply and no reconnect fails.
LEMMA StepSound ==
    ASSUME TypeOK, Connected, SoundInv, [Next]_vars
    PROVE  SoundInv'
<1>. SUFFICES ASSUME ~trouble' PROVE Sound'
  BY DEF SoundInv
<1>1. trouble = FALSE
  BY DEF Next, Client, Events, Ask, CommandDone, CommandRefused, NoReply, Replied, Unconnected, Reconnect,
     ReconnectFails, ReconnectOverrun, Migrate, MoveSlot, Join, Leave, GoDown, ComeBack, Failover, BreakLink,
     ReconnectTorn, vars, TypeOK
<1>2. Sound
  BY <1>1 DEF SoundInv
<1>. USE <1>1, <1>2 DEF Sound
<1>3. Owners \subseteq up /\ \A i \in DOMAIN nodes : nodes[i].server \in up
  BY DEF TypeOK
<1>4. ASSUME UNCHANGED <<owner, masters>> PROVE Empty' = {}
  BY <1>4 DEF Empty, SlotsOf
<1>5. CASE Ask
  BY <1>4, <1>5 DEF Ask, cluster, client
<1>6. CASE CommandDone \/ CommandRefused
  <2>1. PICK reply \in {"ok", "error"} : Replied(reply)
    BY <1>6 DEF CommandDone, CommandRefused
  <2>. QED BY <2>1, <1>4 DEF Replied, After, cluster, client
<1>7. CASE Reconnect
  <2>1. PICK order \in Orders : nodes' = NodesIn(order)
    BY <1>7 DEF Reconnect
  <2>2. \A i \in DOMAIN nodes' : nodes'[i].server \in up
    BY <2>1, FreshNodes DEF TypeOK
  <2>3. \A i \in DOMAIN nodes' : conns'[i] = IF nodes'[i].server \in up THEN "sound" ELSE "none"
    BY <1>7 DEF Reconnect, ConnectRedisNode
  <2>4. UNCHANGED <<owner, masters, up, ready>> /\ pc' = "again"
    BY <1>7 DEF Reconnect, cluster
  <2>. QED BY <2>2, <2>3, <2>4, <1>4
<1>8. ASSUME NoReply \/ Unconnected \/ ReconnectFails \/ ReconnectOverrun PROVE FALSE
  <2>1. \A i \in DOMAIN nodes : conns[i] = "sound"
    OBVIOUS
  <2>2. 1 \in DOMAIN nodes
    BY DEF TypeOK
  <2>3. conns[Node] = "sound"
    BY <2>1, <2>2 DEF Node, FindNodeIndex
  <2>. QED BY <1>8, <2>2, <2>3, <1>3 DEF NoReply, Sends, Unconnected, ReconnectFails, ReconnectOverrun
<1>9. ASSUME NEW s \in Slots, Migrate(s) PROVE Sound'
  BY <1>9, <1>4 DEF Migrate, Happens, call
<1>10. ASSUME NEW s \in Slots, NEW n \in Servers, MoveSlot(s, n) PROVE Sound'
  <2>1. UNCHANGED <<up, conns, nodes, ready, pc>> /\ Empty' = {}
    BY <1>10 DEF MoveSlot, Happens, call
  <2>. QED BY <2>1
<1>11. ASSUME NEW n \in Servers, NEW m \in Servers,
              Join(n) \/ Leave(n) \/ GoDown(n) \/ ComeBack(n) \/ Failover(n, m)
       PROVE  FALSE
  BY <1>11, <1>3 DEF Join, Leave, GoDown, ComeBack, Failover
<1>12. ASSUME NEW i \in 1..Cardinality(Servers), BreakLink(i) PROVE FALSE
  BY <1>12 DEF BreakLink
<1>13. ASSUME ReconnectTorn PROVE FALSE
  BY <1>13 DEF ReconnectTorn
<1>14. CASE UNCHANGED vars
  BY <1>14, <1>4 DEF vars, cluster, client, call
<1>. QED
  BY <1>5, <1>6, <1>7, <1>8, <1>9, <1>10, <1>11, <1>12, <1>13, <1>14 DEF Next, Client, Events

LEMMA Invariance == Spec => [](TypeOK /\ Connected /\ AnsweredMeansStored /\ SoundInv)
<1>1. ASSUME TypeOK, Connected, AnsweredMeansStored, SoundInv, [Next]_vars
      PROVE  TypeOK' /\ Connected' /\ AnsweredMeansStored' /\ SoundInv'
  BY <1>1, StepType, StepConnected, StepSound
<1>. QED BY <1>1, InitInv, PTL DEF Spec

\* Whatever happens to the cluster, the lists of the client keep their shape:
\* a connection for each node, and no slot with two nodes.
THEOREM TypeCorrect == Spec => []TypeOK
BY Invariance, PTL

\* No bid is let out whose flag the cluster did not store.
THEOREM NoFlagNoBid == Spec => []AnsweredMeansStored
BY Invariance, PTL

\* Resharding alone neither crashes a user nor makes it wait for ever.
THEOREM ReshardingSurvived == Spec => []SurvivesResharding
<1>1. TypeOK /\ SoundInv => SurvivesResharding
  <2>. SUFFICES ASSUME TypeOK, Sound PROVE pc # "crashed" /\ ~Waiting
    BY DEF SurvivesResharding, SoundInv
  <2>1. 1 \in DOMAIN nodes /\ \A i \in DOMAIN nodes : conns[i] = "sound"
    BY DEF TypeOK, Sound
  <2>2. conns[Node] = "sound" /\ conns[1] = "sound"
    BY <2>1 DEF Node, FindNodeIndex
  <2>. QED BY <2>2 DEF Sound, Waiting, Sends
<1>. QED BY <1>1, Invariance, PTL
-----------------------------------------------------------------------------
(* Why calls return, and why the slots are found again. *)

\* The commands and reconnects that a call has ahead, at most.
CallLeft == CASE pc = "send" -> 3 [] pc = "reconnect" -> 2 [] pc = "again" -> 1 [] OTHER -> 0

\* A call gets on with every step of its client, whatever the cluster does:
\* there is one reconnect at most.
CallGetsOn == IF Client THEN CallLeft' < CallLeft ELSE pc' = pc \/ Ask \/ CallLeft' < CallLeft

\* Without trouble a call in progress can go on: its connection works.
CallCanStep ==
    ~trouble => \/ pc = "idle" \/ Sends("sound")
                \/ pc = "reconnect" /\ conns[1] = "sound" /\ nodes[1].server \in up /\ Empty = {}

\* The client looks for each slot at the server that has it.
KnowsOwners == \A s \in Slots : nodes[FindNodeIndex(s)].server = owner[s]

\* A reconnect finds every slot, and the client goes on finding them.
FindsSlots ==
    ~trouble' /\ OneRangeEach /\ OneRangeEach' =>
        /\ Reconnect => KnowsOwners'
        /\ KnowsOwners => KnowsOwners' /\ outcome' # "dropped"

\* Each call is over after three steps at most: a flag is tried twice, never
\* more often, whatever the cluster answers.
THEOREM CallsComeToEnd == Spec => [][CallGetsOn]_vars
<1>1. TypeOK /\ Connected /\ [Next]_vars => [CallGetsOn]_vars
  <2>. SUFFICES ASSUME TypeOK, Next PROVE CallGetsOn
    OBVIOUS
  <2>1. ASSUME Client PROVE CallLeft' < CallLeft
    <3>1. CASE CommandDone \/ CommandRefused \/ NoReply
      <4>1. pc \in {"send", "again"} /\ \E reply \in {"ok", "error", "none"} : pc' = After(reply)
        BY <3>1 DEF CommandDone, CommandRefused, NoReply, Sends, Replied
      <4>. QED BY <4>1 DEF After, CallLeft
    <3>2. CASE Unconnected \/ Reconnect \/ ReconnectFails \/ ReconnectOverrun
      BY <3>2 DEF Unconnected, Reconnect, ReconnectFails, ReconnectOverrun, CallLeft
    <3>. QED BY <2>1, <3>1, <3>2 DEF Client
  <2>2. ASSUME Events PROVE pc' = pc \/ CallLeft' < CallLeft
    <3>1. CASE ReconnectTorn
      BY <3>1 DEF ReconnectTorn, CallLeft
    <3>. QED BY <2>2, <3>1 DEF Events, Migrate, MoveSlot, Join, Leave, GoDown, ComeBack, Failover,
                BreakLink, Happens, call
  <2>. QED BY <2>1, <2>2 DEF Next, CallGetsOn
<1>. QED BY <1>1, Invariance, PTL DEF Spec

\* Without trouble no call waits: neither for a connection nor for a cluster
\* that cannot be read.
THEOREM CallsCanStep == Spec => []CallCanStep
<1>1. TypeOK /\ SoundInv => CallCanStep
  <2>. SUFFICES ASSUME TypeOK, Sound PROVE \/ pc = "idle" \/ Sends("sound")
                                           \/ pc = "reconnect" /\ conns[1] = "sound" /\ nodes[1].server \in up /\ Empty = {}
    BY DEF CallCanStep, SoundInv
  <2>1. 1 \in DOMAIN nodes /\ ready /\ \A i \in DOMAIN nodes : conns[i] = "sound" /\ nodes[i].server \in up
    BY DEF TypeOK, Sound
  <2>2. conns[Node] = "sound"
    BY <2>1 DEF Node, FindNodeIndex
  <2>. QED BY <2>1, <2>2 DEF Sound, Sends, TypeOK
<1>. QED BY <1>1, Invariance, PTL

\* The lines of the masters name each of them.
LEMMA OrdersAreComplete ==
    ASSUME masters \subseteq Servers, NEW order \in Orders, NEW n \in masters
    PROVE  \E i \in DOMAIN order : order[i] = n
<1>. DEFINE k == Cardinality(masters)
<1>1. IsFiniteSet(masters) /\ k \in Nat
  BY ClusterAssumption, FS_Subset, FS_CardinalityType
<1>2. order \in [1..k -> masters] /\ DOMAIN order = 1..k
  BY DEF Orders
<1>3. order \in Injection(1..k, masters)
  BY <1>2 DEF Orders, Injection, IsInjective
<1>4. Cardinality(1..k) = k
  <2>. HIDE DEF k
  <2>. QED BY <1>1, FS_Interval
<1>5. order \in Surjection(1..k, masters)
  BY <1>1, <1>3, <1>4, FS_Injection
<1>. QED BY <1>2, <1>5 DEF Surjection

\* A layout that is read while each master has one range has all the slots.
LEMMA FreshLayoutIsRight ==
    ASSUME owner \in [Slots -> Servers], Owners \subseteq masters, masters \subseteq Servers, OneRangeEach,
           NEW order \in Orders, NEW s \in Slots
    PROVE  \E i \in DOMAIN NodesIn(order) :
              /\ s \in NodesIn(order)[i].slots /\ NodesIn(order)[i].server = owner[s]
              /\ \A j \in DOMAIN NodesIn(order) : s \in NodesIn(order)[j].slots => j = i
<1>1. owner[s] \in masters
  BY DEF Owners
<1>2. PICK i \in DOMAIN order : order[i] = owner[s]
  BY <1>1, OrdersAreComplete
<1>3. s \in FirstRange(owner[s])
  BY <1>1 DEF FirstRange, SlotsOf, OneRangeEach
<1>4. DOMAIN NodesIn(order) = DOMAIN order
  BY DEF NodesIn
<1>5. s \in NodesIn(order)[i].slots /\ NodesIn(order)[i].server = owner[s]
  BY <1>2, <1>3 DEF NodesIn
<1>. QED BY <1>2, <1>4, <1>5, FreshNodes

\* While a call is under way it has no outcome yet, and its key a slot.
CallInv == pc \in {"send", "reconnect", "again"} => outcome = "none" /\ job.slot \in Slots

LEMMA CallsKept == Spec => []CallInv
<1>1. Init => CallInv
  BY DEF Init, CallInv
<1>2. CallInv /\ [Next]_vars => CallInv'
  <2>. SUFFICES ASSUME CallInv, [Next]_vars PROVE CallInv'
    OBVIOUS
  <2>1. CASE Ask
    BY <2>1 DEF Ask, CallInv
  <2>2. CASE CommandDone \/ CommandRefused \/ NoReply
    <3>1. pc \in {"send", "again"} /\ \E reply \in {"ok", "error", "none"} : Replied(reply)
      BY <2>2 DEF CommandDone, CommandRefused, NoReply, Sends
    <3>. QED BY <3>1 DEF Replied, CallInv
  <2>3. CASE Unconnected \/ Reconnect \/ ReconnectFails \/ ReconnectOverrun \/ ReconnectTorn
    BY <2>3 DEF Unconnected, Reconnect, ReconnectFails, ReconnectOverrun, ReconnectTorn, CallInv
  <2>4. CASE UNCHANGED call
    BY <2>4 DEF call, CallInv
  <2>. QED BY <2>1, <2>2, <2>3, <2>4 DEF Next, Client, Events, Migrate, MoveSlot, Join, Leave, GoDown, ComeBack,
              Failover, BreakLink, Happens, vars
<1>. QED BY <1>1, <1>2, PTL DEF Spec

\* Once every master has its slots in one piece, one reconnect is enough: the
\* client finds every slot from then on and drops no bid for want of its flag.
THEOREM ReconnectFindsSlots == Spec => [][FindsSlots]_vars
<1>1. TypeOK /\ SoundInv /\ CallInv /\ [Next]_vars => [FindsSlots]_vars
  <2>. SUFFICES ASSUME TypeOK, SoundInv, CallInv, Next, trouble = FALSE, ~trouble', OneRangeEach, OneRangeEach'
                PROVE  /\ Reconnect => KnowsOwners'
                       /\ KnowsOwners => KnowsOwners' /\ outcome' # "dropped"
    <3>1. Next /\ TypeOK /\ ~trouble' => trouble = FALSE
      BY DEF Next, Client, Events, Ask, CommandDone, CommandRefused, NoReply, Replied, Unconnected, Reconnect,
         ReconnectFails, ReconnectOverrun, Migrate, MoveSlot, Join, Leave, GoDown, ComeBack, Failover, BreakLink,
         ReconnectTorn, TypeOK
    <3>. QED BY <3>1 DEF FindsSlots
  <2>1. /\ Sound /\ moving = {} /\ Owners \subseteq up
        /\ owner \in [Slots -> Servers] /\ Owners \subseteq masters /\ masters \subseteq Servers
        /\ \A i \in DOMAIN nodes : nodes[i].server \in up /\ conns[i] = "sound"
        /\ 1 \in DOMAIN nodes
    BY DEF SoundInv, Sound, TypeOK, OneRangeEach
  <2>2. CASE Reconnect
    <3>1. PICK order \in Orders : nodes' = NodesIn(order)
      BY <2>2 DEF Reconnect
    <3>2. owner' = owner
      BY <2>2 DEF Reconnect, cluster
    <3>3. ASSUME NEW s \in Slots PROVE nodes'[FindNodeIndex(s)'].server = owner[s]
      <4>1. \E i \in DOMAIN nodes' : /\ s \in nodes'[i].slots /\ nodes'[i].server = owner[s]
                                     /\ \A j \in DOMAIN nodes' : s \in nodes'[j].slots => j = i
        BY <2>1, <3>1, FreshLayoutIsRight
      <4>. QED BY <4>1 DEF FindNodeIndex
    <3>4. outcome' = "none"
      BY <2>2 DEF Reconnect, CallInv
    <3>. QED BY <3>2, <3>3, <3>4 DEF KnowsOwners
  <2>3. CASE Ask
    <3>1. UNCHANGED <<owner, nodes>> /\ outcome' = "none" /\ ~Reconnect
      BY <2>3 DEF Ask, cluster, client, Reconnect
    <3>. QED BY <3>1 DEF KnowsOwners, FindNodeIndex
  <2>4. ASSUME NEW reply \in {"ok", "error", "none"}, Replied(reply), CommandDone \/ CommandRefused \/ NoReply,
               reply = "ok" \/ CommandRefused \/ NoReply
        PROVE  /\ Reconnect => KnowsOwners'
               /\ KnowsOwners => KnowsOwners' /\ outcome' # "dropped"
    <3>1. UNCHANGED <<owner, nodes>> /\ pc \in {"send", "again"} /\ job.slot \in Slots
      BY <2>4 DEF Replied, cluster, client, CommandDone, CommandRefused, NoReply, Sends, CallInv
    <3>2. ASSUME KnowsOwners PROVE reply = "ok"
      <4>1. owner[job.slot] = nodes[Node].server
        BY <3>1, <3>2 DEF KnowsOwners, Node
      <4>2. conns[Node] = "sound"
        BY <2>1 DEF Node, FindNodeIndex
      <4>. QED BY <2>1, <2>4, <4>1, <4>2 DEF CommandRefused, NoReply, Sends
    <3>3. KnowsOwners => outcome' # "dropped"
      BY <2>4, <3>2 DEF Replied, Verdict
    <3>4. ~Reconnect
      BY <3>1 DEF Reconnect
    <3>. QED BY <3>1, <3>3, <3>4 DEF KnowsOwners, FindNodeIndex
  <2>5. ASSUME Unconnected \/ ReconnectFails \/ ReconnectOverrun PROVE FALSE
    BY <2>1, <2>5 DEF Unconnected, ReconnectFails, ReconnectOverrun, Sound
  <2>6. ASSUME Events PROVE FALSE
    <3>1. ASSUME NEW s \in Slots, Migrate(s) PROVE FALSE
      <4>1. s \in moving'
        BY <3>1 DEF Migrate
      <4>. QED BY <4>1 DEF OneRangeEach
    <3>2. ASSUME NEW s \in Slots, NEW n \in Servers, MoveSlot(s, n) PROVE FALSE
      BY <2>1, <3>2 DEF MoveSlot
    <3>3. ASSUME NEW n \in Servers, NEW m \in Servers,
                 Join(n) \/ Leave(n) \/ GoDown(n) \/ ComeBack(n) \/ Failover(n, m)
          PROVE  FALSE
      BY <2>1, <3>3 DEF Join, Leave, GoDown, ComeBack, Failover, Sound
    <3>4. ASSUME NEW i \in 1..Cardinality(Servers), BreakLink(i) PROVE FALSE
      BY <3>4 DEF BreakLink
    <3>5. ASSUME ReconnectTorn PROVE FALSE
      BY <3>5 DEF ReconnectTorn
    <3>. QED BY <2>6, <3>1, <3>2, <3>3, <3>4, <3>5 DEF Events
  <2>7. CASE CommandDone \/ CommandRefused \/ NoReply
    <3>1. PICK reply \in {"ok", "error", "none"} : Replied(reply) /\ (reply = "ok" \/ CommandRefused \/ NoReply)
      BY <2>7 DEF CommandDone, CommandRefused, NoReply
    <3>. QED BY <2>4, <2>7, <3>1
  <2>. QED BY <2>2, <2>3, <2>5, <2>6, <2>7 DEF Next, Client
<1>. QED BY <1>1, Invariance, CallsKept, PTL DEF Spec

-----------------------------------------------------------------------------
(* RecordCount *)

\* What AddRecord makes.
Records == [id : Nat, pid : Policies, price : Nat, day : 1..MaxDay]

\* Induction up to n: over the elements of a set, not over a formula.
LEMMA Induction ==
    ASSUME NEW n \in Nat, NEW T, 0 \in T, \A m \in 0..(n - 1) : m \in T => m + 1 \in T
    PROVE  0..n \subseteq T
<1>. DEFINE Missing == (0..n) \ T
<1>. SUFFICES ASSUME Missing # {} PROVE FALSE
  OBVIOUS
<1>1. PICK z \in Missing : \A y \in Missing : ~(y < z)
  <2>1. Missing \subseteq Nat
    OBVIOUS
  <2>. HIDE DEF Missing
  <2>2. \E z \in Missing : \A y \in Missing : ~(<<y, z>> \in OpToRel(<, Nat))
    BY <2>1, WFMin, NatLessThanWellFounded
  <2>. QED BY <2>1, <2>2 DEF OpToRel
<1>2. z # 0 /\ z - 1 \in 0..(n - 1) /\ z - 1 \notin Missing
  BY <1>1
<1>. QED BY <1>2

-----------------------------------------------------------------------------
(* Sums of prices. *)

LEMMA PricesAreNumbers ==
    ASSUME NEW records \in Seq(Records)
    PROVE  Len(records) \in Nat /\ \A i \in 1..Len(records) : records[i].price \in Nat
<1>1. Len(records) \in Nat /\ \A i \in 1..Len(records) : records[i] \in Records
  OBVIOUS
<1>. QED BY <1>1 DEF Records

Part(records, S, n) == IF n \in S THEN records[n].price ELSE 0

\* There is a function that adds the prices up, so that is what the CHOOSE of
\* its definition finds.
LEMMA PricesAddUp ==
    ASSUME NEW records \in Seq(Records), NEW S
    PROVE  /\ PricesUpTo(records, S) \in [0..Len(records) -> Nat]
           /\ PricesUpTo(records, S)[0] = 0
           /\ \A n \in 1..Len(records) :
                 PricesUpTo(records, S)[n] = PricesUpTo(records, S)[n - 1] + Part(records, S, n)
<1>. Len(records) \in Nat /\ \A i \in 1..Len(records) : records[i].price \in Nat
  BY PricesAreNumbers
<1>. DEFINE N == Len(records)
           Body(sum) == [n \in 0..Len(records) |-> IF n = 0 THEN 0 ELSE sum[n - 1] + (IF n \in S THEN records[n].price ELSE 0)]
           IsSum(f, m) == /\ f \in [0..m -> Nat] /\ f[0] = 0
                          /\ \A n \in 1..m : f[n] = f[n - 1] + Part(records, S, n)
           T == {m \in 0..N : \E f : IsSum(f, m)}
<1>1. PricesUpTo(records, S) = CHOOSE sum : sum = Body(sum)
  BY DEF PricesUpTo
<1>2. 0 \in T
  <2>1. IsSum([n \in 0..0 |-> 0], 0)
    OBVIOUS
  <2>. HIDE DEF IsSum
  <2>. QED BY <2>1
<1>3. ASSUME NEW m \in 0..(N - 1), m \in T PROVE m + 1 \in T
  <2>1. PICK f : IsSum(f, m)
    BY <1>3
  <2>2. Part(records, S, m + 1) \in Nat
    BY DEF Part
  <2>3. IsSum([n \in 0..(m + 1) |-> IF n = m + 1 THEN f[m] + Part(records, S, m + 1) ELSE f[n]], m + 1)
    BY <2>1, <2>2
  <2>. HIDE DEF IsSum
  <2>. QED BY <2>3
<1>4. N \in T
  <2> HIDE DEF T
  <2>1. 0..N \subseteq T
    BY <1>2, <1>3, Induction
  <2> QED BY <2>1
<1>5. PICK f : IsSum(f, N)
  BY <1>4
<1>6. f = Body(f)
  BY <1>5 DEF Part
<1>7. PricesUpTo(records, S) = Body(PricesUpTo(records, S))
  <2> HIDE DEF Body
  <2> QED BY <1>1, <1>6
<1>8. PICK g : g = PricesUpTo(records, S)
  OBVIOUS
<1>9. g = Body(g)
  BY <1>7, <1>8
<1>10. /\ g = [n \in 0..N |-> g[n]]
       /\ g[0] = 0
       /\ \A n \in 1..N : g[n] = g[n - 1] + Part(records, S, n)
  <2>1. ASSUME NEW n \in 0..N PROVE g[n] = IF n = 0 THEN 0 ELSE g[n - 1] + Part(records, S, n)
    BY <1>9 DEF Part
  <2>2. g = [n \in 0..N |-> Body(g)[n]]
    BY <1>9
  <2>. HIDE DEF Body
  <2>3. g = [n \in 0..N |-> g[n]]
    BY <1>9, <2>2
  <2>. QED BY <2>1, <2>3
<1>. DEFINE U == {m \in 0..N : g[m] \in Nat}
<1>11. 0..N \subseteq U
  <2>1. ASSUME NEW m \in 0..(N - 1), m \in U PROVE m + 1 \in U
    <3>1. Part(records, S, m + 1) \in Nat /\ m + 1 \in 1..N /\ (m + 1) - 1 = m
      BY DEF Part
    <3>2. g[m + 1] = g[m] + Part(records, S, m + 1)
      BY <1>10, <3>1
    <3>3. g[m] \in Nat
      BY <2>1
    <3>. QED BY <3>1, <3>2, <3>3
  <2>2. 0 \in U
    BY <1>10
  <2>. HIDE DEF U
  <2>. QED BY <2>1, <2>2, Induction
<1>12. g \in [0..N -> Nat]
  BY <1>10, <1>11
<1>. QED BY <1>8, <1>10, <1>12

LEMMA TotalOfNone ==
    ASSUME NEW records \in Seq(Records)
    PROVE  Total(records, {}) = 0
<1>. DEFINE f == PricesUpTo(records, {})
           T == {n \in 0..Len(records) : f[n] = 0}
<1>1. /\ Len(records) \in Nat /\ f[0] = 0
      /\ \A n \in 1..Len(records) : f[n] = f[n - 1] + 0
  BY PricesAddUp DEF Part
<1>. HIDE DEF f
<1>2. ASSUME NEW n \in 0..(Len(records) - 1), n \in T PROVE n + 1 \in T
  <2>1. n + 1 \in 1..Len(records) /\ (n + 1) - 1 = n
    BY <1>1
  <2>. QED BY <1>1, <1>2, <2>1
<1>3. 0..Len(records) \subseteq T
  <2>1. 0 \in T
    BY <1>1
  <2>. HIDE DEF T
  <2>. QED BY <1>1, <1>2, <2>1, Induction
<1>. QED BY <1>1, <1>3 DEF Total, f

\* A new record that is not counted leaves the sum as it was.
LEMMA TotalOfAppend ==
    ASSUME NEW records \in Seq(Records), NEW r \in Records, NEW S, S \subseteq 1..Len(records)
    PROVE  Total(Append(records, r), S) = Total(records, S)
<1>. DEFINE n0 == Len(records)
           longer == Append(records, r)
           f == PricesUpTo(records, S)
           g == PricesUpTo(longer, S)
           T == {n \in 0..n0 : g[n] = f[n]}
<1>1. /\ n0 \in Nat /\ longer \in Seq(Records) /\ Len(longer) = n0 + 1
      /\ \A n \in 1..n0 : longer[n] = records[n]
  OBVIOUS
<1>2. /\ f \in [0..n0 -> Nat] /\ f[0] = 0
      /\ \A n \in 1..n0 : f[n] = f[n - 1] + Part(records, S, n)
  BY PricesAddUp
<1>3. /\ g \in [0..(n0 + 1) -> Nat] /\ g[0] = 0
      /\ \A n \in 1..(n0 + 1) : g[n] = g[n - 1] + Part(longer, S, n)
  BY <1>1, PricesAddUp
<1>4. \A n \in 1..n0 : Part(longer, S, n) = Part(records, S, n)
  BY <1>1 DEF Part
<1>5. Part(longer, S, n0 + 1) = 0
  BY <1>1 DEF Part
<1>. HIDE DEF f, g, longer
<1>6. ASSUME NEW n \in 0..(n0 - 1), n \in T PROVE n + 1 \in T
  <2>1. n + 1 \in 1..n0 /\ n + 1 \in 1..(n0 + 1) /\ (n + 1) - 1 = n
    BY <1>1
  <2>2. f[n + 1] = f[n] + Part(records, S, n + 1) /\ g[n + 1] = g[n] + Part(longer, S, n + 1)
    BY <1>2, <1>3, <2>1
  <2>. QED BY <1>4, <1>6, <2>1, <2>2
<1>7. 0..n0 \subseteq T
  <2>1. 0 \in T
    BY <1>1, <1>2, <1>3
  <2>. HIDE DEF T
  <2>. QED BY <1>1, <1>6, <2>1, Induction
<1>8. g[n0 + 1] = g[n0] /\ g[n0] = f[n0]
  <2>1. n0 + 1 \in 1..(n0 + 1) /\ (n0 + 1) - 1 = n0 /\ n0 \in 0..(n0 + 1)
    BY <1>1
  <2>2. g[n0 + 1] = g[n0] + 0
    BY <1>3, <1>5, <2>1
  <2>. QED BY <1>1, <1>3, <1>7, <2>1, <2>2
<1>. QED BY <1>1, <1>8 DEF Total, f, g, longer

\* One more record that is counted adds its price.
LEMMA TotalOfOneMore ==
    ASSUME NEW records \in Seq(Records), NEW S, NEW i \in 1..Len(records), i \notin S
    PROVE  Total(records, S \cup {i}) = Total(records, S) + records[i].price
<1>. DEFINE n0 == Len(records)
           f == PricesUpTo(records, S)
           g == PricesUpTo(records, S \cup {i})
           T == {n \in 0..n0 : g[n] = f[n] + (IF n >= i THEN records[i].price ELSE 0)}
<1>1. n0 \in Nat /\ records[i].price \in Nat
  BY PricesAreNumbers
<1>2. /\ f \in [0..n0 -> Nat] /\ f[0] = 0
      /\ \A n \in 1..n0 : f[n] = f[n - 1] + Part(records, S, n)
  BY PricesAddUp
<1>3. /\ g \in [0..n0 -> Nat] /\ g[0] = 0
      /\ \A n \in 1..n0 : g[n] = g[n - 1] + Part(records, S \cup {i}, n)
  BY PricesAddUp
<1>4. /\ \A n \in 1..n0 : Part(records, S, n) \in Nat
      /\ \A n \in 1..n0 : n # i => Part(records, S \cup {i}, n) = Part(records, S, n)
      /\ Part(records, S \cup {i}, i) = records[i].price /\ Part(records, S, i) = 0
  BY PricesAreNumbers DEF Part
<1>. HIDE DEF f, g
<1>5. ASSUME NEW n \in 0..(n0 - 1), n \in T PROVE n + 1 \in T
  <2>1. n + 1 \in 1..n0 /\ n + 1 \in 0..n0 /\ (n + 1) - 1 = n /\ f[n] \in Nat /\ g[n] \in Nat
    BY <1>1, <1>2, <1>3
  <2>2. /\ f[n + 1] = f[n] + Part(records, S, n + 1)
        /\ g[n + 1] = g[n] + Part(records, S \cup {i}, n + 1)
    BY <1>2, <1>3, <2>1
  <2>3. g[n] = f[n] + (IF n >= i THEN records[i].price ELSE 0)
    BY <1>5
  <2>4. CASE n + 1 = i
    <3>1. g[n] = f[n] /\ f[n + 1] = f[n] + 0 /\ g[n + 1] = f[n] + records[i].price
      BY <1>1, <1>4, <2>1, <2>2, <2>3, <2>4
    <3>. QED BY <1>1, <2>1, <2>4, <3>1
  <2>5. CASE n + 1 # i
    <3>1. Part(records, S \cup {i}, n + 1) = Part(records, S, n + 1) /\ Part(records, S, n + 1) \in Nat
      BY <1>4, <2>1, <2>5
    <3>2. n + 1 >= i <=> n >= i
      BY <2>5
    <3>. QED BY <1>1, <2>1, <2>2, <2>3, <3>1, <3>2
  <2>. QED BY <2>4, <2>5
<1>6. 0..n0 \subseteq T
  <2>1. 0 \in T
    BY <1>1, <1>2, <1>3
  <2>. HIDE DEF T
  <2>. QED BY <1>1, <1>5, <2>1, Induction
<1>7. n0 \in T /\ n0 >= i
  BY <1>1, <1>6
<1>. QED BY <1>7 DEF Total, f, g

-----------------------------------------------------------------------------
(* Records on their way. *)

AsWon(r) == r.id \in 1..Len(won) /\ won[r.id] = r

\* Every record on its way is the record of the bid that was won.
RecordsKept ==
    /\ runFlag \in BOOLEAN /\ day \in 1..MaxDay
    /\ con \in {"loop", "bid", "price", "drain", "lastBid", "lastPrice", "done"}
    /\ one # None <=> con \in {"bid", "price", "lastBid", "lastPrice"}
    /\ won \in Seq(Records) /\ Len(won) <= MaxRecords
    /\ making \in [Workers -> Records \cup {None}]
    /\ queue \in Seq(Records) /\ one \in Records \cup {None}
    /\ bids \in [Keys -> Nat] /\ spent \in [Keys -> Nat]
    /\ lost \in [bids : SUBSET Nat, spent : SUBSET Nat]
    /\ \A i \in 1..Len(won) : won[i].id = i
    /\ \A w \in Workers : making[w] # None => AsWon(making[w])
    /\ \A i \in 1..Len(queue) : AsWon(queue[i])
    /\ one # None => AsWon(one)

\* A bid is with one worker, at one place of the queue or in hand.
EachOnce ==
    /\ \A v, w \in Workers :
          making[v] # None /\ making[w] # None /\ making[v].id = making[w].id => v = w
    /\ \A i, j \in 1..Len(queue) : queue[i].id = queue[j].id => i = j
    /\ MakingIds \cap QueueIds = {}
    /\ one # None => one.id \notin MakingIds \cup QueueIds

\* A command that did not take place is not on its way any more.
LostForGood ==
    /\ lost.bids \subseteq 1..Len(won) /\ lost.bids \cap OnTheWay("bids") = {}
    /\ lost.spent \subseteq 1..Len(won) /\ lost.spent \cap OnTheWay("spent") = {}

WayInv == RecordsKept /\ EachOnce
CountInv == LostForGood /\ CountsAgree

LEMMA Bounds ==
    /\ MaxRecords \in Nat /\ MaxDay \in Nat \ {0} /\ Prices \subseteq Nat
    /\ \A r \in Records : r # None
<1>1. MaxRecords \in Nat /\ MaxDay \in Nat \ {0} /\ Prices \subseteq 0..10000
  BY RecordCountAssumption DEF RecordCountAssumption
<1>2. None \notin [id : Nat, pid : Policies, price : Nat, day : Nat]
  BY RecordCountAssumption DEF RecordCountAssumption
<1>3. Records \subseteq [id : Nat, pid : Policies, price : Nat, day : Nat]
  BY <1>1 DEF Records
<1>. QED BY <1>1, <1>2, <1>3

LEMMA KeptType == RecordsKept => RCTypeOK
<1>. SUFFICES ASSUME RecordsKept PROVE RCTypeOK
  OBVIOUS
<1>1. \A r : AsWon(r) => r \in Range(won)
  BY DEF AsWon, RecordsKept, Range
<1>2. \A r \in Range(queue) : AsWon(r)
  BY DEF RecordsKept, Range
<1>. QED BY <1>1, <1>2 DEF RecordsKept, RCTypeOK

LEMMA DueOf ==
    ASSUME NEW k
    PROVE  /\ Due("bids", k) = {i \in 1..Len(won) : KeyOf(won[i]) = k} \ (OnTheWay("bids") \cup lost.bids)
           /\ Due("spent", k) = {i \in 1..Len(won) : KeyOf(won[i]) = k} \ (OnTheWay("spent") \cup lost.spent)
BY DEF Due

LEMMA DueIsFinite ==
    ASSUME RecordsKept, NEW counter, NEW k
    PROVE  Due(counter, k) \subseteq 1..Len(won) /\ IsFiniteSet(Due(counter, k))
<1>1. Due(counter, k) \subseteq 1..Len(won)
  BY DEF Due
<1>2. Len(won) \in Nat
  BY DEF RecordsKept
<1>3. IsFiniteSet(1..Len(won))
  BY <1>2, FS_Interval
<1>. QED BY <1>1, <1>3, FS_Subset

LEMMA KeysOfRecords ==
    ASSUME NEW r \in Records
    PROVE  KeyOf(r) \in Keys /\ r.price \in Nat
BY DEF Records, KeyOf, Keys

LEMMA InitWay == RCInit => WayInv /\ CountInv
<1>. SUFFICES ASSUME RCInit PROVE WayInv /\ CountInv
  OBVIOUS
<1>1. RecordsKept
  BY RecordCountAssumption DEF RCInit, RecordsKept
<1>2. MakingIds = {} /\ QueueIds = {} /\ OnTheWay("bids") = {} /\ OnTheWay("spent") = {}
  BY DEF RCInit, MakingIds, QueueIds, OnTheWay
<1>3. EachOnce
  BY <1>2 DEF RCInit, EachOnce
<1>4. LostForGood
  BY <1>2 DEF RCInit, LostForGood
<1>5. ASSUME NEW k \in Keys
      PROVE  bids[k] = Cardinality(Due("bids", k)) /\ spent[k] = Total(won, Due("spent", k))
  <2>1. Due("bids", k) = {} /\ Due("spent", k) = {}
    BY DEF RCInit, Due
  <2>2. won \in Seq(Records)
    BY <1>1 DEF RecordsKept
  <2>. QED BY <2>1, <2>2, TotalOfNone, FS_EmptySet DEF RCInit
<1>. QED BY <1>1, <1>3, <1>4, <1>5 DEF WayInv, CountInv, CountsAgree

\* What moves on without a command changes no counter.
LEMMA QuietCounts ==
    ASSUME CountInv, UNCHANGED <<won, bids, spent, lost>>,
           OnTheWay("bids")' = OnTheWay("bids"), OnTheWay("spent")' = OnTheWay("spent")
    PROVE  CountInv'
<1>1. LostForGood'
  BY DEF CountInv, LostForGood
<1>2. \A k \in Keys : Due("bids", k)' = Due("bids", k) /\ Due("spent", k)' = Due("spent", k)
  BY DueOf DEF KeyOf, Due
<1>3. CountsAgree'
  BY <1>2 DEF CountInv, CountsAgree
<1>. QED BY <1>1, <1>3 DEF CountInv

LEMMA QuietStep ==
    ASSUME WayInv, CountInv, UNCHANGED <<won, making, queue, one, bids, spent, lost>>,
           runFlag' \in BOOLEAN, day' \in 1..MaxDay,
           con' = con \/ (con \notin {"bid", "price", "lastBid", "lastPrice"} /\ con' \in {"drain", "done"})
    PROVE  WayInv' /\ CountInv'
<1>1. RecordsKept'
  BY DEF WayInv, RecordsKept, AsWon
<1>2. MakingIds' = MakingIds /\ QueueIds' = QueueIds
  BY DEF MakingIds, QueueIds
<1>3. EachOnce'
  BY <1>2 DEF WayInv, EachOnce
<1>4. OnTheWay("bids")' = OnTheWay("bids") /\ OnTheWay("spent")' = OnTheWay("spent")
  BY <1>2 DEF OnTheWay, WayInv, RecordsKept
<1>. QED BY <1>1, <1>3, <1>4, QuietCounts DEF WayInv

LEMMA IdsOnTheWay ==
    ASSUME RecordsKept
    PROVE  /\ MakingIds \subseteq 1..Len(won) /\ QueueIds \subseteq 1..Len(won)
           /\ one # None => one.id \in 1..Len(won)
<1>1. MakingIds \subseteq 1..Len(won)
  BY DEF RecordsKept, MakingIds, AsWon
<1>2. QueueIds \subseteq 1..Len(won)
  BY DEF RecordsKept, QueueIds, AsWon
<1>. QED BY <1>1, <1>2 DEF RecordsKept, AsWon

LEMMA MakeStep ==
    ASSUME WayInv, CountInv, NEW w \in Workers, Make(w)
    PROVE  WayInv' /\ CountInv'
<1>. DEFINE n == Len(won) + 1
<1>1. PICK p \in Policies, x \in Prices :
         /\ won' = Append(won, [id |-> n, pid |-> p, price |-> x, day |-> day])
         /\ making' = [making EXCEPT ![w] = [id |-> n, pid |-> p, price |-> x, day |-> day]]
  BY DEF Make
<1>. DEFINE r == [id |-> n, pid |-> p, price |-> x, day |-> day]
<1>2. making[w] = None /\ UNCHANGED <<runFlag, day, queue, con, one, bids, spent, lost>>
  BY DEF Make, redisVars
<1>. /\ won \in Seq(Records) /\ making \in [Workers -> Records \cup {None}] /\ day \in 1..MaxDay
     /\ Len(won) \in Nat /\ n <= MaxRecords /\ MaxRecords \in Nat
  <2>1. won \in Seq(Records) /\ making \in [Workers -> Records \cup {None}] /\ day \in 1..MaxDay
    BY DEF WayInv, RecordsKept
  <2>2. Len(won) \in Nat /\ Len(won) < MaxRecords
    BY <2>1 DEF Make
  <2>. QED BY <2>1, <2>2, Bounds
<1>3. r \in Records /\ r # None
  <2>1. x \in Nat /\ day \in 1..MaxDay /\ n \in Nat
    BY Bounds
  <2>2. r \in Records
    BY <2>1 DEF Records
  <2>. QED BY <2>2, Bounds
<1>4. won' = Append(won, r) /\ making' = [making EXCEPT ![w] = r]
  BY <1>1
<1>. HIDE DEF r
<1>5. /\ won' \in Seq(Records) /\ Len(won') = n /\ won'[n] = r /\ Len(won) \in Nat
      /\ \A i \in 1..Len(won) : won'[i] = won[i]
  BY <1>3, <1>4
<1>6. r.id = n
  BY DEF r
<1>7. \A q : AsWon(q) => q.id \in 1..Len(won') /\ won'[q.id] = q
  BY <1>5 DEF AsWon
<1>8. RecordsKept'
  <2>1. making' \in [Workers -> Records \cup {None}]
    BY <1>3, <1>4
  <2>2. \A i \in 1..Len(won') : won'[i].id = i
    <3>1. \A i \in 1..Len(won) : won[i].id = i
      BY DEF WayInv, RecordsKept
    <3>. QED BY <1>5, <1>6, <3>1
  <2>3. ASSUME NEW v \in Workers, making'[v] # None PROVE AsWon(making[v])'
    <3>1. CASE v = w
      BY <1>4, <1>5, <1>6, <3>1 DEF AsWon
    <3>2. CASE v # w
      <4>1. making'[v] = making[v] /\ AsWon(making[v])
        BY <1>4, <2>3, <3>2 DEF WayInv, RecordsKept
      <4>. QED BY <1>7, <4>1 DEF AsWon
    <3>. QED BY <3>1, <3>2
  <2>4. \A i \in 1..Len(queue) : AsWon(queue[i])
    BY DEF WayInv, RecordsKept
  <2>5. \A i \in 1..Len(queue') : queue'[i].id \in 1..Len(won') /\ won'[queue'[i].id] = queue'[i]
    BY <1>2, <1>7, <2>4
  <2>6. one # None => AsWon(one)
    BY DEF WayInv, RecordsKept
  <2>7. one' # None => one'.id \in 1..Len(won') /\ won'[one'.id] = one'
    BY <1>2, <1>7, <2>6
  <2>8. RecordsKept
    BY DEF WayInv
  <2>. QED BY <1>2, <1>5, <2>1, <2>2, <2>3, <2>5, <2>7, <2>8 DEF RecordsKept, AsWon
<1>9. MakingIds' = MakingIds \cup {n} /\ QueueIds' = QueueIds
  <2>1. QueueIds' = QueueIds
    BY <1>2 DEF QueueIds
  <2>2. MakingIds \cup {n} \subseteq MakingIds'
    <3>1. \A v \in Workers : making[v] # None => v # w /\ making'[v] = making[v]
      BY <1>2, <1>4
    <3>2. making'[w] = r
      BY <1>4
    <3>. QED BY <1>3, <1>6, <3>1, <3>2 DEF MakingIds
  <2>3. MakingIds' \subseteq MakingIds \cup {n}
    <3>1. \A v \in Workers : making'[v] = r \/ making'[v] = making[v]
      BY <1>4
    <3>. QED BY <1>6, <3>1 DEF MakingIds
  <2>. QED BY <2>1, <2>2, <2>3
<1>10. n \notin MakingIds \cup QueueIds /\ (one # None => one.id # n)
  <2>1. n \notin 1..Len(won)
    BY <1>5
  <2>. QED BY <2>1, IdsOnTheWay DEF WayInv
<1>11. EachOnce'
  <2>1. ASSUME NEW u \in Workers, NEW v \in Workers,
               making'[u] # None, making'[v] # None, making'[u].id = making'[v].id
        PROVE  u = v
    <3>1. \A z \in Workers : z # w => making'[z] = making[z] /\ (making[z] # None => making[z].id # n)
      BY <1>4, <1>10 DEF MakingIds
    <3>2. making'[w].id = n
      BY <1>4, <1>6
    <3>. QED BY <2>1, <3>1, <3>2 DEF WayInv, EachOnce
  <2>2. MakingIds' \cap QueueIds' = {} /\ (one # None => one.id \notin MakingIds' \cup QueueIds')
    BY <1>9, <1>10 DEF WayInv, EachOnce
  <2>. QED BY <1>2, <2>1, <2>2 DEF WayInv, EachOnce
<1>12. /\ OnTheWay("bids")' = OnTheWay("bids") \cup {n}
       /\ OnTheWay("spent")' = OnTheWay("spent") \cup {n}
  BY <1>2, <1>9 DEF OnTheWay
<1>13. LostForGood'
  <2>1. lost.bids \subseteq 1..Len(won) /\ lost.spent \subseteq 1..Len(won) /\ n \notin 1..Len(won)
    BY <1>5 DEF CountInv, LostForGood
  <2>2. 1..Len(won) \subseteq 1..Len(won')
    BY <1>5
  <2>. QED BY <1>2, <1>12, <2>1, <2>2 DEF CountInv, LostForGood
<1>14. ASSUME NEW k PROVE Due("bids", k)' = Due("bids", k) /\ Due("spent", k)' = Due("spent", k)
  <2>1. \A i \in 1..Len(won) : KeyOf(won[i])' = KeyOf(won[i])
    BY <1>5 DEF KeyOf
  <2>2. 1..Len(won') = (1..Len(won)) \cup {n}
    BY <1>5
  <2>3. n \notin 1..Len(won)
    BY <1>5
  <2>4. {i \in 1..Len(won) : KeyOf(won[i]) = k}' \ {n} = {i \in 1..Len(won) : KeyOf(won[i]) = k}
    BY <2>1, <2>2, <2>3
  <2>. QED BY <1>2, <1>12, <2>3, <2>4, DueOf DEF Due
<1>15. CountsAgree'
  <2>1. \A k \in Keys : Total(won', Due("spent", k)) = Total(won, Due("spent", k))
    BY <1>3, <1>4, DueIsFinite, TotalOfAppend DEF WayInv
  <2>. QED BY <1>2, <1>14, <2>1 DEF CountInv, CountsAgree
<1>. QED BY <1>8, <1>11, <1>13, <1>15 DEF WayInv, CountInv

LEMMA PushStep ==
    ASSUME WayInv, CountInv, NEW w \in Workers, Push(w)
    PROVE  WayInv' /\ CountInv'
<1>. DEFINE r == making[w]
           n == Len(queue) + 1
<1>1. /\ r # None /\ queue' = Append(queue, r) /\ making' = [making EXCEPT ![w] = None]
      /\ UNCHANGED <<runFlag, day, won, con, one, bids, spent, lost>>
  BY DEF Push, redisVars
<1>. /\ making \in [Workers -> Records \cup {None}] /\ queue \in Seq(Records) /\ Len(queue) \in Nat
  BY DEF WayInv, RecordsKept
<1>2. r \in Records /\ AsWon(r)
  <2>1. AsWon(r)
    BY <1>1 DEF WayInv, RecordsKept
  <2>. QED BY <1>1, <2>1
<1>. HIDE DEF r
<1>3. /\ queue' \in Seq(Records) /\ Len(queue') = n /\ queue'[n] = r
      /\ \A i \in 1..Len(queue) : queue'[i] = queue[i]
  BY <1>1, <1>2
<1>4. making'[w] = None /\ \A v \in Workers : v # w => making'[v] = making[v]
  BY <1>1
<1>5. RecordsKept'
  <2>1. making' \in [Workers -> Records \cup {None}]
    BY <1>1
  <2>2. \A v \in Workers : making'[v] # None => AsWon(making'[v])
    BY <1>4 DEF WayInv, RecordsKept
  <2>3. \A i \in 1..Len(queue') : AsWon(queue'[i])
    <3>1. \A i \in 1..Len(queue) : AsWon(queue[i])
      BY DEF WayInv, RecordsKept
    <3>. QED BY <1>2, <1>3, <3>1
  <2>4. RecordsKept
    BY DEF WayInv
  <2>. QED BY <1>1, <1>3, <2>1, <2>2, <2>3, <2>4 DEF RecordsKept, AsWon
<1>6. r.id \in MakingIds /\ r.id \notin QueueIds /\ (one # None => one.id # r.id)
  <2>1. r.id \in MakingIds
    BY <1>1 DEF MakingIds, r
  <2>. QED BY <2>1 DEF WayInv, EachOnce
<1>7. MakingIds' = MakingIds \ {r.id}
  <2>1. ASSUME NEW v \in Workers, v # w, making[v] # None PROVE making[v].id # r.id
    BY <1>1, <2>1 DEF WayInv, EachOnce, r
  <2>2. MakingIds' \subseteq MakingIds \ {r.id}
    BY <1>4, <2>1 DEF MakingIds
  <2>3. ASSUME NEW i \in MakingIds, i # r.id PROVE i \in MakingIds'
    <3>1. PICK v \in Workers : making[v] # None /\ making[v].id = i
      BY <2>3 DEF MakingIds
    <3>2. v # w
      BY <2>3, <3>1 DEF r
    <3>. QED BY <1>4, <3>1, <3>2 DEF MakingIds
  <2>. QED BY <2>2, <2>3
<1>8. QueueIds' = QueueIds \cup {r.id}
  <2>1. 1..Len(queue') = (1..Len(queue)) \cup {n} /\ n \in 1..Len(queue')
    BY <1>3
  <2>2. QueueIds' = {queue'[i].id : i \in (1..Len(queue)) \cup {n}}
    BY <2>1 DEF QueueIds
  <2>. QED BY <1>3, <2>2 DEF QueueIds
<1>9. EachOnce'
  <2>1. \A u, v \in Workers :
           making'[u] # None /\ making'[v] # None /\ making'[u].id = making'[v].id => u = v
    BY <1>4 DEF WayInv, EachOnce
  <2>2. ASSUME NEW i \in 1..n, NEW j \in 1..n, queue'[i].id = queue'[j].id PROVE i = j
    <3>1. \A l \in 1..Len(queue) : queue'[l].id = queue[l].id /\ queue[l].id # r.id
      BY <1>3, <1>6 DEF QueueIds
    <3>2. \A l \in 1..n : l = n \/ l \in 1..Len(queue)
      OBVIOUS
    <3>3. \A l, m \in 1..Len(queue) : queue[l].id = queue[m].id => l = m
      BY DEF WayInv, EachOnce
    <3>. QED BY <1>3, <2>2, <3>1, <3>2, <3>3
  <2>3. MakingIds' \cap QueueIds' = {} /\ (one # None => one.id \notin MakingIds' \cup QueueIds')
    BY <1>6, <1>7, <1>8 DEF WayInv, EachOnce
  <2>. QED BY <1>1, <1>3, <2>1, <2>2, <2>3 DEF EachOnce
<1>10. OnTheWay("bids")' = OnTheWay("bids") /\ OnTheWay("spent")' = OnTheWay("spent")
  BY <1>1, <1>6, <1>7, <1>8 DEF OnTheWay
<1>. QED BY <1>1, <1>5, <1>9, <1>10, QuietCounts DEF WayInv

LEMMA TakeStep ==
    ASSUME WayInv, CountInv, Take \/ DrainTake
    PROVE  WayInv' /\ CountInv'
<1>. DEFINE r == queue[1]
<1>1. /\ queue # <<>> /\ one' = Head(queue) /\ queue' = Tail(queue)
      /\ con \in {"loop", "drain"} /\ con' \in {"bid", "lastBid"}
      /\ UNCHANGED <<runFlag, day, won, making, bids, spent, lost>>
  BY DEF Take, DrainTake, redisVars
<1>. queue \in Seq(Records)
  BY DEF WayInv, RecordsKept
<1>2. /\ Len(queue) \in Nat \ {0} /\ Len(queue') = Len(queue) - 1 /\ queue' \in Seq(Records)
      /\ \A i \in 1..Len(queue') : i + 1 \in 1..Len(queue) /\ queue'[i] = queue[i + 1]
      /\ one' = r /\ r \in Records /\ 1 \in 1..Len(queue)
  BY <1>1
<1>3. one = None /\ r # None /\ AsWon(r)
  <2>1. one = None
    BY <1>1 DEF WayInv, RecordsKept
  <2>2. AsWon(r)
    BY <1>2 DEF WayInv, RecordsKept
  <2>. QED BY <1>2, <2>1, <2>2, Bounds
<1>4. RecordsKept'
  <2>1. \A i \in 1..Len(queue') : AsWon(queue'[i])
    <3>1. \A i \in 1..Len(queue) : AsWon(queue[i])
      BY DEF WayInv, RecordsKept
    <3>. QED BY <1>2, <3>1
  <2>2. RecordsKept
    BY DEF WayInv
  <2>3. one' \in Records \cup {None} /\ one' # None /\ AsWon(one')
    BY <1>2, <1>3
  <2>. QED BY <1>1, <1>2, <2>1, <2>2, <2>3 DEF RecordsKept, AsWon
<1>5. \A i \in 1..Len(queue') : queue'[i].id # r.id
  <2>1. \A i, j \in 1..Len(queue) : queue[i].id = queue[j].id => i = j
    BY DEF WayInv, EachOnce
  <2>. QED BY <1>2, <2>1
<1>6. MakingIds' = MakingIds
  BY <1>1 DEF MakingIds
<1>7. QueueIds' = QueueIds \ {r.id} /\ r.id \in QueueIds
  <2>1. QueueIds' \subseteq QueueIds \ {r.id}
    BY <1>2, <1>5 DEF QueueIds
  <2>2. ASSUME NEW x \in QueueIds, x # r.id PROVE x \in QueueIds'
    <3>1. PICK i \in 1..Len(queue) : queue[i].id = x
      BY DEF QueueIds
    <3>2. i # 1 /\ i - 1 \in 1..Len(queue') /\ (i - 1) + 1 = i
      BY <1>2, <2>2, <3>1
    <3>3. queue'[i - 1].id = x
      BY <1>2, <3>1, <3>2
    <3>. QED BY <3>2, <3>3 DEF QueueIds
  <2>3. r.id \in QueueIds
    BY <1>2 DEF QueueIds
  <2>. QED BY <2>1, <2>2, <2>3
<1>8. EachOnce'
  <2>1. \A i, j \in 1..Len(queue') : queue'[i].id = queue'[j].id => i = j
    <3>1. \A i, j \in 1..Len(queue) : queue[i].id = queue[j].id => i = j
      BY DEF WayInv, EachOnce
    <3>2. \A i, j \in 1..Len(queue') : i + 1 = j + 1 => i = j
      BY <1>2
    <3>. QED BY <1>2, <3>1, <3>2
  <2>2. MakingIds' \cap QueueIds' = {} /\ one'.id \notin MakingIds' \cup QueueIds'
    BY <1>2, <1>6, <1>7 DEF WayInv, EachOnce
  <2>. QED BY <1>1, <2>1, <2>2 DEF WayInv, EachOnce
<1>9. OnTheWay("bids")' = OnTheWay("bids") /\ OnTheWay("spent")' = OnTheWay("spent")
  BY <1>1, <1>2, <1>3, <1>6, <1>7 DEF OnTheWay
<1>. QED BY <1>1, <1>4, <1>8, <1>9, QuietCounts DEF WayInv

LEMMA CountBidWay ==
    ASSUME WayInv, CountBid
    PROVE  /\ WayInv' /\ one # None /\ one \in Records /\ AsWon(one) /\ won \in Seq(Records)
           /\ one.id \in OnTheWay("bids") /\ OnTheWay("bids")' = OnTheWay("bids") \ {one.id}
           /\ OnTheWay("spent")' = OnTheWay("spent")
           /\ UNCHANGED <<won, spent>>
<1>1. /\ con \in {"bid", "lastBid"} /\ con' \in {"price", "lastPrice"}
      /\ UNCHANGED <<runFlag, day, won, making, queue, spent>>
      /\ UNCHANGED one
  BY DEF CountBid
<1>2. /\ one # None /\ one \in Records /\ AsWon(one) /\ won \in Seq(Records)
      /\ bids \in [Keys -> Nat] /\ spent \in [Keys -> Nat]
      /\ lost \in [bids : SUBSET Nat, spent : SUBSET Nat]
  BY <1>1 DEF WayInv, RecordsKept
<1>3. one.id \in Nat /\ one.price \in Nat
  BY <1>2 DEF Records
<1>4. MakingIds' = MakingIds /\ QueueIds' = QueueIds /\ one.id \notin MakingIds \cup QueueIds
  BY <1>1, <1>2 DEF MakingIds, QueueIds, WayInv, EachOnce
<1>5. bids' \in [Keys -> Nat] /\ lost' \in [bids : SUBSET Nat, spent : SUBSET Nat]
  <2>1. CASE bids' = [bids EXCEPT ![KeyOf(one)] = @ + 1] /\ UNCHANGED lost
    BY <1>2, <1>3, <2>1, KeysOfRecords
  <2>2. CASE lost' = [lost EXCEPT !.bids = @ \cup {one.id}] /\ UNCHANGED bids
    BY <1>2, <1>3, <2>2
  <2>. QED BY <2>1, <2>2 DEF CountBid
<1>6. RecordsKept'
  <2>1. RecordsKept
    BY DEF WayInv
  <2>. QED BY <1>1, <1>2, <1>5, <2>1 DEF RecordsKept, AsWon
<1>7. EachOnce'
  BY <1>1, <1>2, <1>4 DEF WayInv, EachOnce
<1>8. /\ one.id \in OnTheWay("bids") /\ OnTheWay("bids")' = OnTheWay("bids") \ {one.id}
      /\ OnTheWay("spent")' = OnTheWay("spent")
  BY <1>1, <1>2, <1>4 DEF OnTheWay
<1>. QED BY <1>1, <1>2, <1>6, <1>7, <1>8 DEF WayInv

LEMMA CountBidStep ==
    ASSUME WayInv, CountInv, CountBid
    PROVE  WayInv' /\ CountInv'
<1>1. /\ WayInv' /\ one # None /\ one \in Records /\ AsWon(one) /\ won \in Seq(Records)
      /\ one.id \in OnTheWay("bids") /\ OnTheWay("bids")' = OnTheWay("bids") \ {one.id}
      /\ OnTheWay("spent")' = OnTheWay("spent")
      /\ UNCHANGED <<won, spent>>
  BY CountBidWay
<1>2. /\ lost \in [bids : SUBSET Nat, spent : SUBSET Nat] /\ bids \in [Keys -> Nat]
      /\ KeyOf(one) \in Keys /\ one.price \in Nat
  BY <1>1, KeysOfRecords DEF WayInv, RecordsKept
<1>3. one.id \in 1..Len(won) /\ won[one.id] = one /\ one.id \notin lost.bids
  BY <1>1 DEF AsWon, CountInv, LostForGood
<1>4. ASSUME lost'.spent = lost.spent, NEW k
      PROVE  Due("spent", k)' = Due("spent", k)
  BY <1>1, <1>4, DueOf DEF Due, KeyOf
<1>5. CASE bids' = [bids EXCEPT ![KeyOf(one)] = @ + 1] /\ UNCHANGED lost
  <2>1. LostForGood'
    BY <1>1, <1>5 DEF CountInv, LostForGood
  <2>2. ASSUME NEW k
        PROVE  /\ Due("bids", k)' = IF k = KeyOf(one) THEN Due("bids", k) \cup {one.id} ELSE Due("bids", k)
               /\ one.id \notin Due("bids", k)
    <3>. DEFINE Of == {i \in 1..Len(won) : KeyOf(won[i]) = k}
    <3>1. Due("bids", k)' = Of \ ((OnTheWay("bids") \ {one.id}) \cup lost.bids)
      BY <1>1, <1>5 DEF Due, KeyOf
    <3>2. Due("bids", k) = Of \ (OnTheWay("bids") \cup lost.bids)
      BY DueOf
    <3>3. one.id \in Of <=> k = KeyOf(one)
      BY <1>3
    <3>. HIDE DEF Of
    <3>. QED BY <1>1, <1>3, <3>1, <3>2, <3>3
  <2>3. ASSUME NEW k \in Keys
        PROVE  bids'[k] = Cardinality(Due("bids", k)')
    <3>1. bids[k] = Cardinality(Due("bids", k))
      BY DEF CountInv, CountsAgree
    <3>2. CASE k = KeyOf(one)
      <4>1. bids'[k] = bids[k] + 1
        BY <1>2, <1>5, <3>2
      <4>. QED BY <1>1, <2>2, <3>1, <3>2, <4>1, DueIsFinite, FS_AddElement DEF WayInv
    <3>3. CASE k # KeyOf(one)
      BY <1>1, <1>2, <1>5, <2>2, <3>1, <3>3
    <3>. QED BY <3>2, <3>3
  <2>4. CountsAgree'
    BY <1>1, <1>4, <1>5, <2>3 DEF CountInv, CountsAgree
  <2>. QED BY <1>1, <2>1, <2>4 DEF CountInv
<1>6. CASE lost' = [lost EXCEPT !.bids = @ \cup {one.id}] /\ UNCHANGED bids
  <2>1. lost'.bids = lost.bids \cup {one.id} /\ lost'.spent = lost.spent
    BY <1>2, <1>6
  <2>2. LostForGood'
    BY <1>1, <1>3, <2>1 DEF CountInv, LostForGood
  <2>3. ASSUME NEW k PROVE Due("bids", k)' = Due("bids", k)
    <3>. DEFINE Of == {i \in 1..Len(won) : KeyOf(won[i]) = k}
    <3>1. Due("bids", k)' = Of \ ((OnTheWay("bids") \ {one.id}) \cup lost.bids \cup {one.id})
      BY <1>1, <2>1 DEF Due, KeyOf
    <3>2. Due("bids", k) = Of \ (OnTheWay("bids") \cup lost.bids)
      BY DueOf
    <3>. HIDE DEF Of
    <3>. QED BY <1>1, <3>1, <3>2
  <2>4. CountsAgree'
    BY <1>1, <1>4, <1>6, <2>1, <2>3 DEF CountInv, CountsAgree
  <2>. QED BY <1>1, <2>2, <2>4 DEF CountInv
<1>. QED BY <1>5, <1>6 DEF CountBid

LEMMA CountPriceWay ==
    ASSUME WayInv, CountPrice
    PROVE  /\ WayInv' /\ one # None /\ one \in Records /\ AsWon(one) /\ won \in Seq(Records)
           /\ one.id \in OnTheWay("spent") /\ OnTheWay("spent")' = OnTheWay("spent") \ {one.id}
           /\ OnTheWay("bids")' = OnTheWay("bids")
           /\ UNCHANGED <<won, bids>>
<1>1. /\ con \in {"price", "lastPrice"} /\ con' \in {"loop", "drain"}
      /\ UNCHANGED <<runFlag, day, won, making, queue, bids>>
      /\ one' = None
  BY DEF CountPrice
<1>2. /\ one # None /\ one \in Records /\ AsWon(one) /\ won \in Seq(Records)
      /\ bids \in [Keys -> Nat] /\ spent \in [Keys -> Nat]
      /\ lost \in [bids : SUBSET Nat, spent : SUBSET Nat]
  BY <1>1 DEF WayInv, RecordsKept
<1>3. one.id \in Nat /\ one.price \in Nat
  BY <1>2 DEF Records
<1>4. MakingIds' = MakingIds /\ QueueIds' = QueueIds /\ one.id \notin MakingIds \cup QueueIds
  BY <1>1, <1>2 DEF MakingIds, QueueIds, WayInv, EachOnce
<1>5. spent' \in [Keys -> Nat] /\ lost' \in [bids : SUBSET Nat, spent : SUBSET Nat]
  <2>1. CASE spent' = [spent EXCEPT ![KeyOf(one)] = @ + one.price] /\ UNCHANGED lost
    BY <1>2, <1>3, <2>1, KeysOfRecords
  <2>2. CASE lost' = [lost EXCEPT !.spent = @ \cup {one.id}] /\ UNCHANGED spent
    BY <1>2, <1>3, <2>2
  <2>. QED BY <2>1, <2>2 DEF CountPrice
<1>6. RecordsKept'
  <2>1. RecordsKept
    BY DEF WayInv
  <2>. QED BY <1>1, <1>2, <1>5, <2>1 DEF RecordsKept, AsWon
<1>7. EachOnce'
  BY <1>1, <1>2, <1>4 DEF WayInv, EachOnce
<1>8. /\ one.id \in OnTheWay("spent") /\ OnTheWay("spent")' = OnTheWay("spent") \ {one.id}
      /\ OnTheWay("bids")' = OnTheWay("bids")
  BY <1>1, <1>2, <1>4 DEF OnTheWay
<1>. QED BY <1>1, <1>2, <1>6, <1>7, <1>8 DEF WayInv

LEMMA CountPriceStep ==
    ASSUME WayInv, CountInv, CountPrice
    PROVE  WayInv' /\ CountInv'
<1>1. /\ WayInv' /\ one # None /\ one \in Records /\ AsWon(one) /\ won \in Seq(Records)
      /\ one.id \in OnTheWay("spent") /\ OnTheWay("spent")' = OnTheWay("spent") \ {one.id}
      /\ OnTheWay("bids")' = OnTheWay("bids")
      /\ UNCHANGED <<won, bids>>
  BY CountPriceWay
<1>2. /\ lost \in [bids : SUBSET Nat, spent : SUBSET Nat] /\ spent \in [Keys -> Nat]
      /\ KeyOf(one) \in Keys /\ one.price \in Nat
  BY <1>1, KeysOfRecords DEF WayInv, RecordsKept
<1>3. one.id \in 1..Len(won) /\ won[one.id] = one /\ one.id \notin lost.spent
  BY <1>1 DEF AsWon, CountInv, LostForGood
<1>4. ASSUME lost'.bids = lost.bids, NEW k
      PROVE  Due("bids", k)' = Due("bids", k)
  BY <1>1, <1>4, DueOf DEF Due, KeyOf
<1>5. CASE spent' = [spent EXCEPT ![KeyOf(one)] = @ + one.price] /\ UNCHANGED lost
  <2>1. LostForGood'
    BY <1>1, <1>5 DEF CountInv, LostForGood
  <2>2. ASSUME NEW k
        PROVE  /\ Due("spent", k)' = IF k = KeyOf(one) THEN Due("spent", k) \cup {one.id} ELSE Due("spent", k)
               /\ one.id \notin Due("spent", k)
    <3>. DEFINE Of == {i \in 1..Len(won) : KeyOf(won[i]) = k}
    <3>1. Due("spent", k)' = Of \ ((OnTheWay("spent") \ {one.id}) \cup lost.spent)
      BY <1>1, <1>5 DEF Due, KeyOf
    <3>2. Due("spent", k) = Of \ (OnTheWay("spent") \cup lost.spent)
      BY DueOf
    <3>3. one.id \in Of <=> k = KeyOf(one)
      BY <1>3
    <3>. HIDE DEF Of
    <3>. QED BY <1>1, <1>3, <3>1, <3>2, <3>3
  <2>3. ASSUME NEW k \in Keys
        PROVE  spent'[k] = Total(won, Due("spent", k)')
    <3>1. spent[k] = Total(won, Due("spent", k))
      BY DEF CountInv, CountsAgree
    <3>2. CASE k = KeyOf(one)
      <4>1. spent'[k] = spent[k] + one.price
        BY <1>2, <1>5, <3>2
      <4>. QED BY <1>1, <1>3, <2>2, <3>1, <3>2, <4>1, TotalOfOneMore
    <3>3. CASE k # KeyOf(one)
      BY <1>1, <1>2, <1>5, <2>2, <3>1, <3>3
    <3>. QED BY <3>2, <3>3
  <2>4. CountsAgree'
    BY <1>1, <1>4, <1>5, <2>3 DEF CountInv, CountsAgree
  <2>. QED BY <1>1, <2>1, <2>4 DEF CountInv
<1>6. CASE lost' = [lost EXCEPT !.spent = @ \cup {one.id}] /\ UNCHANGED spent
  <2>1. lost'.spent = lost.spent \cup {one.id} /\ lost'.bids = lost.bids
    BY <1>2, <1>6
  <2>2. LostForGood'
    BY <1>1, <1>3, <2>1 DEF CountInv, LostForGood
  <2>3. ASSUME NEW k PROVE Due("spent", k)' = Due("spent", k)
    <3>. DEFINE Of == {i \in 1..Len(won) : KeyOf(won[i]) = k}
    <3>1. Due("spent", k)' = Of \ ((OnTheWay("spent") \ {one.id}) \cup lost.spent \cup {one.id})
      BY <1>1, <2>1 DEF Due, KeyOf
    <3>2. Due("spent", k) = Of \ (OnTheWay("spent") \cup lost.spent)
      BY DueOf
    <3>. HIDE DEF Of
    <3>. QED BY <1>1, <3>1, <3>2
  <2>4. CountsAgree'
    BY <1>1, <1>4, <1>6, <2>1, <2>3 DEF CountInv, CountsAgree
  <2>. QED BY <1>1, <2>2, <2>4 DEF CountInv
<1>. QED BY <1>5, <1>6 DEF CountPrice

LEMMA Counting == RCSpec => [](WayInv /\ CountInv)
<1>1. WayInv /\ CountInv /\ [RCNext]_rcVars => (WayInv /\ CountInv)'
  <2>. SUFFICES ASSUME WayInv, CountInv, [RCNext]_rcVars PROVE WayInv' /\ CountInv'
    OBVIOUS
  <2>1. CASE Take
    BY <2>1, TakeStep
  <2>2. CASE CountBid
    BY <2>2, CountBidStep
  <2>3. CASE CountPrice
    BY <2>3, CountPriceStep
  <2>4. CASE DrainTake
    BY <2>4, TakeStep
  <2>. runFlag \in BOOLEAN /\ day \in 1..MaxDay
    BY DEF WayInv, RecordsKept
  <2>5. CASE LoopEnds
    BY <2>5, QuietStep DEF LoopEnds, redisVars
  <2>6. CASE DrainEnd
    BY <2>6, QuietStep DEF DrainEnd, redisVars
  <2>7. CASE Midnight
    <3>1. day' \in 1..MaxDay
      BY <2>7, Bounds DEF Midnight
    <3>. QED BY <2>7, <3>1, QuietStep DEF Midnight, redisVars
  <2>8. CASE StopBid
    BY <2>8, QuietStep DEF StopBid, redisVars
  <2>9. ASSUME NEW w \in Workers, AddRecord(w) PROVE WayInv' /\ CountInv'
    BY <2>9, MakeStep, PushStep DEF AddRecord
  <2>10. CASE UNCHANGED rcVars
    BY <2>10, QuietStep DEF rcVars, redisVars
  <2>. QED BY <2>1, <2>2, <2>3, <2>4, <2>5, <2>6, <2>7, <2>8, <2>9, <2>10 DEF RCNext, run
<1>. QED BY InitWay, <1>1, PTL DEF RCSpec

\* The variables keep their shape, and a record is passed on as it was made.
THEOREM RecordsStayAsWon == RCSpec => []RCTypeOK
<1>1. WayInv => RCTypeOK
  BY KeptType DEF WayInv
<1>. QED BY <1>1, Counting, PTL

\* Each counter is the number, or the sum of the prices, of its bids.
THEOREM CountersAreRight == RCSpec => []CountsAgree
<1>1. CountInv => CountsAgree
  BY DEF CountInv
<1>. QED BY <1>1, Counting, PTL
-----------------------------------------------------------------------------
(* Why a record is tried, and why the thread comes to an end. *)

\* The steps of the thread until it takes the record at place i, at most.
StepsToTurn(i) ==
    3 * i + (CASE con = "bid" -> 3 [] con = "lastBid" \/ con = "price" -> 2
               [] con = "loop" \/ con = "lastPrice" -> 1 [] OTHER -> 0)

\* Every step of the thread takes the first record or brings each that waits
\* nearer to its turn; nothing else that happens moves any of them.
RecordsMoveUp ==
    con # "done" => \A i \in 1..Len(queue) :
        IF run
        THEN \/ i = 1 /\ one' = queue[1]
             \/ \E j \in 1..Len(queue') : queue'[j] = queue[i] /\ StepsToTurn(j)' < StepsToTurn(i)
        ELSE i <= Len(queue') /\ queue'[i] = queue[i] /\ StepsToTurn(i)' = StepsToTurn(i)

\* The steps that are left of the loop after the stop, and those of the drain.
LoopLeft == CASE con = "bid" -> 3 [] con = "price" -> 2 [] con = "loop" -> 1 [] OTHER -> 0
DrainLeft ==
    3 * Len(queue) + (CASE con = "lastBid" -> 3 [] con = "lastPrice" -> 2 [] con = "drain" -> 1 [] OTHER -> 0)

\* After the stop every step of the thread brings it nearer to its end; until
\* it has left the loop workers may push, and then the lock keeps them out.
ThreadGetsOn ==
    ~runFlag /\ con # "done" =>
        IF run THEN LoopLeft' < LoopLeft \/ (LoopLeft' = LoopLeft /\ DrainLeft' < DrainLeft)
               ELSE LoopLeft' = LoopLeft /\ (LoopLeft = 0 => DrainLeft' = DrainLeft)

\* A record is tried as soon as the records before it are, and no later: the
\* thread never gives one back, and those that are pushed come behind it.
THEOREM RecordsComeUp == RCSpec => [][RecordsMoveUp]_rcVars
<1>1. RecordsKept /\ [RCNext]_rcVars => [RecordsMoveUp]_rcVars
  <2>. SUFFICES ASSUME RecordsKept, RCNext, con # "done", NEW i \in 1..Len(queue)
                PROVE  IF run
                       THEN \/ i = 1 /\ one' = queue[1]
                            \/ \E j \in 1..Len(queue') : queue'[j] = queue[i] /\ StepsToTurn(j)' < StepsToTurn(i)
                       ELSE i <= Len(queue') /\ queue'[i] = queue[i] /\ StepsToTurn(i)' = StepsToTurn(i)
    BY DEF RecordsMoveUp
  <2>1. queue \in Seq(Records) /\ Len(queue) \in Nat /\ i \in Nat
    BY DEF RecordsKept
  <2>2. CASE Take \/ DrainTake
    <3>1. /\ queue # <<>> /\ one' = Head(queue) /\ queue' = Tail(queue)
          /\ \/ con = "loop" /\ con' = "bid"
             \/ con = "drain" /\ con' = "lastBid"
      BY <2>2 DEF Take, DrainTake
    <3>2. CASE i = 1
      BY <2>1, <2>2, <3>1, <3>2 DEF run
    <3>3. CASE i # 1
      <4>1. i - 1 \in 1..Len(Tail(queue)) /\ Tail(queue)[i - 1] = queue[i]
        BY <2>1, <3>1, <3>3
      <4>2. StepsToTurn(i - 1)' < StepsToTurn(i)
        BY <2>1, <3>1 DEF StepsToTurn
      <4>. QED BY <2>2, <3>1, <4>1, <4>2 DEF run
    <3>. QED BY <3>2, <3>3
  <2>3. CASE CountBid \/ CountPrice \/ LoopEnds
    <3>1. /\ queue' = queue
          /\ \/ con = "bid" /\ con' = "price"
             \/ con = "lastBid" /\ con' = "lastPrice"
             \/ con = "price" /\ con' = "loop"
             \/ con = "lastPrice" /\ con' = "drain"
             \/ con = "loop" /\ con' = "drain"
      BY <2>3 DEF CountBid, CountPrice, LoopEnds
    <3>2. StepsToTurn(i)' < StepsToTurn(i)
      BY <2>1, <3>1 DEF StepsToTurn
    <3>. QED BY <2>3, <3>1, <3>2 DEF run
  <2>4. CASE ~run
    <3>1. /\ con' = con
          /\ queue' = queue \/ \E w \in Workers : making[w] # None /\ queue' = Append(queue, making[w])
      BY <2>4 DEF RCNext, Midnight, StopBid, AddRecord, Make, Push
    <3>2. \A w \in Workers : making[w] # None => making[w] \in Records
      BY DEF RecordsKept
    <3>3. i <= Len(queue') /\ queue'[i] = queue[i]
      BY <2>1, <3>1, <3>2
    <3>. QED BY <2>4, <3>1, <3>3 DEF StepsToTurn
  <2>. QED BY <2>1, <2>2, <2>3, <2>4 DEF run, DrainEnd
<1>2. RCSpec => []RecordsKept
  BY Counting, PTL DEF WayInv
<1>. QED BY <1>1, <1>2, PTL DEF RCSpec

\* The thread ends after the stop, unless it waits for a connection: the loop
\* is left after the record in hand, and the drain meets no new records.
THEOREM ThreadComesToEnd == RCSpec => [][ThreadGetsOn]_rcVars
<1>1. RecordsKept /\ [RCNext]_rcVars => [ThreadGetsOn]_rcVars
  <2>. SUFFICES ASSUME RecordsKept, RCNext, ~runFlag, con # "done"
                PROVE  IF run THEN LoopLeft' < LoopLeft \/ (LoopLeft' = LoopLeft /\ DrainLeft' < DrainLeft)
                              ELSE LoopLeft' = LoopLeft /\ (LoopLeft = 0 => DrainLeft' = DrainLeft)
    BY DEF ThreadGetsOn
  <2>1. queue \in Seq(Records) /\ Len(queue) \in Nat
    BY DEF RecordsKept
  <2>2. CASE DrainTake
    <3>1. queue # <<>> /\ queue' = Tail(queue) /\ con = "drain" /\ con' = "lastBid"
      BY <2>2 DEF DrainTake
    <3>2. Len(queue') = Len(queue) - 1
      BY <2>1, <3>1
    <3>. QED BY <2>1, <2>2, <3>1, <3>2 DEF LoopLeft, DrainLeft, run
  <2>3. CASE CountBid \/ CountPrice \/ LoopEnds \/ DrainEnd
    <3>1. /\ queue' = queue
          /\ \/ con = "bid" /\ con' = "price"
             \/ con = "lastBid" /\ con' = "lastPrice"
             \/ con = "price" /\ con' = "loop"
             \/ con = "lastPrice" /\ con' = "drain"
             \/ con = "loop" /\ con' = "drain"
             \/ con = "drain" /\ con' = "done"
      BY <2>3 DEF CountBid, CountPrice, LoopEnds, DrainEnd
    <3>. QED BY <2>1, <2>3, <3>1 DEF LoopLeft, DrainLeft, run
  <2>4. CASE ~run
    <3>1. con' = con /\ (queue' = queue \/ ~LockHeld)
      BY <2>4 DEF RCNext, Midnight, StopBid, AddRecord, Make, Push
    <3>2. LoopLeft = 0 => LockHeld
      BY DEF LoopLeft, LockHeld, RecordsKept
    <3>. QED BY <2>4, <3>1, <3>2 DEF LoopLeft, DrainLeft
  <2>. QED BY <2>2, <2>3, <2>4 DEF run, Take
<1>2. RCSpec => []RecordsKept
  BY Counting, PTL DEF WayInv
<1>. QED BY <1>1, <1>2, PTL DEF RCSpec
==============================================================================
