---------------------------- MODULE ClusterClient ----------------------------
(***************************************************************************)
(* The client of the Redis cluster (common/xRedis/xRedisClusterClient.cpp) *)
(* under its two users: a worker (BidWork), which reads what is known of a *)
(* device and writes a flag for each bid, and the counter thread           *)
(* (RecordCount).  Each of them has a client of its own with one           *)
(* connection to each node, so the module describes one client.            *)
(*                                                                         *)
(* The client asks the cluster for its layout when it connects, and sends  *)
(* a command to the node that had the slot of the key by then.  Slots move *)
(* and nodes come and go meanwhile; a node answers a command for a slot it *)
(* does not have with an error.  Only SetBidRedisFlag then connects anew.  *)
(***************************************************************************)
EXTENDS Naturals, FiniteSets, Sequences

CONSTANTS Servers,    \* bound: the Redis servers of the cluster
          LastSlot,   \* bound: the highest slot: 16383
          Layouts,    \* bound: who may have the slots in the beginning
          MaxEvents   \* bound: how much happens to the cluster

Slots == 0..LastSlot

ASSUME ClusterAssumption ==
    /\ IsFiniteSet(Servers)
    /\ LastSlot \in Nat
    /\ Layouts \subseteq [Slots -> Servers]
    /\ MaxEvents \in Nat

Operations == [worker |-> {"device", "flag"}, counter |-> {"count"}]

VARIABLES
    user,      \* whose client this is
    owner,     \* the server that has each slot
    masters,   \* the servers that CLUSTER NODES lists as masters
    moving,    \* the slots that are on their way to another server
    up,        \* the servers that run
    nodes,     \* vNodes: the servers and their slots, as they were listed
    conns,     \* mRedisConnList: the connection to each of the nodes
    ready,     \* whether the lists and their locks exist
    pc,        \* where the user is
    job,       \* what it does, and the slot of the key
    outcome,   \* what SetBidRedisFlag has returned: are the bids answered?
    stored,    \* history: a server that has the slot has carried the call out
    events,    \* how much has happened to the cluster
    trouble    \* history: something broke, or a master was without slots

cluster == <<owner, masters, moving, up, events>>
client == <<nodes, conns, ready>>
call == <<pc, job, outcome, stored>>
vars == <<user, cluster, client, call, trouble>>

SlotsOf(n) == {s \in Slots : owner[s] = n}

Owners == {owner[s] : s \in Slots}

\* The masters that are listed without slots: new ones, emptied ones, and
\* those that failed and were replaced.
Empty == {n \in masters : SlotsOf(n) = {}}

\* Seeded fault: the last slot of a range is left out.
HalfOpenRange(n) ==
    {s \in SlotsOf(n) : s + 1 \in SlotsOf(n) /\ \A a \in SlotsOf(n) : a <= s => a..s \subseteq SlotsOf(n)}

\* ParseSlotString is given the first range of the line only.
FirstRange(n) == {s \in SlotsOf(n) : \A a \in SlotsOf(n) : a <= s => a..s \subseteq SlotsOf(n)}

\* The lines of the masters come in any order.
Orders ==
    {order \in [1..Cardinality(masters) -> masters] :
        \A i, j \in DOMAIN order : order[i] = order[j] => i = j}

NodesIn(order) ==
    [i \in DOMAIN order |-> [server |-> order[i], slots |-> FirstRange(order[i])]]

ConnectRedisNode(node) == IF node.server \in up THEN "sound" ELSE "none"

\* The client has connected, or its process would have ended.
Init ==
    /\ user \in DOMAIN Operations
    /\ owner \in Layouts /\ masters = Owners /\ moving = {}
    /\ up \in SUBSET Servers \ {{}}
    /\ events = 0 /\ trouble = (up # Servers)
    /\ \E order \in Orders : nodes = NodesIn(order)
    /\ conns = [i \in DOMAIN nodes |-> ConnectRedisNode(nodes[i])]
    /\ ready = TRUE
    /\ pc = "idle" /\ job = [op |-> "none", slot |-> 0]
    /\ outcome = "none" /\ stored = FALSE

\* The node of a slot: the first one when no node seems to have it.
FindNodeIndex(slot) ==
    IF \E i \in DOMAIN nodes : slot \in nodes[i].slots
    THEN CHOOSE i \in DOMAIN nodes : slot \in nodes[i].slots ELSE 1
------------------------------------------------------------------------------
(* Seeded faults: wrong variants of the definitions below, each of which    *)
(* must break a property.                                                   *)

\* The flag counts as set unless the reply is an error.
VerdictOfAny(reply) == IF reply # "error" THEN "answered" ELSE "dropped"

\* SetBidRedisFlag tries again as long as it gets an error.
AfterRetry(reply) ==
    IF job.op = "count" THEN "idle"
    ELSE IF pc = "send" /\ reply = "none" THEN "crashed"
    ELSE IF job.op = "flag" /\ reply = "error" THEN "reconnect"
    ELSE "idle"

\* Only the node that was asked gets its connection.
ReconnectFirstOnly ==
    /\ pc = "reconnect" /\ conns[1] # "none"
    /\ nodes[1].server \in up /\ Empty = {}
    /\ \E order \in Orders : nodes' = NodesIn(order)
    /\ conns' = [i \in DOMAIN nodes' |-> IF nodes'[i].server = nodes[1].server THEN "sound" ELSE "none"]
    /\ pc' = "again"
    /\ UNCHANGED <<user, cluster, ready, job, outcome, stored, trouble>>
------------------------------------------------------------------------------
(* The users *)

\* The worker and the counter ask for something when there is a request.
Ask ==
    /\ pc = "idle"
    /\ \E op \in Operations[user], s \in Slots : job' = [op |-> op, slot |-> s]
    /\ pc' = "send"
    /\ outcome' = "none" /\ stored' = FALSE
    /\ UNCHANGED <<user, cluster, client, trouble>>

\* Where the user goes with a reply.  A worker looks at its type without
\* asking whether there is one; a result that an error was put into keeps it.
After(reply) ==
    IF job.op = "count" THEN "idle"
    ELSE IF pc = "send" /\ reply = "none" THEN "crashed"
    ELSE IF job.op = "flag" /\ pc = "send" /\ reply = "error" THEN "reconnect"
    ELSE "idle"

\* What SetBidRedisFlag returns.
Verdict(reply) == IF reply = "ok" THEN "answered" ELSE "dropped"

\* The command was sent and has come to this.
Replied(reply) ==
    /\ pc' = After(reply)
    /\ outcome' = IF job.op = "flag" /\ pc' = "idle" THEN Verdict(reply) ELSE "none"
    /\ UNCHANGED <<user, cluster, client, job, trouble>>

\* RedisCommand sends the command to the node that it takes for the slot's.
Node == FindNodeIndex(job.slot)
Sends(state) == pc \in {"send", "again"} /\ ready /\ conns[Node] = state

\* The server has the slot and carries the command out.
CommandDone ==
    /\ Sends("sound")
    /\ owner[job.slot] = nodes[Node].server
    /\ stored' = TRUE
    /\ Replied("ok")

\* MOVED, ASK while the slot is on its way, or CLUSTERDOWN.
CommandRefused ==
    /\ Sends("sound")
    /\ \/ owner[job.slot] # nodes[Node].server
       \/ job.slot \in moving
       \/ ~(Owners \subseteq up)
    /\ Replied("error") /\ UNCHANGED stored

\* The connection was lost; it goes back to its list as it is.
NoReply == Sends("broken") /\ Replied("none") /\ UNCHANGED stored

\* GetConnection waits as long as the list is empty: nobody fills it.
Waiting ==
    \/ Sends("none")
    \/ pc = "reconnect" /\ conns[1] = "none"

\* After a reconnect that failed there is no list and no lock to look at.
Unconnected ==
    /\ pc \in {"send", "again"} /\ ~ready
    /\ pc' = "crashed"
    /\ UNCHANGED <<user, cluster, client, job, outcome, stored, trouble>>

\* ReConnectRedis: everything is released, the first node is asked again.
Reconnect ==
    /\ pc = "reconnect" /\ conns[1] # "none"
    /\ nodes[1].server \in up /\ Empty = {}
    /\ \E order \in Orders : nodes' = NodesIn(order)
    /\ conns' = [i \in DOMAIN nodes' |-> ConnectRedisNode(nodes'[i])]
    /\ pc' = "again"
    /\ UNCHANGED <<user, cluster, ready, job, outcome, stored, trouble>>

\* The first node cannot be reached or does not call the cluster ok.
ReconnectFails ==
    /\ pc = "reconnect" /\ conns[1] # "none"
    /\ ~(nodes[1].server \in up /\ Owners \subseteq up)
    /\ pc' = "idle" /\ outcome' = "dropped"
    /\ nodes' = <<>> /\ conns' = <<>> /\ ready' = FALSE
    /\ UNCHANGED <<user, cluster, job, stored, trouble>>

\* The line of a master without slots ends before the field that is read.
ReconnectOverrun ==
    /\ pc = "reconnect" /\ conns[1] # "none"
    /\ nodes[1].server \in up /\ Empty # {}
    /\ pc' = "crashed"
    /\ UNCHANGED <<user, cluster, client, job, outcome, stored, trouble>>

Client ==
    \/ CommandDone \/ CommandRefused \/ NoReply \/ Unconnected
    \/ Reconnect \/ ReconnectFails \/ ReconnectOverrun
------------------------------------------------------------------------------
(* The cluster *)

Happens == events < MaxEvents /\ events' = events + 1 /\ UNCHANGED <<user, call, nodes, ready>>

\* A slot is on its way, and arrives at another master.
Migrate(s) ==
    /\ Happens
    /\ owner[s] \in up /\ s \notin moving
    /\ moving' = moving \cup {s}
    /\ UNCHANGED <<owner, masters, up, conns, trouble>>

MoveSlot(s, n) ==
    /\ Happens
    /\ s \in moving /\ n \in masters \cap up
    /\ moving' = moving \ {s}
    /\ owner' = [owner EXCEPT ![s] = n]
    /\ UNCHANGED <<masters, up, conns>>
    /\ trouble' = (trouble \/ Empty' # {})

\* A master joins without slots; one without slots is master no more.
Join(n) ==
    /\ Happens
    /\ n \in up \ masters
    /\ masters' = masters \cup {n}
    /\ trouble' = TRUE
    /\ UNCHANGED <<owner, moving, up, conns>>

Leave(n) ==
    /\ Happens
    /\ n \in Empty \cap up
    /\ masters' = masters \ {n}
    /\ UNCHANGED <<owner, moving, up, conns, trouble>>

\* A server goes down with its connections, and comes back.
GoDown(n) ==
    /\ Happens
    /\ n \in up
    /\ up' = up \ {n}
    /\ conns' = [i \in DOMAIN conns |->
                    IF nodes[i].server = n /\ conns[i] = "sound" THEN "broken" ELSE conns[i]]
    /\ trouble' = TRUE
    /\ UNCHANGED <<owner, masters, moving>>

ComeBack(n) ==
    /\ Happens
    /\ n \in Servers \ up
    /\ up' = up \cup {n}
    /\ UNCHANGED <<owner, masters, moving, conns, trouble>>

\* Another server takes the slots of one that is down, which stays listed.
Failover(n, m) ==
    /\ Happens
    /\ n \in Owners \ up /\ m \in up \ masters
    /\ owner' = [s \in Slots |-> IF owner[s] = n THEN m ELSE owner[s]]
    /\ masters' = masters \cup {m}
    /\ moving' = moving \ SlotsOf(n)
    /\ UNCHANGED <<up, conns, trouble>>

\* A connection is lost, while it is idle for example.
BreakLink(i) ==
    /\ Happens
    /\ i \in DOMAIN conns /\ conns[i] = "sound"
    /\ conns' = [conns EXCEPT ![i] = "broken"]
    /\ trouble' = TRUE
    /\ UNCHANGED <<owner, masters, moving, up>>

\* The connection breaks while ReConnectRedis asks the first node: it gives
\* up, or takes the server for one without a cluster and goes on, without a
\* lock.
ReconnectTorn ==
    /\ pc = "reconnect" /\ conns[1] # "none" /\ nodes[1].server \in up
    /\ events < MaxEvents /\ events' = events + 1
    /\ pc' \in {"idle", "again"}
    /\ outcome' = IF pc' = "idle" THEN "dropped" ELSE "none"
    /\ nodes' = <<>> /\ conns' = <<>> /\ ready' = FALSE
    /\ trouble' = TRUE
    /\ UNCHANGED <<user, owner, masters, moving, up, job, stored>>

Events ==
    \/ \E s \in Slots : Migrate(s) \/ \E n \in Servers : MoveSlot(s, n)
    \/ \E n \in Servers : \/ Join(n) \/ Leave(n) \/ GoDown(n) \/ ComeBack(n)
                          \/ \E m \in Servers : Failover(n, m)
    \/ \E i \in 1..Cardinality(Servers) : BreakLink(i)
    \/ ReconnectTorn

Next == Ask \/ Client \/ Events

Spec == Init /\ [][Next]_vars

\* The thread that is in a call goes on; requests may cease.
FairSpec == Spec /\ WF_vars(Client)
------------------------------------------------------------------------------
\* The variables keep their shape: a connection for each node, which works
\* only when its server does, and the nodes of a layout have no slot twice.
TypeOK ==
    /\ user \in DOMAIN Operations
    /\ owner \in [Slots -> Servers] /\ Owners \subseteq masters
    /\ masters \subseteq Servers /\ up \subseteq Servers /\ moving \subseteq Slots
    /\ ready \in BOOLEAN /\ trouble \in BOOLEAN /\ stored \in BOOLEAN
    /\ events \in 0..MaxEvents
    /\ pc \in {"idle", "send", "reconnect", "again", "crashed"}
    /\ outcome \in {"none", "answered", "dropped"}
    /\ DOMAIN conns = DOMAIN nodes
    /\ ready <=> 1 \in DOMAIN nodes
    /\ \A i \in DOMAIN nodes :
          /\ conns[i] \in {"sound", "broken", "none"}
          /\ conns[i] = "sound" => nodes[i].server \in up
          /\ \A j \in DOMAIN nodes : j # i => nodes[i].slots \cap nodes[j].slots = {}

\* SetBidRedisFlag lets a bid out only when its flag was stored by the server
\* that has the slot, whatever moved or broke, and although the result of the
\* first command is used again for the second.
AnsweredMeansStored == outcome = "answered" => stored

\* Slots may move as they like: a user neither crashes nor waits for ever as
\* long as no connection breaks and every master keeps a slot.
SurvivesResharding == ~trouble => pc # "crashed" /\ ~Waiting

\* Under the same condition each call returns, also while slots are moving.
EveryCallReturns == []~trouble => (pc # "idle" ~> pc = "idle")

\* When the slots of each master are in one piece in the end, and none is on
\* its way, the worker has found them after a while: no bid is dropped any more.
OneRangeEach ==
    /\ moving = {}
    /\ \A n \in masters : \A s, t \in SlotsOf(n) : s..t \subseteq SlotsOf(n)

FlagsRecover ==
    ([]~trouble /\ <>[]OneRangeEach) => <>[][outcome' # "dropped"]_outcome
==============================================================================
