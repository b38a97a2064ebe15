# BidCore in TLA+

BidCore is the bidding engine of a demand-side platform.  One process serves one advertising
exchange: it accepts bid requests over FastCGI, selects an advertisement for each impression from
a snapshot of the campaigns, answers, and reports what it did to Kafka, to Redis and to local
files.  This directory holds TLA+ models of the engine's own logic, the TLC configurations that
check them and proofs for TLAPS.  Paths below are relative to `src/`.

## 1. The system

### Threads

| thread | code | what it does |
|---|---|---|
| main | `BidContext::Init`, `Monitor`, `Uninit` (`common/bidbase.cpp:37-174`) | starts everything, sleeps until `run_flag` is cleared by a signal, takes everything down in a fixed order |
| workers (`cpu_count` of them) | `BidWork::run` (`common/bidbase.cpp:256-397`) | accept a request under `accept_mutex`, take a pointer to both snapshots, select, answer under `resp_mutex`, log, give the pointers back, count the bids |
| two updaters | `DoubleCache<T>::run` (`common/baselib/double_cache.h:110-135`) | sleep, wait until the idle buffer has no reader, reload it from Redis, swap |
| log threads (three) | `LocalLog::run` (`common/local_log.cpp:293-465`) | write the queue of lines to files that rotate by hour and by size |
| message thread | `ServerLog::run` (`common/serverLog/server_log.cpp:110-191`) | sends the queues of two Kafka topics |
| counter thread | `RecordCount::run` (`common/ad_control.cpp:156-210`) | adds won bids and their prices to counters in the Redis cluster |

### Components, their state, operations and what makes them correct

* **Double buffer** (`common/baselib/double_cache.h`).  State: two buffers, a semaphore per buffer that
  counts its readers, the pointer `_extsemid`, the counter `_cur`, a mutex.  Operations: `GetData`,
  `ReleaseData`, and the updater's loop.  Hard: the updater tests the semaphore without the mutex;
  `sem_wait` is called under the mutex.  Correct: no reader sees a buffer that is being
  reloaded; readers are counted in the buffer they read; `sem_wait` never blocks; the updater gets through.
* **Engine life cycle** (`common/bidbase.cpp`, `common/baselib/thread.cpp`).  State: `run_flag`, the threads,
  the locks, the table of locations.  Hard: asynchronous cancellation of workers at any instruction, and the joins that follow it; the
  table is deleted before the workers have ended; Redis is waited for without a limit.  Correct: after the stop a worker only ends the
  turn it is in, and the caches, logs and queues are still there as long as it does; nothing is left locked by a thread that ended by
  itself; the process ends, with exceptions that can be named.
* **Bid selection** (`common/bidbase.cpp:493-1304`, `common/filter_assist.*`).  State: the request, the three views
  of the candidates, the price cache, the response.  Hard: the views are brought into line by hand between
  a dozen filters; prices are cached; Redis may fail between two bids.  Correct: the views agree; a bid is fit, above the
  floor, the best of what is left, and flagged; the engine gives up only when nothing fits.
* **Message log** (`common/serverLog/server_log.*`, `SendSwitch` in `common/util.cpp`).  State: two queues, the
  sampling counter.  Hard: the front is sent outside the lock, and kept if Kafka refuses it.  Correct: order, no
  duplicates, no loss before the stop, exactly one request in `Dest` detailed.
* **Local log** (`common/local_log.*`).  State: the queue, the lines per thread, the open file.  Hard: blocks are handed
  over in two locked steps; rotation by hour and by size; a file that cannot be opened; `Uninit` waits for 100 ms only.  Correct:
  order, no duplicates, no loss before the stop, bounded files, a file has its final name exactly when it was closed.
* **Bid counters** (`RecordCount` in `common/ad_control.cpp`).  State: the queue, two counters per policy and day.  Hard: two
  commands whose results nobody looks at; midnight; a node of the cluster without a connection.  Correct: a bid is counted once at
  most, on its own day.
* **Snapshots** (`AdData` and `AdCtrl` in `common/ad_cache.*`, `EffectChecker`, `common/xRedis/xRedisPool.cpp`).  State: two
  buffers of policies and creatives or of pauses and limits, the connections of each buffer, the stamp each buffer remembers.  Operation:
  `Update`, a row of commands.  Hard: Redis changes between two commands; connections break; `Update` returns true whatever it has found,
  and a policy whose prices, deals, target or audiences got no answer is served without them.  Correct: a load whose commands were
  answered holds whole what stayed there, pauses follow Redis, a dead back end ends the bids, an outage ends.
* **Cluster client** (`common/xRedis/xRedisClusterClient.*`).  State: the nodes and the first range of slots of each, a list of
  connections and a lock per node.  Operations: connect, a command, the reconnect.  Hard: slots move and servers come and go, errors
  and missing replies are told apart by nobody but `SetBidRedisFlag`.  Correct: no bid is answered without its flag stored;
  slots that move neither crash nor hang a user, and are found again.
* **Creative index** (`common/ad_optimize.*`).  State: a tree over type, size and deep link, filled once per load with
  pointers to the creatives.  Hard: the key by which a creative is filed must be the one by which it is looked up; the two lists of
  a node are made on demand; the tree must go when the creatives are deleted.  Correct: a search misses nothing that
  suits (videos without a size limit apart, see section 4), finds nothing that does not, and reports all the rest as excluded.
* **Elements** (`common/ad_element.*`), **request objects** (`common/req_common.*`), **adapters** (`bid/<exchange>`),
  **configuration**, **base library**, **generated code**: see sections 6 and 7 and the notes in `PROJECT.json`.

Interaction: workers call into the double buffer (shared memory, semaphores), push to the queues of the three
consumers (mutex and queue), and talk to Redis synchronously.  Every thread polls the one `run_flag`.

## 2. Modules

| module | models | checked by |
|---|---|---|
| `SnapshotStore` | abstract: a store of whole snapshots that a swap replaces at once | as a property of `DoubleCache` |
| `BufferHandover` | abstract: how two buffers pass between the workers and an updater | proofs about `DoubleCache` and `BidEngine` |
| `DoubleCache`, `MCDoubleCache` | the double buffer, one step per statement that touches shared state | `DoubleCache.cfg` |
| `DoubleCacheProofs` | proofs about `DoubleCache`, its refinements of both abstractions among them | `tlapm` |
| `BidEngine`, `MCBidEngine` | the threads of the process from `StartWork` to the end of `Uninit`, `closeIPB` included | `BidEngine.cfg` |
| `BidEngineProofs` | proofs about `BidEngine`, its refinement of `BufferHandover` among them | `tlapm` |
| `Outbox` | abstract: a queue that delivers in order, once, and gives up nothing before the stop | as a property of `ServerLog` and `LocalLog` |
| `ServerLog`, `MCServerLog` | `SendSwitch`, the two topics and their consumer | `ServerLog.cfg` |
| `ServerLogProofs` | proofs about `ServerLog`, its refinement of `Outbox` among them | `tlapm` |
| `LocalLog`, `MCLocalLog` | the local log and its files | `LocalLog.cfg` |
| `LocalLogProofs` | proofs about `LocalLog`, its refinement of `Outbox` among them | `tlapm` |
| `RecordCount`, `MCRecordCount` | the bid counters | `RecordCount.cfg` |
| `Refresh`, `MCRefresh` | the load of a snapshot, of `AdData` or of `AdCtrl`, load after load | `Refresh.cfg` |
| `RefreshProofs` | proofs about `Refresh` | `tlapm` |
| `ClusterClient`, `MCClusterClient` | the client of the Redis cluster under a worker or the counter thread | `ClusterClient.cfg` |
| `RedisProofs` | proofs about `ClusterClient` and `RecordCount` | `tlapm` |
| `SelectAd`, `MCSelectAd` | the selection, request after request, in one worker | `SelectAdSafety.cfg`, `SelectAdBidding.cfg`, `SelectAdDeals.cfg` |
| `SelectAdProofs` | proofs about `SelectAd` | `tlapm` |
| `AdSelector`, `MCAdSelector` | the tree in which a snapshot looks up creatives, load after load | `AdSelector.cfg`, `AdSelectorSize.cfg` |
| `AdSelectorProofs` | proofs about `AdSelector` | `tlapm` |

`DoubleCache` is used by `BidEngine` in its abstract form: there a buffer is simply free or held by workers, because the
counting is what `DoubleCache` establishes.  `BufferHandover` states what the two modules have in common: a worker takes the current
buffer and gives it back, whichever it is then; the updater reloads the idle one when nobody holds it, and swaps the two.
`DoubleCache` refines it (`ImplementsHandover`), and so does each cache of `BidEngine`, cancelled workers included
(`CachesHandOver`); both refinements are proved, and no run repeats them.  In the same way the three consumers appear in `BidEngine` only as
threads that need their queue's lock once more before they end; the counter thread keeps it while it talks to Redis.  `Refresh` is the `Update` that `DoubleCache` calls, and has no
readers of its own; `ClusterClient` is behind the Redis commands of `SelectAd` and `RecordCount`, which say only how a command may end.

Each module keeps the names of the code.  Its definitions are mapped to lines in `PROJECT.json` under `map`.  Definitions
introduced as *seeded faults* are wrong variants of an action or an operator; each is there so that the property it
names in `PROJECT.json` (`mutants`) can be seen to fail, and none is part of `Next`.

### How state and actions correspond to the code

**DoubleCache.**  `mutex`, `sem`, `extsem`, `cur` are `_mutex`, `_semidarr`, `_extsemid`, `_cur`; `content` is what each `T`
holds, abstracted to the number of the load that filled it and how far that load got (`loading` while `Update` runs,
`failed` if it returned false); `wpc`/`ret` are a worker's place and the pointer it was given; `upc`/`next` those
of the updater.  `GetLock`, `GetPost`, `GetRead`, `GetUnlock` are the four statements of `GetData`, and so on;
`WaitSwap` is the poll that succeeds.

**BidEngine.**  A worker is a list of critical sections (`Steps`): a debug request, a refused one, and one that goes
through the selection differ in the locks they take.  `EnterSection` and `LeaveSection` are apart so that a
cancellation (`Die`) may strike in between, or while a snapshot is held.  `held` says whether the buffer a worker has is the current or
the idle one, instead of which of the two it is: the swap turns the pointers of all workers around (`Swapped`), and `_cur` is
not needed.  `UpdUpdate` may also end without a swap: a load that fails is not swapped in.  `main` walks through `Uninit`, and
`CloseTable` is its first step, `closeIPB`: from then on the table of locations is deleted (`Closed`), while the workers are still
at work.  `Locate` is the lookup of a worker; in a deleted table it may find any location or end the process (`crashed`).
`HelperExit` is the end of a log thread, which takes the queue's lock for its drain and waits for nobody.  The counter thread takes its
lock (`CounterDrains`) and has it until its last command is answered (`CounterExit`).  These two steps and `UpdUpdate` are answers of
Redis: they belong to `Environment`, since a command has no read timeout and `GetConnection` may wait for ever
(`xRedisClusterClient.cpp:451`).  `lastTurn` is history: who was in a turn of the request loop when the flag was cleared.  The
lock of `SendSwitch` and the lines that a worker logs when it starts and ends are left out of `Steps`: each of these locks is
taken and given back with no other in between.

**ServerLog.**  `NeedSend` runs at the start of a request, `SendBidLog` and `SendDetailLog` at its end.  The consumer reads
the front under the lock (`Peek`), sends it without (`SendLog`: Kafka takes or refuses it), pops it under the lock (`Pop`) only
if it was taken.  `Drain` and `DrainTest` are the loop after the stop, where a message is sent once and popped in any case.

**LocalLog.**  A message is either a line of `WriteLog` or a block of lines `from..to` that `FlushOnce` made of what a thread
collected with `WriteOnce`; sizes are counted in messages.  `HourClose`, `TakeBatch`, `Open`, `Write` are the parts of
one round of `run`, `Drain` what follows the loop.  A file that cannot be opened ends the process (`Crash`: the write that follows goes to
a null pointer).  `Uninit` closes the file, once the log thread has ended or after 100 ms, wherever the thread is by then; from that moment
the thread may hold a closed file (`gone`, `Dangling`) and what it writes there is undefined: it is lost or ends the process.

**RecordCount.**  Its standard definitions are `RCInit`, `RCNext`, `RCSpec` and `RCTypeOK`, so that the proofs about it can stand beside
those about the client that it uses.  `Make` reads the clock and makes the record, `Push` takes the lock and queues it.  `CountBid` and
`CountPrice` are the two `hincrby`, each of which takes place or is lost (`lost` remembers which; it is not
a variable of the code).  `hole` is the set of keys whose node could not be reached when the client connected: a command for one of
them waits for ever (`Waits`), because the counter thread never connects again.

**Refresh.**  `AdData` and `AdCtrl` share nothing but their shape, so a behaviour is about one of them (`kind`).  `listed`, `offered` and
`marked` are what Redis holds: the policies and the creatives, each with its keys, and the ids with a pause or with a device that has
reached its limit; they change at any time between two commands.  `pool[b]` says whether all, some or none of the connections of a buffer
work; a command may be answered unless it is `broken`, and may fail unless it is `sound`.  `seen[b]` is the age of the stamp in the eyes of a
buffer, since each buffer has its own `EffectChecker`.

`got[b]` and `marks[b]` are what a buffer holds; `todo`, `policy`, `ahead` and `creative` are what the nested loops have still to read and
what they have in hand.  The loop over the policies is `ReadPolicy` (get `dsp_policy_info`), `ReadMapids` (smembers
`dsp_policy_mapids`), then `ReadCreative` and `ReadPrice` for each creative, `CreativesDone`, which passes over a policy without
creatives, and `ReadRest` for deals, target and audiences in this order (`After`).  Without an answer to one of the first
three the policy or the creative is passed over; of prices, deals, target and audiences nobody looks at the result (`ReadAside`), and
`bare` is what is then kept without them.  `AdCtrl` reads the same keys in `GetCampaignId` and `GetCreativeId`, for the ids alone.  `CutShort`
is either of the two loops that finds the run flag cleared.  Each action is one command with what the code does to its answer, with two
exceptions: the deal prices of a policy, a command each, are one step, and so are the limit and the pause of an id.

`there`, `sure` and `maybe` are history: the creatives that could be found, and the ids that were marked, all through the load, and the ids
that were marked at some time of it.  A read that was not made or got no answer, or a stamp too old, empties the first two: nothing is promised
of such a load.

**ClusterClient.**  `nodes` and `conns` are `vNodes` and `mRedisConnList`; `ready` says whether the lists and locks exist, which they do
not after a reconnect that failed.  `owner`, `masters`, `moving` and `up` are the cluster.  `Ask` picks the operation
(`Operations`: `DeviceCount` and `SetBidRedisFlag` of a worker, `RecordOne` of the counter) and the slot; `CommandDone`, `CommandRefused`
(MOVED, ASK, CLUSTERDOWN) and `NoReply` are the ways in which a command ends, and `After` is what each user does then.
`Waiting` is `GetConnection` on an empty list; `Unconnected` is a command after a failed reconnect; `ReconnectOverrun` reads the field
that the line of a master without slots does not have.  `trouble` is history: a connection broke, a server was out of reach, or a
master was without slots.

**SelectAd.**  `stage` is the next function to be called; `policies`, `impPolicies`, `impCreatives`, `price` are the members
of `Candidates`.  Each action is one filter together with the `Adjust` function and the emptiness test
that follow it in `SelectAd`.  What a filter decides from data that the model does not hold is an arbitrary verdict
(`\E out \in SUBSET ...`); `rejected` records the verdicts.  Deal matching, floors, the price cache and `CheckPrice` are modelled as
they are.  `at_info` of a policy may have an entry without a deal id (`None`), and an impression of a private auction without a deal, as
all of google's are, is priced by it (`GetDealPrice`).  The exchanges' versions of `CheckPrice` differ in the margin `Gap` (0 for iflytek,
zplay, letv, sohu; 1 for most; 2 for autohome and baiduvideos) and in whether deals are exempt (`PmpUnchecked`: adview, baidu).  adview and baidu
ask for one cent after conversion, `(price - floor) * ratio >= 1` (`adview_bid.cpp:602`, `baidu_bid.cpp:241`): with a given `ratio` that is a
`Gap` of `1 / ratio`, rounded up; a ratio of 0, at which they refuse everything but deals, is left out.  `NoReply` is a Redis command without
a reply, whose `type()` follows a null pointer.  `SelectByAdvcat` keeps everything, because nothing in the code fills
`_device_count.advcats`.  The device id that `FilterByAudience` settles on is left out.

**AdSelector.**  A node of the lowest level is a key of type and width, and its two lists (`_supports`, `_not_supports`) are
`supports[key]` and `notSupports[key]`; an empty set is a list that has not been made, because the code makes one only to add
to it.  The upper levels of the tree are the two parts of the key: `KeyOf` is the path on which `Add` files a creative, `KeyFor` the
one on which `Search` descends.  The height is no part of the key, because the map of sizes is ordered by the width.  `Fetch` is
everything `AdData::Update` does before `Creater`, whether it succeeds or not: some set of creatives, in some order.  `AddSupports` writes
through `_not_supports` when it makes `_supports`; if that pointer is still null, the process is gone (`crashed`).  The
model does not say in which order the compiler carries out the allocation and the write, since either ends the process.
In `SelectAd` the result of a search is any set of creatives, so nothing there depends on the tree.

## 3. Runs

`PROJECT.json` says of each run in a sentence what it shows.  Bounds, and why they are enough:

| run | bounds | states (about) |
|---|---|---|
| `double_cache` | 3 workers, 5 loads | 71 000 |
| `bid_engine` | 2 workers, 1 request, refused or bid for, before the stop only the policies are reloaded | 574 000 |
| `server_log` | 2 workers, 4 requests, one in 2 detailed | 39 000 |
| `local_log` | 2 threads, batches of 2 (16 in the code), files of 3, 3 messages, 2 lines each, 2 hours | 680 000 |
| `record_count` | 2 workers, 2 policies, 3 records, 2 days, no key or one without a connection | 160 000 |
| `refresh` | a policy with 2 creatives, one of which stays, and a policy that stays and has none, of one campaign, which may be paused as a whole; one pool that loses single connections; a stamp that is too old after 1 tick | 867 000 |
| `cluster_client` | 3 servers, 4 slots in two layouts, 4 events | 500 000 |
| `select_ad_*` | 2 impressions, 3 creatives of 2 policies, 2 deals, prices 0 to 2, 12 requests, any number of requests in sequence | 5.2 million |
| `ad_selector` | 3 creatives, widths and heights 1 and 2 | 215 000 |
| `ad_selector_size` | as `ad_selector` | stops at the violation |

Two workers suffice for every race between a worker and another one, and three for the double buffer, where one may hold
each buffer while the third is between post and read; the proofs cover any number.  Five loads let each buffer be
loaded twice and swapped in again.  One request is enough in `BidEngine`, because a worker that comes back to its loop
is in the state it started from, apart from the snapshots having been swapped.  Before the stop only the caches in `Reloaded` are loaded anew,
here that of the policies, any number of times: the two updaters run the same code and share no step, so it is enough that the stop meets one of
them at any place of its loop and the other asleep; the proofs cover every other case.  A refused
request and one that goes through the selection take every lock between them; the proofs cover the debug dump too.
Batches of two and files of three make every combination of a full batch, a batch that just fits and one
that starts a new file.  Two impressions with one common creative are what the price cache and the views
need to go wrong; with three creatives an impression has a best, an equal and a worse one.  In the tree, two creatives meet in
one node and the third is in another; the proofs cover any number.  In `Refresh` a policy with two creatives comes and goes, one of its creatives comes
and goes by itself, and one stays (`Lasting`), as does a policy without creatives, so that a load may find a policy gone, or one
of two creatives.  That the only creative of a policy is exchanged for another during a load is not in this instance; the module allows it, and
the theorems are about any policies and creatives.  One buffer's pool loses single connections (`Weak`), the other one all or none;
one tick is enough for a stamp that is fresh in one buffer and too old in the other.  Four events are a slot that moves and two others
that spoil the reconnect, or the failure, replacement and return of a server.

Where a module has a theorem `TypeCorrect`, its types are proved for every value of the constants, and its run spends its properties on
other questions.  `DoubleCache` and `AdSelector` check them as well, because their types say that no `sem_wait` goes below zero and that
no list keeps a deleted creative.

`CHECK_DEADLOCK FALSE` is set where the system may really stop: after the end of the process (`LocalLog`, `ServerLog`,
`RecordCount`, `Refresh`), after its crash (`SelectAd`, `AdSelector`, `ClusterClient`, whose user may also wait
for ever), and in `BidEngine`, where a cancelled worker may leave a lock that everybody else waits for.

### Fairness

Liveness is checked under weak fairness of what the threads do by themselves, which any preemptive scheduler gives: the
threads of the process in `BidEngine` (one of them runs while one can), the consumer in `ServerLog`, `LocalLog` and
`RecordCount`, the updater in `Refresh`, the thread that is in a call in `ClusterClient`.  Nothing is assumed of clients, signals or of
Redis; of the clock only `Refresh` assumes that time goes on.  In `BidEngine` a worker may sit in `FCGX_Accept_r`
for ever, and so may a thread that waits for Redis: `ShutdownEnds` says that the process comes down, unless in the end the main thread joins for ever
a thread that waits for Redis (`[]AwaitsRedis`), or a cancelled worker left a snapshot or a shared lock behind, or a worker crashed on the
deleted table.  In `Refresh`, `RecordCount` and `ClusterClient` a command ends in one way or another, so a Redis that keeps the connection and never answers,
which blocks the thread that asks, is outside their liveness properties.  `DoubleCache` assumes that every worker gives back what it took, as the straight-line code of `BidWork::run` does; what
happens when it is cancelled instead is the subject of `BidEngine`.  `ServerLog` assumes in addition that Kafka does not
refuse the detail topic for ever (strong fairness of `TakesDetail`), and nothing of the other topic: this is the question
`DetailNotHeldUp` asks.  What Redis and the back end must do for a liveness property of `Refresh` or `ClusterClient` to hold is part of the
property itself, as its premise: a stamp that is renewed again and again, connections that work in the end, slots that come to rest.

## 4. What the checks show

What holds:

* No reader of the double buffer sees a reload, and the two buffers implement one store that is replaced at once.
* Only a cancelled worker leaves a lock or a snapshot behind.  After the stop a worker only ends the turn of its loop that it is in, a
  request that it accepts late included; the caches, the logs and the queues are still there as long as it does, and nobody joins it before
  it was cancelled.  The shutdown ends, with three exceptions: a cancelled worker left behind one of the shared locks or a
  snapshot, a thread that is joined waits for Redis for ever, a worker crashed on the table of locations.  The exceptions are real, and
  without any of them `ShutdownEnds` is violated.
* Both logs deliver in order, once, and lose nothing before the stop.  After the stop, the consumer of `ServerLog` ends at the
  first round of its drain that finds both queues empty; what a worker that is still serving adds later stays unsent.
* A file exceeds its limit only by a batch that is too big alone, and has its final name exactly when the log thread or `Uninit` closed it.
* Each bid is counted once at most and on its day; when Redis loses one of the two commands the two counters drift apart.
* A load of policies whose commands were answered and whose stamp was good holds every creative that was there, with its policy, all the
  while, and with its prices, deals, target and audiences; a load of pauses and limits holds, of creatives that were there all the while, each
  that stood all the while, and none that did not stand at any time.  When the stamp is no longer renewed
  both buffers of `AdData` are emptied in the end; after an outage in which all connections broke the policies come back.
* Whatever moves, fails or breaks, a bid is answered only if its flag is stored by the server that has the slot.  While only slots move
  and each master keeps one, no user crashes or waits for ever, and the flags find the slots again.
* The three views of the candidates agree after every stage, a bid is fit, clears its floor, is the best of what is
  left, and is flagged before it is answered.

What does not (the violation runs; `findings` in `PROJECT.json` quotes the sentence each contradicts):

* `select_ad_bidding`: several creatives at a price of 0 for one impression make the random choice divide by zero.
* `select_ad_deals`: a creative that two impressions ask for under different deals is bid at the first deal's price twice.
* `ad_selector_size`: an impression finds creatives of its width and another height, and nothing later compares heights.

More remarks, which no run is spent on:

* `Uninit` deletes the table of locations (`bidbase.cpp:122-125`) before it cancels or joins a worker, and a worker that still looks a
  location up (`bidbase.cpp:232`, `google_adapter.cpp:82`) reads freed memory.  `Locate` does this; `OneTurnAfterStop` shows
  that it can happen in the turn a worker was in at the stop, and in no other.
* A command of Redis has no read timeout and `GetConnection` waits without a limit (`xRedisClusterClient.cpp:451`): a counter thread or an
  updater that waits there hangs the join at the shutdown, although no cancelled worker left anything behind, and an updater that waits
  loads nothing any more.
* The last drain of the local log compares a rising index with the size of the queue it shrinks (`local_log.cpp:450`): it takes half
  of the queue, and drops that too if no file is open.  `Drain` does the same; `Outbox` promises nothing after the stop.
* After its 100 ms `Uninit` closes the file whether the log thread has ended or not (`local_log.cpp:84`): what the thread writes then
  is lost or ends the process, and a file that it opens afterwards is closed by nobody.
* A load in which the first creative of a node has a deep link ends the process (`ad_optimize.cpp:65`).  `AddSupports` shows
  it; that no node lacks a list without deep links (`TreeInOrder`), and with it `FoundOrExcluded`, holds only for this reason.
* A video impression without a size limit is looked up by its width all the same (`ad_optimize.cpp:167-171`) and misses
  creatives that `CheckBySize` lets through; `NoneMissed` excludes it by name.  This is no corner case: google (`google_adapter.cpp:440`) and
  letv (`letv_bid.cpp:383`) ask for all their videos in this way.
* Creatives excluded for their deep link carry the error of `_supports`, which is never set (`ad_optimize.cpp:64-65`).
* When every bid fails its check against the template, `SetResponse` returns true all the same (`bidbase.cpp:530`): the response is
  announced as a bid and holds none.
* `AdCtrl::Update` fails open: without the list of ids (`ad_cache.cpp:652`), or with an old stamp, its buffer has no pauses and no limits,
  and paused policies bid until the next load.
* `AdData` serves nothing when it finds no policies, no template or no good stamp, and no policy without creatives; for the rest it does not
  fail closed.  A policy whose target, audiences or
  deals got no answer is served without them until the next load (`ad_cache.cpp:232-240`), as `bare` remembers, and a policy
  whose only creative is exchanged for another between `smembers dsp_policy_mapids` and the get of that creative is missing
  until the next load, although every command was answered and the policy was there all the while: `SoundLoadIsWhole` therefore
  speaks of creatives.
* `AdData` never pings.  A single lost connection of its pool makes a load fail as soon as a command meets it, and new ones are made only if
  that command is the first: a load that makes a multiple of eight commands meets it at the stamp each time, and the buffer stays empty.
  `Recovers` leaves this case out by name.
* The cluster client reads the first range of slots of a node only; keys of a second range go to the first node and are refused
  (`xRedisClusterClient.cpp:379`).  `FlagsRecover` asks for one range each.
* A reconnect while a master has no slots reads past the end of a vector (`xRedisClusterClient.cpp:379`); one that fails leaves neither
  lists nor locks, and the next command follows them (`xRedisClusterClient.cpp:280`).  A command without a reply leaves a null pointer, whose
  `type()` the worker calls (`bidbase.cpp:1283`).
* `DeviceCount` connects anew only on error strings that this client never yields (`ad_control.cpp:59`), and `RecordOne` never does
  (`ad_control.cpp:200`): both depend on the flags, or on a restart, to follow slots that move.

## 5. Proofs

`DoubleCacheProofs` proves, for any finite number of workers and any number of loads, under the assumptions that `DoubleCache`
names (`WorkersAssumption`, `MaxLoadsAssumption`):

1. `TypeCorrect`: types.
2. `MutualExclusion`: whoever is between lock and unlock owns the mutex, and `_extsemid` agrees with `_cur` except between the
   two assignments of the swap, which happen under the mutex.
3. `ReadersCounted`: each semaphore is the cardinality of the set of workers between the post and the wait for its buffer.
   This is the inductive core: it needs 2, since a worker that posts must be handed the buffer it was counted in.
   The lemmas `CountedAfterPost`, `CountedAfterWait` and `CountedOtherwise` say how that set changes.
4. `ReleaseGoesThrough`: from 3, the releasing worker is itself in the set, so the semaphore is positive.
5. `IdleBufferStaysFree`: after `WaitSwap` nobody is counted in the idle buffer, and a new reader is counted in the
   current one, until the swap.  This is why the test without the mutex is sound.
6. `ContentsStayServable`, `NoReadIsTorn`: from 5, a buffer under reload has no reader.
7. `Implementation`: every step is a step of `SnapshotStore` or leaves its variables unchanged.
8. `HandoverKept`: the same for `BufferHandover`.  The pointer is taken at `GetRead`, given back at `RelWait`, and the increment of
   `_cur` is the swap; `WaitSwap` is allowed since by 3 a semaphore at zero means that the idle buffer has no reader.
9. `PollingEnds`, `UpdaterLeavesLoop`, `OwnerGoesOn`: while `WaitSwap` polls, nobody comes to the idle buffer and each step of a reader
   brings it nearer to giving it back (`IdleRank`); after the stop each step of the updater brings it nearer to its end (`UpdaterRank`); the
   owner of the mutex always has a step.  This is what `UpdaterGetsThrough` and `StopIsObserved` rest on besides fairness.

`BidEngineProofs` proves, for any number of workers and of requests, under `EngineAssumption`:

1. `SectionsInOrder`: types, and that a worker has critical sections ahead exactly while it serves (`InStep`); `TypeCorrect`
   is the part that the runs check.  `StepsAreFair` and `TailIsFair` are the lemmas about lists of sections: every kind of request
   gives back later what it takes, and going through the first section keeps that promise.
2. `SectionsExclude`: each lock is owned exactly by the worker that is inside a section of it.  A cancelled worker keeps both
   facts true: it stays inside for ever.
3. `SnapshotsAreReturned`: whoever holds a snapshot has the section ahead that gives it back.
4. `LastTurnsOnly`: whoever serves after the stop is in the turn he was in at the stop (`InLastTurn`), is joined after he was cancelled, and the
   main thread is not past him.  It rests on `CancelledAfterStop` (nobody is cancelled before the stop), `JoinedHaveEnded` (the main
   thread passes a worker only when he has ended; `EndedForGood` says that he stays so) and `JoiningKept` (8).
5. `ReloadsAside`: a worker is given the current buffer only, and the current buffer changes at the swap alone.
6. `OnlyCancellationLeaks`: from 1, 2 and 3, a worker that ended by itself has no section ahead, hence owns no lock and holds no
   snapshot; from 4, before the stop there are no dead workers.
7. `CachesHandedOver`: each cache is a `BufferHandover`.  It needs `TakenOnce`: no list of sections takes a snapshot twice, so that nobody
   takes one that it holds already.
8. `ShutdownNeverStuck`: after the stop, until the engine is down or has crashed, whatever the main thread waits for can step, or needs
   nothing but an answer of Redis to step (`OnlyRedisAwaited`), or a cancelled worker has left a lock or a snapshot behind.  It needs
   `Joining`: the worker that is joined was cancelled, or ends by itself.
9. `EveryStepTowardsTheEnd`: after the stop each step of a thread, an answer of Redis that it waits for included, lowers the number of
   steps ahead of it and raises nobody else's (`WorkerRank`, `UpdaterRank`, `HelperRank`, `MainRank`).  These ranks are natural numbers, so
   with 8 a shutdown that does not end waits for Redis, or for what a cancelled worker took with it.  That Redis answers is not proved and
   not true: `ShutdownEnds` names it.

`AdSelectorProofs` proves, for any sets of creatives and of lengths, without assumptions:

1. `TreeInOrder`: each list of each node holds exactly the creatives added so far that belong into it, and a node with a list of deep
   links has the other list too.  This is the inductive invariant; the second half is kept by the crash of `AddSupports`.
2. `TypeCorrect`: no list keeps a creative that was deleted.
3. `AllAccountedFor`: from 1, what a search finds is one part of one node, and what it reports is the rest.
4. `SearchIsComplete`, for all but videos without a size limit: from 1, and because `KeyOf` of a creative that suits an impression is `KeyFor` of the impression.

`RefreshProofs` proves, for any policies, creatives, ids and age limit, and whatever comes, goes and breaks (any `Lasting` and `Weak`), under
`RefreshAssumption`:

1. `TypeCorrect`: types, and that `AdCtrl` keeps creatives for the length of a load only (`OnlyForTheLoad`).
2. `LoadsAreWhole`, from `CreativesInHand`: as long as every command was answered, a creative that was there all the while is in the buffer, or
   still ahead: its policy is still to be read, or is being read and its creatives have not been asked for, or it is among those still to be read.
   A creative that goes leaves `there` at the same moment, which is why the load may find it or not.  `BareHasGone` says that what is kept without
   some of its data was gone when that was read.
3. `MarksAreFollowed`, from `MarksInHand`, which says of the ids of these creatives that their marks are read or still to be read, and
   `MarksRemembered`: whatever Redis holds during the load, hence whatever the load finds, is in `maybe`.

`ServerLogProofs` proves, for any number of workers, of requests and any `Dest`:

1. `TypeCorrect`, with `InOrder` (what is sent and what waits are, one after the other, the messages in the order of their pushing, each
   once) and `AtItsPlace` (whoever is between reading the front and popping it still finds the same message at the front, since others only
   append).  This is the inductive core.
2. `QueuesKeepPromise`: from 1, every step is a step of `Outbox` or leaves its variables unchanged.
3. `OneInDestIsDetailed`: the counter and the requests agree modulo `Dest` (`SampleInv`); `Owing` is the finite set of workers that have
   found their request to be the one and have not pushed it yet.
4. `DetailComesUp`, `DrainComesToEnd`: whatever Kafka refuses, each step of the consumer brings it nearer to the next detail message
   (`StepsToDetail`), and each step of the drain nearer to its end (`DrainLeft`).

`LocalLogProofs` proves, for any threads, batch, limit and bounds, under `LocalLogAssumption`:

1. `TypeCorrect`, with `Shape`: the open file is one of the files, a batch is in hand exactly between `TakeBatch` and `Write`.
2. `FilesStayBounded`: from `SizeKnown`, what the thread believes the open file holds is what it holds, unless `Uninit` has closed it.
3. `FinalWhenClosed`: a file is open, or closed by the thread or by `Uninit`, and only the latter have the final name.
4. `BlocksAlwaysJoinUp`: from `JoinInv`, the last block of a thread, the block it has in hand and the lines it still gathers follow each other
   without a gap.  The property speaks of the last block before a place in the queue, so the proof carries the maximum of a finite set
   of places through each push (`PushLastLine`).
5. `LogKeepsPromise`: every step is a step of `Outbox` or leaves its variables unchanged.  What Kafka is to `ServerLog` the files together are
   here: `MessagesUpTo` joins them up as a recursive function, and its lemmas say what a new file and a write do to it
   (`MessagesOfNewFile`, `MessagesOfWritten`).  The inductive invariant `InOrder` says that what is in hand and what waits are the last
   messages in their order.
6. `MessagesComeNearer`: each step of the log thread brings every message that waits nearer to a file (`StepsTo`).

`RedisProofs` proves, for any servers, slots, layouts and number of events, under `ClusterAssumption`:

1. `TypeCorrect`, with `Connected`: a user that is about to reconnect still has its lists.
2. `NoFlagNoBid`: `stored` is set by the very step that gives the reply from which the verdict is made.
3. `ReshardingSurvived`, from `SoundInv`: as long as there was no trouble each master keeps a slot, each server runs and each node has a
   connection that works.  Without the second conjunct a reconnect could find a master without slots.
4. `CallsComeToEnd`, `CallsCanStep`: a call has three steps at most ahead of it (`CallLeft`), and without trouble it can always take the next.
5. `ReconnectFindsSlots`: a layout that is read while each master has its slots in one piece names the server of every slot
   (`FreshLayoutIsRight`; that no master is missing follows from the cardinalities, `OrdersAreComplete`).  From then on, until slots
   move again, every command reaches the server that has the slot, and no bid is dropped.

and for any workers, policies, prices, days and number of bids, under `RecordCountAssumption`:

6. `RecordsStayAsWon`, from `WayInv`: a record on its way is the record of the bid as it was won (`RecordsKept`), and each bid is with one worker, at
   one place of the queue or in hand (`EachOnce`).
7. `CountersAreRight`, from `CountInv`: a command that did not take place is never on its way again (`LostForGood`), so each step moves at
   most one bid into the set that a counter stands for (`Due`).  The sum of the prices is a recursive function; `PricesAddUp`
   and the lemmas after it (`TotalOfNone`, `TotalOfAppend`, `TotalOfOneMore`) say how it grows.  Induction over a set of numbers is by its least
   counterexample (`Induction`), since the library's induction theorems cannot be used.
8. `RecordsComeUp`, `ThreadComesToEnd`: each step of the thread brings every record that waits nearer to its turn (`StepsToTurn`), and after the
   stop the thread nearer to its end, first out of its loop and then through the drain (`LoopLeft`, `DrainLeft`).

`SelectAdProofs` proves, for any snapshot, requests, floors, deals and verdicts, under `SelectAdAssumption`:

1. `TypeCorrect`, `ViewsAgree`: from `FreshInv` (a request begins without rejections and without views) and `CandidatesAgree` itself, each filter
   keeps the view that the next one reads equal to what was found and not rejected.  One lemma per filter shows what it leaves.
2. `EveryBidIsFit`, from `FitInv`: what is left after the matching has a deal or needs none, what is left after the prices has a price in the
   cache that passes `CheckPrice`.  The verdicts of earlier stages stay true because nothing is ever added to a view.
3. `BestIsBid`: from `FitInv`, what `FilterByCreativeBidding` leaves is a part of the best (`BestIsBest`).
4. `AnsweredAreFlagged`: the answer is sent when no bid without a flag is left, and an error drops all bids.
5. `NothingGivenUp`, an action property: from the invariant, a filter that ends the request has left nothing in any view.

What each proof rests on besides are the named assumptions of the modules, which TLC evaluates, and the fact theorems of the library
about finite sets and sequences.

Model-checked only: liveness, because the rule of fairness, and `ENABLED` with it, is out of the prover's reach.  For `UpdaterGetsThrough`,
`StopIsObserved`, `ShutdownEnds`, `DetailNotHeldUp`, both `DrainEnds`, `EventuallyWritten`, `EventuallyTried`, `EveryCallReturns` and `FlagsRecover`
the theorems above prove what is left when that rule is taken away: a number that each step of the thread lowers and nothing else
raises, and, where it is not plain from the guards, that the thread can step.  `DeadBackEndEndsBids` and `Recovers` of `Refresh` are checked
by TLC alone, as are the three findings.  Every other property that a passing run checks is the statement of a theorem.

## 6. Plan

In the order of the behaviour that matters most.  Done: `DoubleCache` with its refinement, `BidEngine`, the three consumers, `SelectAd`,
`AdSelector`, `Refresh`, `ClusterClient`, `BufferHandover`, and proofs about all of them.  What could follow:

1. `Pricing`: `CreativeInfo::GetPrice` with its fallback over regions, applications and exchanges (`ad_element.cpp:509-602`), against a
   reference definition.
2. `RequestCheck`: `COM_REQUEST::Check` and the requests it lets through, `AllowNoDeviceid::operator<` and the ordering it
   should be, the frequency filter's search for device ids.
3. `Refresh` composed with `DoubleCache` and readers that use the policies of one cache with the pauses of the other.
4. The falling numbers behind `Recovers` and `DeadBackEndEndsBids`: how many commands a load has ahead.
5. In `Refresh`, the advertiser categories, which are read once a day (`UpdateOneDay`), and ids listed twice in two spellings.

## 7. What is not modelled, and why

* Most of the 233 000 lines of the repository: the protocol buffer code of the exchanges and of the logs is generated from `.proto` files that
  are not part of the program's own logic (each exchange adds some ten to forty thousand lines), and `common/xRedis`, `json.c` and the
  archives hold third-party code, of which only what the engine drives is modelled.
* The adapters' translation of requests and responses, JSON and protocol buffer parsing, URL and price encoding: data
  conversion without shared state.  So is what a geographic lookup finds; the table it reads is shared, and its deletion is in `BidEngine`.
* `COM_REQUEST::Check`, the fallback of prices, targets and white lists: pure tests of one request against one snapshot.  In `SelectAd`
  their answers are arbitrary.
* Configuration: read once before any thread starts; its values are constants.
* `adx_decode`: used by another program.
* The heap's lock, which an asynchronous cancellation may leave taken: it behaves like the locks that are modelled.
* Crashes by running out of memory or disk, an `fwrite` that fails without being noticed, two files of one name (two rotations
  within a second), the dump of a snapshot to a file, advertiser categories and their daily load.
* A Redis that keeps connections and never answers is in `BidEngine` only; the lock of `SendSwitch` and the lines that workers log at their
  start and end are in no module's list of critical sections.
* Slaves of the Redis pool, which this program does not use; more than one connection per node in the cluster client, which it does not make.
