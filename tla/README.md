# TLA+ models and proofs for the ER-pi artifact

ER-pi ("Exhaustive Interleaving Replay") records the events of a replicated
program, generates and prunes the interleavings of these events, and replays
them. The repository holds the replay tooling together with the replicated data
libraries it was applied to. This directory models **Roshi** (a replicated
last-writer-wins store, `src/RDL-Libraries/roshi`), the **Go replay engine**
(`src/RDL-Libraries/Go_RDL`), the **Java CRDTs** with their driver
(`src/RDL-Libraries/Java_RDL`), the **OrbitDB player**
(`src/RDL-Libraries/OrbitDB_RDL`) and the **generators and pruning programs**
(`src/Pruning-Algos` and others). `PROJECT.json` maps each definition to the
lines it models.

## 1. The system

| Component | State | Operations | Talks to | Hard parts, and what makes it correct |
|---|---|---|---|---|
| Roshi cluster, `cluster/cluster.go` | per key two Redis sorted sets, `key+` and `key-` | Insert, Delete (one Lua script per tuple), SelectOffset, SelectRange, Score, Keys | Redis, through a pool | reordered, repeated and late scripts; capacity; a page is read in several attempts; Keys holds a connection while it sends. A member is in one set at most; the highest score wins; capacity keeps the top; a page is a snapshot |
| Farm writes, `farm/farm.go` | goroutines and channel of a call | Insert, Delete | all clusters | early report at the quorum, half-done pipelines, dead connections, clusters that come back empty. An acknowledged write stays on a quorum |
| SendAllReadAll, `farm/read_strategies.go` | responses of a call | SelectOffset, SelectRange | clusters, repair strategy | errors are not data. A read that meets the write quorum sees acknowledged inserts |
| SendOneReadOne, same file | none | SelectOffset, SelectRange | one cluster | pages of one listing come from different clusters |
| SendVarReadFirstLinger, same file | local variables, WaitGroup, channel, timer | read | clusters, repair strategy | timer against answers, close against sends, lingering. Everything asked for is read, repaired, and nothing is left behind |
| Repair, `farm/repair_strategies.go` | channel of Nonblocking, scores and planned writes of AllRepairs | Nonblocking, RateLimited, NoRepairs, AllRepairs | clusters | stale scores, lost requests, failed Score or Insert. Never undo a newer write; converge |
| Pool, `pool/*.go` | idle connections, counter, condition variable | get, put, closeAll, WithIndex | Redis | failed dials, overtaking, Close. No lost wakeup, no leaked slot, one owner |
| roshi-server | none beyond the farm | HTTP handlers, listing by offset or cursor, coalesce | farm | a listing skips nothing and repeats nothing, although the set changes between pages |
| roshi-walker | batch, channels | the walk over all keys of all clusters | farm | every key is walked; Keys and the Selects share connections. The walk is what makes the store eventually consistent |
| Cursor, farm string, hashes, instrumentation | none | pure | - | encodings |
| Replay engine, `Go_RDL/Library/server.go` | `shared_attribute` (the turn) and `my_lock` in Redis, one process per replica | main, do_actions, handleConnection | Redis, peers over TCP | expiring lock, turn order, stale goroutines. Events are executed once, in order, by one replica at a time |
| PN counter, `pncounter.go`, `client.go` | value, pending updates | Inc, Dec, Merge, broadcast | peers | merge in another goroutine. The final value is the sum of all events |
| Interleaving generation: `Datalog/` of four libraries, `DFS`, `RandomIntls` in Go and Java | files; visited orderings | permutations, pruning rule, file writer | replay drivers | the files must say what the replay reads; every order exactly once; repeated events |
| Source rewriting, `ast_rewrite.go`, `wrapper.go` | files | rewrite | - | none |
| Java CRDTs, `Java_RDL/src` | maps and sets of an object | add, remove, increment, merge, copy | - | merge must be a join; tombstones and observed tags |
| Java driver, `crdts_run.sh`, `Main.java` | the record, the files, two sets | start, stop, clean; play a file | files | files are generated before the run that records the events; sets are not reset between interleavings |
| OrbitDB player, `ProxyInvocations.js`, `odb-Api.js` | databases of a file | play a file | files | lines for databases that do not exist yet; results the pruning loses |
| Pruning programs, `Pruning-Algos`; emulators, `Go_RDL/PruningEmulator` | none | filters over permutations | files | index arithmetic on empty lists; what is excluded and what is kept |
| Redlock, Lamport clock (C++) | - | - | - | third-party copies that no program here builds or calls |

Vendored code (`roshi/_vendor`, `hiredis`, `sds`) is left aside. Scripts that only
build and launch, and the Dockerfile, have no logic to check. `PROJECT.json`,
"components", gives the status of each part; "hazards" lists what is hard to
test, at its line.

## 2. Modules

| Module | What it is |
|---|---|
| `LWWSet` | The two sorted sets and the script: `TooOld` and `Stale` are its early returns, `Script` its effect |
| `LWWElementSet` | Abstract specification: a replica is a set of executed commands, which may be reset; a member's standing is decided by a highest-scored one |
| `Farm` | Clusters, writes, reads, repairs and failures. Extends `LWWSet`, instantiates `LWWElementSet` as `LWW` |
| `MCFarm` | The clients' writes of the runs |
| `ReadFirstLinger` | One call of `sendVarReadFirstLinger.read` with its goroutines |
| `Pool` | One `connectionPool` and `Pool.WithIndex` |
| `Store` | Several keys on several instances of several clusters, for the two readers below |
| `Paging` | A client that lists keys page by page: server, read strategies, SelectRange |
| `Walk` | roshi-walker: Keys, scan, walkOnce |
| `Reads`, `MCReads` | `Paging` or `Walk` over one `Store`; their properties |
| `Replay`, `MCReplay` | The replay engine and PN counter; `FirstRun/Actions.txt` and the generated orders |
| `Crdt` | The six Java CRDTs and an application that uses them |
| `JavaReplay` | `crdts_run.sh`, IlGen, the Datalog rule, Main |
| `OrbitReplay` | The OrbitDB player and its key-value store |
| `Arrangements`, `Orderings` | Orders of a list; the generators dfs and randomInterleave |
| `Pruning` | The four pruning programs and the two emulators |
| `ErPi`, `MCErPi` | One of the programs `Crdt`, `JavaReplay`, `OrbitReplay`, `Orderings`, `Pruning`; their properties |
| `LWWSetProofs` | Lemmas about the sorted sets and the script |
| `FarmProofs` | Theorems about `Farm`: writes, repairs, reads and capacity |
| `PoolProofs`, `LingerProofs`, `ReplayProofs` | Theorems about `Pool`, `ReadFirstLinger`, `Replay` |
| `ReadsProofs` | Theorems about listings and walks |
| `ErPiProofs` | Theorems about the CRDTs and the generators; types of all programs of `ErPi` |
| `InterleavingProofs` | Theorems about Main and its record, the OrbitDB player, the pruning programs and the emulators |

### Farm

`rep[c]` is the pair of sorted sets at cluster `c` for one key. One key is
enough: the script and every command touch only their own key. `applied[c]` is
history (the commands `c` executed). The steps of `Farm.write` are `WriteStart`
(scatter), `WriteExec` (one script of the pipeline), `WriteReply` and
`WriteFail` (the goroutine's result), `WriteReport` (gather and report;
`exec` and `sts` of the other goroutines go on). After `WriteFail` the commands
stay on the wire: `WriteExec` may still happen, or never. (`LateExec` is the same for
a repair's commands.)

`ReadStart`, `ReadElement`, `ReadError`, `ReadDone` are `sendAllReadAll.read`.
`ReadDone` calls the repair strategy: inline for a walker, into the channel of
Nonblocking for a server (which drops when full), not at all for a reader.
`RepairTake` is the goroutine of Nonblocking with RateLimited behind it,
which may discard. `ScoreIns` and `ScoreDel` are the two ZSCOREs of
`pipelineScore`: two steps, since other scripts may run in between. If both
answer, the code returns an error and all presences of that cluster stay empty.
`Plan` is the two walks of AllRepairs, with `wasInserted` as written.
`RepairWrite`, `RepairFail` and `LateExec` are the repair's writes, the failed
ones, and commands executed after their sender gave up. Pipelines of a repair
are unordered here (the code iterates over maps); inserts precede deletes.

`Lose(c)` is a cluster whose data is gone, at any moment: in the middle of a
pipeline, between the ZSCOREs of a repair, before its answer is gathered.
`roshi/README.md:160-163` and `roshi-walker/README.md:42-48` leave this case to
read repair. `Fragile` names the clusters it may happen to, `lost` (history)
those it has happened to.

Members and scores are integers: ranking by score, then by member, is what
Redis does. Of the scores only comparisons are used.

### ReadFirstLinger

The channel is unbuffered, so handing over an element is one joint step,
`Receive`. `Done`, `Close`, `Timeout` are the deferred `wg.Done`, the closing
goroutine and the timer. `LoopClosed`, `ReturnIncomplete`, `ReturnOne`,
`ReturnLinger`, `LingerEnd` are the ways out of the loop and of the read. The
token bucket is a free choice in `Permits`; `Timers` says whether there is a
timer, as there is none for a negative `farm.read.threshold.latency`.

### Pool

`get` and `put` run under the mutex, so each is one step, cut where `get` waits
(`Wait`, then `Retry` once signalled) and where it releases the mutex before
dialling (`StartDial`, then `DialOK` or `DialFail`). `Signal` picks any sleeping
goroutine. `WithIndex` is `Get`, `Do`, `Put`, with the deferred `put` of a nil
connection after a failed dial.

### Store, Paging, Walk, Reads

`data[c][k]` holds the two sorted sets of every key. The writes and repairs that
`Farm` sends reach a cluster at any moment and in any order, so the environment
of a reader executes any of a set of commands on any cluster.

A **listing** (`pager`) is a client that requests page after page with the cursor
of the last element it was given, until a page is empty. `PageAsk` is
`handleSelect` and the read strategy (one cluster at random, or all);
`RangeKey` one ZREVRANGEBYSCORE of `pipelineRangeByScore` with the cuts by start
and stop cursor, `EndAttempt` its ladder of attempts; `PageDone` the union, the
sort, `flatten` and the next cursor. The ladder's literals (10, 25, 100, 50 and 4
attempts) are the constants `Few`, `FewNext`, `Many`, `Step`, `MaxAttempts`. A
cursor is a pair of score and member. The server's `addCursor` is commented out,
so clients make their cursors themselves from the elements they get. Sorting by
score only (`keyScoreMembers.Less` of the farm) leaves ties in any order:
`Cuts` and `Last` range over all of them.

A **walk** is `Keys` (`KeysInstance`, `KeysScan`, `KeysEmit`, `KeysSend`,
`KeysReturn`, `KeysFlush`), the goroutine of `scan` (`hand`, the batch it holds)
and `walkOnce` (`WalkStart`, `ScanCluster`, `WalkReceive`, `WalkSelect`,
`WalkEnd`). SCAN is modelled by what Redis promises: what exists from the start
to the end of a full scan is returned at least once. `KeysScanFail` is an
instance that is down; the code tries it again after a second, for ever,
although the comment at `cluster.go:62-69` says that its keys are skipped.
`KeysSend` happens with the connection of the SCAN still held, and a Select
needs a connection to the same instance: `InUse`.

### Replay

A process is a replica; `<<r, k>>` is its do_actions goroutine of interleaving
`k` (0 is the recorded run). `SeeTurn` is the end of the loop around
`client.Get`, `AcquireLock` the SETNX (a taken lock skips the event, as the code
does), `Read`/`SetVal` the two halves of Inc and Dec, `Broadcast` ToMarshal and
the writes to the peers, `ReleaseLock` the unconditional DEL, `PassTurn` the
increment and Set. `Receive`, `MergeRead`, `MergeWrite` are handleConnection
and the unlocked Merge. `Line` is what `IlGen.cpp` writes: the recorded line
with its new place appended. The counter used is the one current when Merge or
Inc runs, as `counter` is a global that main replaces. main does not wait for
`do_actions`: a goroutine that waits for its turn stays in its interleaving while the
next one begins, and acts when the turn it waits for comes there. Two lines can then
be on one wire, of which `Receive` drops the second with its reader.

An event is `Misplaced` in a file if it comes after a later event of the same
replica. The replica then waits for ever at the later one (`server.go:72-82`), for a
turn that only its own next lines could bring. 28 of the 30 generated files have one.
`Undisturbed` says that no such file has been left behind.

### Crdt, JavaReplay, OrbitReplay, Orderings, Pruning, ErPi

`Crdt`: `obj[r]` is replica `r`'s object of class `kind`; each replica updates
(a counter under any key), merges another's object or becomes a copy of it. `seen[r]`
is history, the set of updates behind an object, against which the values are compared.

`JavaReplay`: `Start` is `crdts_run.sh start` (generate, then run Main), `Stop`
and `Clean` the others, at any moment. `make clean` removes the pid file before the
script looks for it (`Makefile:28`), so a clean does not stop Main. Main plays `InitRun` and records it
(`Line`), then file after file (`NextFile`) on the same two sets.

`OrbitReplay`: `Open` is the next file, with no database; `Command` one line of
it, skipped if its database does not exist. The order of the files is that of
their names as text, as in the code.

`Orderings`: `frames` is the stack of dfs, `visited` and `printed` its result;
`Shuffle` is one round of randomInterleave. `Pruning`: each program is an
operator from its input to the set of what it may write, or the outcome
"crashed" where it indexes an empty vector.

These programs share only files that are whole before the next one reads them,
so each behaviour of `ErPi` runs one of them, and the others stay as they begin.

## 3. Runs

| Run | Instance | Checks |
|---|---|---|
| `farm_walk` | 2 clusters, 1 member, scores 1, 2; insert 1 and delete 2; a walker; 1 failed connection or lost cluster | `TypeOK`, `LastWriterWins`, `NeverOlder`, refinement `ImplementsLWW`, `EventuallyConsistent` |
| `farm_quorum` | 3 clusters, quorum 2, 2 members; a two-tuple insert, a delete; a reader; 1 failed connection or lost cluster | `AckedWritesOnQuorum`, `ReadYourInserts` |
| `farm_capacity` | 2 clusters, quorum 1, 2 members, sets of size 1; a server with a queue of 1 | `TopOfInserts`, `ExclusiveAndBounded` |
| `pool` | 4 goroutines, 2 requests each, at most 2 connections | `TypeOK`, `Accounting`, `SingleOwner`, `NoLostWakeup`, `EveryoneServed` |
| `linger` | 3 clusters, 2 keys, 2 different answers and errors, with and without permit and timer | `TypeOK`, `NoSendAfterClose`, `LeftOutOnlyIfAllFailed`, `RepairsAllDifferences`, `NothingLeftBehind` |
| `reads` | 2 clusters, 3 keys on 2 instances, 3 members, scores 1, 2; a listing of one key, of two on one instance or of two on two instances, pages of 1, a ladder of 2 attempts, 1 failed connection; or a walk with batches of 2, 2 connections, 1 outage | `TypeOK`, `NothingSkipped`, `ListsEverything`, `TwiceOnlyIfTied`, `PageIsSnapshot`, `RefusedOnlyIfCrowded`, `EveryKeyWalked`, `WalksForever` |
| `replay` | 2 replicas, the recorded 6 events, then any of the 30 generated files | `TypeOK`, `SingleActor`, `RecordedOrder`, `StopsAtMisplaced` |
| `erpi` | 3 replicas of each class, 2 keys, 3 updates; the real InitRun, 6 events, 30 files, 3 starts or cleans; the OrbitDB facts; lists of 3 and 4 events; the 24 orders of 4 events | `TypeOK`, `MergeLaws`, `AgreesWithHistory`, `ORSetAddWins`, `FullAfterFirstRecord`, `LaterFilesShowNothingNew`, `WhatPrunedOrdersShow`, `EachOrderOnce`, `WhatPruningKeeps` |
| `farm_repair_score` | as `farm_walk` | `RepairsWhatWasReported` is **violated** |
| `farm_ties` | insert and delete of equal score | `OrderIndependent` is **violated** |
| `replay_order` | as `replay` | `ReplaysTheInterleaving` is **violated** |
| `replay_value` | as `replay` | `FinalValue` is **violated** |

Deadlock is not checked: the finite sets of writes, requests and events run out,
and then the system stops.

### Bounds, and why they are enough

Two clusters are enough for a disagreement and a repair in either direction,
three for a quorum that is neither one nor all. One write of each side with
different scores gives both directions of overtaking; a two-tuple write gives a
half-done pipeline. `MaxFaults` bounds failures: one failure already loses a
write on one cluster, keeps its commands on the wire, blinds one Score, or
empties one cluster at any step. The pool has more goroutines than connections
plus one, so that woken, sleeping and newly arriving goroutines coexist; each
makes two requests, so a goroutine can overtake one it woke. `linger` has a
cluster asked first and two asked later.

In `reads` one cluster has two members of equal score, a member shared by two
keys, and the other may lag behind, so pages of one listing disagree; pages of
one element put every element at a page's end, where a cursor is; a third member
that rises to their score exhausts the ladder. A listing of two keys on two instances
meets one instance that fails while the other answers. Three keys on two instances make
batches that are full in the middle of an instance and ones that are not at its
end. `MaxConns` is 2, the default of `redis.mcpi` (`roshi-walker/main.go:35`).

`erpi` has three replicas, so that objects meet through a third one; with three
updates an item is added again after it was removed, two replicas count under one key,
and one counts under two. 30 files is what the rule keeps
of the 720 orders, and all that Main plays. Three commands of the script allow
start, clean, start and start, start, clean. The events of `Lists` have a
repeated one, as the InitRun of Roshi has.

`replay` uses the recorded file and all 30 generated ones: `Permuted` is what the
rule keeps. `Last` is 1: each file is met, after the recorded run, once. What a file
leaves behind in later ones is outside the run (with `Last` 2 there are 900 pairs of
files and more than 16 million states). There TLC finds two lines on one wire, and
`SingleActor` and `RecordedOrder` violated if they are stated without `Undisturbed`: a
goroutine of the first file acts in the second. With it, the theorems of
`ReplayProofs` prove both for every `Last`.

The proofs remove the bounds for everything in section 5.

### Fairness

- `Farm`: weak fairness of the walker's read and repair steps. `roshi-walker`
  loops for ever and waits for each Select and each inline AllRepairs. Nothing
  is assumed of clients, servers or the network: a write may stay half-done and
  a late command may never arrive. `EventuallyConsistent` speaks of the inserts
  sets, which is what reads return and what the walker compares; a member that
  is deleted on one cluster and unknown on another is no difference to it.
- `Pool`: weak fairness of each goroutine: dials and requests have timeouts,
  and Go runs what is runnable. The code notes that starvation is possible
  (`connection_pool.go:53`): a goroutine may be overtaken again and again. With
  finitely many requests it is served in the end; with endless requests of
  others nothing is claimed.
- `ReadFirstLinger`: clusters answer (timeouts make it an error), the timer, if
  there is one, fires, goroutines run.
- `Reads`: weak fairness of the goroutine of Keys and of walkOnce; outages are
  finitely many. Nothing is assumed of writers or of listings.
- `Replay`: every process and goroutine goes on; the lock need not expire. The
  five-second sleep is taken to be long enough for every replica to have started,
  the ten-second sleep for everything that can still happen; Redis answers. A
  goroutine that waits for a turn nobody brings is not helped by fairness: it is the
  outcome `StopsAtMisplaced` expects.

## 4. What the runs show of the code

### The violated runs

- `farm_repair_score`: AllRepairs keeps `wasInserted` once any presence met on
  the way was inserted (`repair_strategies.go:130`). An insert with score 1 on
  cluster 1 and a delete with score 2 on cluster 2 are repaired to an insert with
  score 2 on both, against the example of `farm/README.md`. The same run in
  `farm_walk` still converges: the clusters agree on the wrong outcome.
- `farm_ties`: equal scores are accepted by the script, so the order of arrival
  decides. `cluster/README.md` claims order independence for all sets of
  operations.
- `replay_order`: `do_actions` reads the turn from the third field of a line
  (`server.go:68`). In the generated files that is the time of the first run;
  the new place is the fourth field. What is executed of a generated interleaving
  is in the order of the first run. (In 28 of the 30 files a replica waits for ever:
  `StopsAtMisplaced`, below.)
- `replay_value`: Merge runs without the mutex; a concurrent Inc or Dec is lost. Asked
  only of files that every replica gets through (`KeepsOwn`), so that the race is
  what is shown.

### Exceptions that the properties of passing runs state

- `StopsAtMisplaced`: an interleaving is replayed wholly only if its file has no
  misplaced event, as two of the 30 generated files; of the others the replay executes
  what comes, in the recorded run, before the first misplaced event, and then a replica
  waits for ever. "Subsequently, it replays the remaining interleavings"
  (`src/README.md:5`) is true of two files, and of their order of none.
- `SingleActor`, `RecordedOrder`: only while `Undisturbed`. After a file with a
  misplaced event its goroutine acts beside those of a later interleaving.
- `AgreesWithHistory`: counts of one key by several replicas may count as one, as
  merge takes the higher; a counter is exact where each key is counted by one replica.
- `NothingSkipped`, `TwiceOnlyIfTied`: SendAllReadAll loses the order of equal
  scores (`farm.go:249`), so a listing by cursor may skip or repeat tied elements;
  a coalesced listing has one cursor for equal elements of two keys.
- `ListsEverything`: an empty page ends a listing, also when it is empty because
  nobody answered for a key.
- `RefusedOnlyIfCrowded`: after the last attempt a key is refused on this page and
  all further ones if too many elements share the cursor's score.
- `NothingLeftBehind`: without a timer and without a permit, a failure of the one
  cluster asked leaves the read waiting for ever.
- `WalksForever` needs two connections per instance: with `redis.mcpi` 1, Keys and
  the Select of its own batch wait for each other.
- `FullAfterFirstRecord`: the first start after a clean generates the files before
  Main has recorded the events, so Main plays empty ones; a clean that meets a
  running Main leaves half a record.
- `LaterFilesShowNothingNew`: Main makes its sets once, so every file after the
  first shows what the first has left.
- `ORSetAddWins`: only one direction of "add wins" holds. `removeAll(removed)` at
  `ORSet.java:41` does not drop what the other replica has removed, so removed
  items may return; the property allows it.
- `WhatPrunedOrdersShow`: the rule `N1 < N2, N3 > N4, N6 = 6` loses two of the nine
  results that the orders of the OrbitDB events have.
- `EachOrderOnce`: randomInterleave never ends if two events are equal.
- `WhatPruningKeeps`: event_group writes single events, event_independence prunes
  nothing for two or more events, replica_specific excludes everything,
  failed_ops writes the interleavings it should exclude. event_independence and
  failed_ops crash if some interleaving has none of the events asked for, and
  only then. The emulators keep what is meant.

## 5. What is proved

Every safety property that a passing run checks is a theorem. The theorems hold for every value of the
constants that satisfies the assumptions named in the modules, and TLC evaluates
these in the runs:

| Assumption | It says |
|---|---|
| `LWWSetAssumption`, `FarmAssumption` | finitely many members, integer scores, a quorum between 1 and the number of clusters, any set of clusters that may lose their data |
| `PoolAssumption` | finitely many goroutines, at least one connection |
| `LingerAssumption` | some, and finitely many, clusters and keys |
| `StoreAssumption`, `PagingAssumption`, `WalkAssumption`, `ReadsAssumption` | each key has one instance; requests are finite; cursors are pairs of numbers; a highest score exists (scores are float64); pages, batches and connections are at least one; before a reader starts only inserts were stored |
| `ReplayAssumption` | recorded events have their times 1 to n, as `server.go` records them |
| `CrdtAssumption`, `JavaReplayAssumption`, `OrderingsAssumption` and those of `OrbitReplay`, `Pruning` | bounds are numbers; lists of events are sequences, not empty; lines have two fields; InitRun is a sequence and there are at least 6 events, as the Datalog rule names the sixth |

Some theorems have a hypothesis beside these. `Fits` says that the sets can hold
all members; comparing clusters makes no sense when each evicts what it likes.
`ReadCorrect` needs a read that asks for at least as many elements as there
are members, or an element is missing because the page is short. The instances of the runs satisfy them.
Those of `InterleavingProofs` that are about given files say what they need of them
(`DistinctLines`, `InitRunSettles`, `RuleKeepsAnswers`, `DistinctInputs`, all in
`ErPi`); the ASSUMEs of `MCErPi` have TLC evaluate all four for the files of the
repository and the inputs of the run.

`LWWSetProofs`: what the sorted-set operators and the script return, preserve and
bound. `ScriptExclusive`: the script keeps the sets disjoint. `ScriptBounded`: it
keeps them within `MaxSize` (through `TopBounded`, which needs that `Above` is a
strict total order). `ScriptStanding`: under `Fits` the script changes only its own
member's standing, to the new command unless a higher score is known.
`TopFull`, `TopAdd`, `Raise`, `ScriptTop`: cutting a set to the best n after each
addition or at the end is the same.

`FarmProofs`:

- `TypeCorrect`. Inductive invariant `TypeOK /\ JobOK`; `JobOK` says a scoring job
  is at a real cluster, without which `rep[job.at]` has no meaning.
- Every step of a request, whatever process takes it, changes `rep` and `applied`
  by nothing or by exactly one `Execute` (`StepExecutes`); `Lose` empties both at
  one cluster (`LoseEmpties`). So the next three need only the lemmas on the
  script and the standing of an empty replica (`EmptyStanding`).
- `ExclusiveCorrect`: `ExclusiveAndBounded`, for every `MaxSize`.
- `LastWriterCorrect`: `LastWriterWins`, inductive by `WinsStep`: after a script
  the standing is that of a top command of the commands executed so far.
- `NeverOlderCorrect`: the action property `NeverOlder`, of all steps but `Lose`.
- `Refinement`: under `Fits`, `Spec => ImplementsLWW`; an `Execute` maps to
  `LWWExecute`, `Lose` to `LWWReset`, every other step to a stutter.
- `AckedCorrect`: under `Fits`, `AckedWritesOnQuorum`. Its invariant `QuorumInv`
  follows a write from the script to the client: what a cluster executed is in
  place or superseded, unless it has lost its data (`ExecutedIsCovered`, kept by
  `NeverOlderStep`), a cluster that answered has executed all tuples
  (`AnsweredIsExecuted`), and success is reported only with a quorum of answers
  (`ReportedIsAnswered`). The property alone is not inductive: it says nothing of
  writes not yet reported.
- `ReadCorrect`: `ReadYourInserts`. A read is many steps, during which clusters
  are written, repaired and lost, so the quorum is counted over time: `ReadInv`
  says that, for every insert acknowledged before the read began, a quorum of
  clusters has shown its tuple to the reader, or has answered the write and is
  still to be read, or is lost. A cluster does not leave this set. At the end of
  the read it meets every set of answers that the property speaks of.
- `TopCorrect`: `TopOfInserts`. `TopInv`: a cluster that has executed only inserts
  has an empty deletes set and holds the best `MaxSize` of what it was given.
- `RepairCorrect`: under `Fits`, when a repair none of whose writes failed is over,
  every cluster that keeps its data has the highest score that the repair found for
  a member, or a higher one. Scores are read one by one, those of a cluster may be
  missing, and others write meanwhile. `LevelInv`: what was scored is still covered
  where it was found (`ScoredJob`), and once there is a plan each cluster is covered
  or has its command in the plan (`PlannedJob`). `HighestFound` is that the first walk
  over the presences finds a maximum of the scores that are not negative. This is the
  safety half of `EventuallyConsistent`. The side that is written may still be the
  wrong one (`farm_repair_score`).

`PoolProofs`: `Inv == TypeOK /\ HeldOK /\ Accounting /\ SingleOwner /\ NoLostWakeup`
is inductive. `HeldOK` ties the program counter to the connection held; the
accounting needs it to know who counts, and the wakeup argument needs the
accounting, since a goroutine that reuses or dials takes a free slot. The
theorems are the conjuncts. `Accounting` shows that the branches of `get` and
`put` that do not count, or throw a healthy connection away, are never taken.

`LingerProofs`: `LInv` counts whom the WaitGroup waits for (`CountOK`: clusters not
yet asked and goroutines not yet done), says how far each goroutine is
(`GoroutineOK`), that a cluster answers a key once and nothing asked for is lost
(`AnswerOK`), and what the ways out of the read leave (`OutcomeOK`). From these
`TypeCorrect` (the counter never goes below zero), `SendCorrect`,
`LeftOutCorrect` and `RepairsCorrect`.

`ReplayProofs`: for any replicas, any recorded events, any files and any number of
them.

- `TypeCorrect` holds whatever earlier interleavings leave behind. Its invariant
  `BaseInv` adds to the types that a goroutine that is awake woke when all had begun
  and is at a line of its file (`Begun`), and what is under way (`UnderWay`).
- The turn in Redis is a token. `ReplayInv`, inductive while `Undisturbed`, says where
  each replica is relative to it: an awake replica of the interleaving under way has
  executed its events before the turn and nothing after (`Placed`), a sleeping one
  nothing (`Asleep`), no event before the turn is misplaced (`InOrder`), all replicas
  are in the same interleaving or about to enter it (`RoundsOK`), what was executed is
  what is before the turn (`LogOK`). So at most one replica acts, whose event the turn
  is; the lock that may expire is not needed for it. `OneAtATime` (`SingleActor`) and
  `RecordedOrderKept` follow.
- `OverAtMisplaced`: where all has happened that can, the turn stands at the first
  misplaced event of the file or after the last event. This is the safety half of
  `StopsAtMisplaced`: which replicas wait for ever, and what was executed before.

`ReadsProofs`:

- The walk: a key that some cluster holds throughout is ahead of Keys (`Ahead`) or
  in one of the hands it goes through (`Taken`), however batches end, SCANs fail
  and the Selects wait. `WalkCorrect` is `EveryKeyWalked`.
- The pages: `WhatIsAnswered` is one ZREVRANGEBYSCORE. `SnapshotCorrect` and
  `RefusalCorrect`, the action properties `PageIsSnapshot` and
  `RefusedOnlyIfCrowded`, are its two outcomes.
- The listing: `PageOK` is what a page holds of the elements that all clusters hold
  throughout, `GivenOK` how the cursor stands to what was given; `KeyPage` and
  `NextPage` say what the next page does to both. `SkipCorrect`, `ListingCorrect`
  and `TwiceCorrect` are the conjuncts.

The attempt to prove `ListsEverything` failed first: the model let a listing forget
that nobody had answered for a key once a later page was answered. `blind` now
stays, and the runs list keys of two instances, which shows the difference.

`ErPiProofs`:

- The CRDTs: each object is a function of its replica's history, but for ORSet,
  which is bounded by it (`Agree`). A count is at most the number of updates of its key
  that the replica knows, and the updates a replica has made under a key reach others
  in the order it made them (`InOrderOfWriting`). So if one replica only counts
  under a key, two histories agree on it or one extends the other, and the
  maximum of two counts is the count of the union (`Counted`). `MergeLaws` needs no such
  condition.
  `MergeCorrect`, `HistoryCorrect` and `AddWinsCorrect` follow from `AppInv`. The sum
  of a map (`GGet`, a fold over sets) is proved to count (`GGetCounts`) by a least
  counterexample, as induction theorems cannot be instantiated; likewise that there
  are at most n! permutations (`PermutationsCounted`).
- The generators: `GeneratorsCorrect` is `EachOrderOnce` for any list, with equal
  events or not. The stack of dfs is a path of prefixes whose loops have visited
  what they have passed (`Stack`); a visited prefix that is off the stack has all its
  successors visited (`LeftBehind`); what is printed is the visited orderings off the
  stack, once each (`Output`). `SameChoices` is why equal events do not hide a
  branch: two permutations that begin alike have the same events left, counted.
- `TypeCorrect`: from these, and that Main's sets remain two-phase sets and the player
  has one answer per file it opened.

`InterleavingProofs`:

- `FullRecordCorrect`: `FullAfterFirstRecord`, if the lines of InitRun are distinct and
  not fewer than the events (`DistinctLines`). `RecordInv`: unless a clean met a running
  Main, the record begins with what the first Main recorded of InitRun; the Main that
  runs goes on where the record ends or repeats InitRun from its first line
  (`Begins`, `Read`); all files are whole or none is (`AllFull`). `FullIff` is the
  counting: a row of six or more numbers finds all its lines exactly if all were
  recorded.
- `NothingNewCorrect`: `LaterFilesShowNothingNew`, for every InitRun that settles
  (`InitRunSettles`): its additions and removals all reach the set they name, and its
  first set ends within its second. Then replaying lines of it changes nothing but
  that a merge into the first set makes that equal to the second. `ShownInv` says that
  all files have the same lines (`Alike`), so either each of them merges or none does,
  and what Main's sets are from the first file on (`Later`, `Known`), also when a clean
  removes the files while Main plays.
- `PlayerCorrect`: at the end of a file the player has shown of each file it played
  what `Answers`, which looks at the order as a whole, says of it, for any lists of
  calls. `PlayerInv` relates the databases to the lines read so far (`AtLine`).
- `PrunedOrdersCorrect`: `WhatPrunedOrdersShow`. That each file is played once comes
  from `Filed` being a permutation, which is proved; that the kept orders show all
  answers but one is a fact about the six recorded events (`RuleKeepsAnswers`).
- `PruningCorrect`: `WhatPruningKeeps`, for interleavings of the same distinct events, of
  any length and number, and any events asked about (`DistinctInputs`). The programs
  take one step, so the invariant only says that the outcome is one of `Results`; the
  work is in what the operators return. `IndependenceKept`, `FailedKept` and
  `ReplicaKept` are the programs, `CrashesAsMeant` when two of them crash; `GroupedKept` is that the orders of the list with the
  pair as one item are those in which the two are neighbours. For replica.py, orders
  alike up to the last B are a block of consecutive orders of their group, whose size
  is the step by which orders are kept, so each block has one.

`Selected` and `Sorted` choose the k-th element by counting those before it; the
lemmas at the beginning of the module say that this lists a finite set in a strict
total order.

### Only model-checked

Out of the proof system's reach: liveness under fairness and ENABLED
(`EventuallyConsistent`, `EveryoneServed`, `StopsAtMisplaced`,
`NothingLeftBehind`, `WalksForever`).

`RuleKeepsAnswers` and `InitRunSettles` are evaluated by TLC for the files in the
repository: other events have other answers. That replica.py keeps one order
of those that are alike is proved for lists of five items, for which its literals 3
and 5 are written.

## 6. What is not modelled

- Several keys per write, and in `Farm` the split of a cluster into instances: keys
  are independent, and a partial failure of an instance is a partial failure of
  the tuples it holds. A failed Score affects one key's members here. `Store` has
  several keys and instances for the readers.
- The text of cursors (`common/cursor.go`): String and Parse are inverses; hashing,
  the farm string, HTTP, JSON, flags, metrics: no state that the properties are
  about.
- Rates: RateLimited, the permit of the linger read and the walker's tokens are
  free choices or left out.
- A cluster that comes back with an older snapshot. Coming back empty is `Lose`;
  a snapshot would be some, but not all, of the commands executed, a case between
  `Lose` and nothing.
- In Replay: Redis failures (`server.go:128` ignores them), a replica that starts
  more than five seconds late (`server.go:204`), and delay events, which the recorded
  file does not contain. Lines that a buffered reader drops (`server.go:262`) are
  modelled, but occur only beyond the runs' `Last` (section 3), and no property is
  about them.
- Sets that overflow, for the properties that compare clusters (`cluster.go:103`),
  and negative scores (`repair_strategies.go:122`): scores are timestamps.
- In JavaReplay: a second start while Main runs, and the gradle child that `stop`
  may leave running. `TwoPSetInvocationHandler` is used by nothing.
- The real OrbitDB: the repository has a stand-in, `odb-Api.js`, which is modelled.
- The text of the Datalog programs, and souffle: the rule is modelled by the orders
  it keeps, the engine by the order in which it writes them.
- Source rewriting (`ast_rewrite.go`, `wrapper.go`): text to text, once.
- Redlock and the Lamport clock: copies of third-party code that nothing here
  builds, links or calls. `_vendor`, `hiredis` and `sds` likewise.

## 7. Plan

1. (done) Core: `LWWSet`, `Farm`, `LWWElementSet`, their runs and theorems.
2. (done) `Pool` with its theorems; `Replay`; `ReadFirstLinger`.
3. (done) Proof of `AckedWritesOnQuorum`; lost clusters, in runs and proofs.
4. (done) Paging and the walk; Java CRDTs and driver; OrbitDB; generators; pruning.
5. (done) Proofs of `ReadYourInserts` and `TopOfInserts`; `ReadFirstLinger`; `Replay`.
6. (done) Proofs for listings and walks; for the CRDTs and the generators.
7. (done) Proofs for Main and its record, the OrbitDB player, the pruning programs and
   the emulators.
8. (done) Proof that a repair brings every cluster to the scores it found, the safety
   half of `EventuallyConsistent`.
