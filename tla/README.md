# GVS: models, checks and proofs

GVS is a collection of graph-based vector search methods: an HNSW code base in
several variants (`SeedSelections`, `NeighborhoodDiversification`, `code/hnsw`,
`code/ELPIS`), and the third-party methods they are compared with (VAMANA/DiskANN,
SPTAG, NSG, SSG, kgraph, DPG, HCNNG, EFANNA, LSH-APG, NGT). This directory holds
TLA+ models of the parts whose correctness depends on more than arithmetic:
concurrent construction, shared pools, modes and protocols, messages that get lost, and
parallel searches.

`PROJECT.json` maps every definition to the source lines it models and lists the
runs, the mutants, the hazards and the theorems.

## 1. Inventory

| component | state | operations | hard behaviour |
|---|---|---|---|
| HNSW insertion (`hnswalg.h`, `addPoint`) | element count, levels, link lists, entry point, maximal level; one mutex per element, 65536 update mutexes, `global` | `addPoint`, called by an OpenMP loop | nested locks, entry point read outside its lock, lists filled by several calls |
| HNSW with k-sampling (`addPoint_ksrep`) | the same | search from a random sample of the ids | the sample may meet elements that are still being inserted |
| visited list pool (`visited_list_pool.h`) | deque of tagged arrays | take, reset, mark, release | 16-bit tags wrap, memory not initialised, reset outside the mutex |
| HNSW queries | none that is shared but the pool | `searchKnn`, `searchGraphBsl*` | sequential in the drivers |
| VAMANA dynamic index (`code/VAMANA/src/index.cpp`) | tag/location maps, delete set, empty slots, graph, five mode flags, `_change_lock` | insert, eager and lazy delete, enable/disable delete, consolidate, compact, save | flags read outside the lock, modes that only some orders of calls keep consistent |
| VAMANA construction (`link`, `inter_insert`) | `_final_graph`, `_in_graph`, one mutex per node | two rounds of batches, pruning, reverse links, cleanup | edges and in-edges kept in two structures that every later call must keep together |
| VAMANA disk index | pool of thread data in a `ConcurrentQueue` | pop, push, notify | waiting with a mutex other than the queue's |
| SPTAG BKT and KDT indexes (`BKTIndex.cpp`, `VectorIndex.cpp`) | samples, graph, deletion labels, metadata and its map; `m_dataAddLock`, `m_dataDeleteLock`; the saved files | add, delete by id or metadata, refine, save, load | three tables that grow one after the other and may each fail, saving while adding, ids that compaction moves |
| SPTAG sockets | connection table with slots reused by id, stop and heartbeat flags | add, remove, get, send, fail | late failures of an old connection |
| SPTAG client, aggregator, server | callback tables with timeouts, counters, server list | send query, response, timeout, reconnect, merge | a failed send and a timeout both complete the same query; a response for a connection that is gone |
| SPTAG thread pool | job queue, abort flag | init, add, get, destructor | notification without the mutex |
| SPTAG SPANN index | posting lists on disk | search | headers missing in the repository |
| ELPIS query engine (`QueryEngine.cpp`) | queue of tree nodes, candidate leaves, shared best-so-far, a queue and visit flags per worker | search of the first leaf, tree search, parallel leaf search, merge | compare and overwrite under separate locks, copies in every worker's queue, 16-bit flags shared by the engine and a worker |
| other methods, tools, vendored code | | | not modelled (third party, arithmetic or scripts) |

Interactions: the drivers' `main.cpp` call `addPoint` from a parallel loop; every
search of `addPoint` takes a list from the visited list pool; ELPIS builds one HNSW
graph per leaf and queries them from its workers; in SPTAG the client wrapper sends a query
to the aggregator, which asks the search servers and merges their results, all three on socket
layers that own a connection manager; the dynamic index keeps its slots and its graph in step.

What makes each part correct: for the insertion, that no set of calls waits for
one another, that lists keep within their memory and only hold initialised
elements which have the level, and that every element gets linked; for the pool,
that each search sees a set of its own, empty at first; for the dynamic index, that
a tag always leads to the live point it was inserted with and that an operation
which refuses to run leaves the index usable; for its graph, that no edge leads to a slot without a point;
for the SPTAG index, that its tables agree, that a metadata leads to its latest vector, and that what a save
wrote is what was there; for the socket users, that a query is completed once, with its own result, and that
its sender is never left waiting; for ELPIS, that the answers are the nearest points that any worker found.

## 2. Modules

| module | what it is |
|---|---|
| `HNSWInsert` | `addPoint` with its locks: state, one action per critical section, fairness |
| `HNSWInsertProps` | properties of the construction and its inductive invariant |
| `HNSWInsertProofs` | the proofs, for every value of the constants |
| `HNSWInsertKSRep` | `addPoint_ksrep`: the search that starts from a sample |
| `HNSWInsertKSRepProofs` | that one thread keeps the invariant of `HNSWInsert`, for every margin and sample |
| `VisitedSets` | abstract: each search owns a set of visited nodes |
| `VisitedListPool` | the pool of tagged arrays, its properties, its refinement mapping |
| `VisitedListPoolProofs` | its invariants and that it implements `VisitedSets` |
| `TagStore` | abstract: a bounded set of tags, changed by inserts and deletes only |
| `VamanaDynamic` | slots, tag maps, mode flags and `_change_lock` of the dynamic Vamana index |
| `VamanaDynamicProofs` | its invariants and that it implements `TagStore`, for every number of tags and slots |
| `VamanaGraph` | `link`, and the edges and in-edges through every call of `VamanaDynamic`, whose actions are conjuncts of its own |
| `VamanaGraphMC`, `VamanaGraphProofs` | the instance for TLC; the invariant of the graph, and that it implements `VamanaDynamic` |
| `VectorStore` | abstract: a set of vectors and one saved copy of it |
| `SPTAGIndex` | adding, deleting, refining, saving and loading, by several threads, with restarts |
| `SPTAGIndexMC`, `SPTAGIndexProofs` | the instance for TLC; its invariants and that it implements `VectorStore` |
| `SPTAGQuery` | client, aggregator and servers, their connections and packets, failures, timeouts, redialling |
| `SPTAGQueryMC`, `SPTAGQueryProofs` | the instances for TLC; what is owned by whom, what happens once, what the counters count |
| `ELPISQuery` | one query after another: first leaf, tree search, workers, merge |
| `ELPISQueryMC`, `ELPISQueryProofs` | a tree of four leaves for TLC; the invariants, for every tree |

### HNSWInsert

An id `i` names an element and the call of `addPoint` that inserts it: ids are
handed out by `cur_element_count` under its guard (`Reserve`), and no id is used
twice. The index variables carry the source's names; `linkList[n][l]` is the list
of element `n` at level `l` as a set (that a set is enough, i.e. that no id is
appended twice, is the property `LinkedOnce`).

*Distances are not modelled.* Where the code compares two distances the model takes
both branches, so that the checked behaviours cover all data sets, metrics and
random levels: a search may accept any neighbours (but all of them while there is
room in the results: `Accepted`), pop any candidate, and stop only when each result
has been scanned (`Scanned`); the four pruning rules return all of fewer than `M`
candidates, and any non-empty subset of at most `M` of more (`Heuristic`).

*Locks.* A critical section under `link_list_locks_[n]` which takes no further
lock is one action that is enabled when nobody keeps that mutex. The mutexes kept
while waiting for another one are variables: `listLock` (the call holds its own
element's list lock and its update lock, from `LockElement` to `Return`) and
`global` (kept from `LockGlobal` to `Return` by a call whose level exceeds
`maxlevel_`). Calls that wait are exactly those whose next action is disabled by one of
these variables (`WaitsFor`).

| action | code |
|---|---|
| `Reserve` | the block under `cur_element_count_guard_`, in the order of `add_data` (element 0 alone) |
| `LockElement` | update lock, own list lock, random level |
| `LockGlobal` | `global`, `maxlevelcopy`, early unlock |
| `ReadEntry` | `currObj = enterpoint_node_`, after the unlock |
| `InitElement` | `memset`/`memcpy` and the choice between first element, descent and search |
| `First` | the branch of the first element |
| `Descend` | one pass of the greedy descent under the list lock of `currObj` |
| `Expand` | one iteration of `searchBaseLayer` |
| `SelectNeighbors` | pruning of the results, own list written |
| `Connect` | one iteration of the loop over `selectedNeighbors` |
| `Publish` | new entry point and level |
| `Return` | destructors of the locks |

Left out: the update of an existing label (`updatePoint`; the drivers number the
labels), deletion marks (never set by the drivers), and the exceptions that the
properties show cannot be thrown. `malloc` does not fail.

### HNSWInsertKSRep

It reuses the actions of `HNSWInsert` and replaces the start of the search. The
literals 10000 and 100 of `searchBaseLayer_ksrep` are the constants `SampleMin` and
`SampleMargin`, and `getL` is `SampleSize`; the code's values satisfy the
assumption `KSRepAssumption`. `Sampled` reads `cur_element_count` without a lock, as the code does.

### VisitedListPool

The pool's deque is a set (which list is taken does not matter); `mass` starts with any contents
(`new vl_type[n]` does not initialise) and tags are counted modulo
`Tags` (65536 in the code). Taking a list and resetting it are two actions because
`reset` runs outside the mutex. The mapping to `VisitedSets` sends a searching thread to
the nodes whose mark equals the tag of its list; taking and releasing map to stutters
or to the end of the abstract search.

### VamanaDynamic

The state of `Index` that its calls hand to one another: the two tag maps, the slots
(`point[s]` is the point whose vector and adjacency list are in slot `s`; the frozen
start node is `Start`, its slot `ep`), `_delete_set`, `_empty_slots`, `_nd`, the five mode
flags, and whether `_change_lock` was left locked. Each call that changes state is one
action, because each runs under `_change_lock` or, for `save` and `readjust_data`, alone.

| action | code |
|---|---|
| `InsertPoint` | `insert_point` with `reserve_location` where an order flag is set |
| `EnableDelete` | `enable_delete`, with the free slots it records |
| `DeletePoint`, `EagerDelete` | `delete_point` (mark), `eager_delete` (take out of the graph, count down) |
| `DisableDelete` | the size checks (`SizesMatch`), `consolidate_deletes` with its count of the slots (`SlotsCounted`), `compact_data` |
| `Save` | compaction after eager deletes, the lock; what is written is `Written` |
| `ReadjustData` | the frozen point goes back to its slot |

`CompactData` states the outcome of the loops of `compact_data`: since slots are
renumbered in their order (`NewLocation`), every `memcpy` and `swap` goes to a slot whose
contents have already moved or are dead. Which edges a list holds is left to `VamanaGraph`.

*The callers* follow `tests/test_incremental_index.cpp` and the comments of `index.h`:
deletes of one kind between `enable_delete` and `disable_delete(..., true)`, `save`
after a round of eager deletes, `readjust_data` before the next insert. Where these leave
a choice that the code does not survive, it is a member of `Liberties`: `save_first` and
`eager_twice`. The passing run has none of them, each of the others has one. One more is excluded
(`SlotsKnown`): a round begins with a full index or with both order flags set, since otherwise `enable_delete` does not record the free slots and consolidation takes them for points.
Outside of rounds one order flag is always set (`NextSlotFree` includes this), so the branch
of `reserve_location` that reuses an empty slot is reached only by an insert
while deletes are enabled, which no caller makes; it is not modelled.

*Assertions.* The model is the release build (`cmake -DCMAKE_BUILD_TYPE=Release`, where `code/VAMANA/CMakeLists.txt:107` defines `NDEBUG`): an
assertion that fails is passed over. In a build with assertions the program stops in some of the rounds modelled here:
at lines 1494 and 1586 (`!_consolidated_order`) in a lazy round that follows a lazy round, the index being full again, since `enable_delete` resets the order
flags only when both are set; at 1512 in a lazy round, and at 1577 in the save after an eager one, when the round began with free slots
that `enable_delete` recorded, since such slots are neither kept nor deleted. In the release build these rounds end well, as the properties show.

`Live`, the set of tags that lead to their own points, implements `TagStore`.

### VamanaGraph

`lists` is `_final_graph` and `inGraph[j][i]` says how often `i` stands in `_in_graph[j]` (`inter_insert`
appends there without a look). Each action conjoins the action of `VamanaDynamic` with what happens to the
edges, so that the theorems about `VamanaDynamic` carry over (`GraphRefinement`).

| action | code |
|---|---|
| `LinkBatch` | one of the batches of `link`: search, pruning, `batch_inter_insert`, and the pruning of lists that got too long |
| `FinishBuild` | the final cleanup of `link` and `update_in_graph` |
| `GraphInsert` | `insert_point`: search, pruning, `_in_graph`, `inter_insert` with its pruned neighbours |
| `GraphEagerDelete` | the point is taken out of the lists `_in_graph` names; the visited in-neighbours choose anew |
| `GraphDisableDelete` | `consolidate_deletes`, `update_in_graph`, compaction with renumbered edges |
| `GraphSave`, `GraphReadjustData` | compaction after eager deletes; the frozen point's list moves back |

A search may expand any set of nodes the lists lead to (`Expanded`) and pruning may keep any of its candidates,
the nearest included (`OccludeList`). `SLACK_FACTOR` 1.3 is kept in `HasSlack` and `Overfull`. Threads that add reverse links in one batch only add to
sets under the nodes' locks, so a batch is one step. `readjust_data` runs only after a compaction has moved the frozen point.

### SPTAGIndex

A vector is its place in the order of requests and the metadata that came with it. `AddIndex` takes a step for each part that other
threads can tell apart:

| action | code |
|---|---|
| `AddBegin` .. `AddUnlock` | `AddIndex` under `m_dataAddLock`: samples, graph, labels (each `AddBatch` may fail: `Rollback`), a metadata record at a time, then the map |
| `Build` | the first vectors, `BuildIndex` and `m_bReady` |
| `UpdateMetaMapping` | the old vector of a metadata is deleted and the new one mapped |
| `DeleteFound`; `LookUpMeta`, `DeleteMeta` | `DeleteIndex` by id; by metadata, which looks the id up first |
| `OpenFiles`, `ChoosePath`, `SaveMetadata`, `SaveIndexData` | `SaveIndex`: files truncated, then metadata without a lock, data under both |
| `RefineLock`, `KeepId`, `MoveLast`, `WriteRefined` | `RefineIndex`: the loop that gives ids of deleted vectors to the last ones, and `RefineMetadata` |
| `Restart` | the process ends in any state; `LoadIndex` in the next one |

`Dataset`, `Labelset` and the graph classes are in headers that the repository lacks; they are used as tables of as many rows as were
added to them. The metadata set drops records that do not fit and reads past its end (`Recorded`, `MetaAt`); `lost` notes it.
Trees and graph decide what a search finds, not what is stored, and are left out.

### SPTAGQuery

| part | state | actions |
|---|---|---|
| main of the client | `pc`, `sent`, `via` | `RegisterQuery`, `SubmitQuery` (`SendQueryAsync`), `WaitAllFinished`, `WakeSpuriously` |
| its callbacks | `callbacks`, `count`, `jobs`, `answers` | `TimeOut`, `SearchResponseHandler`, then per job `RunCallback`, `DecreaseUnfinishedJobCount`, `NotifyWaiting` |
| its connection | `conn`, `table`, `dialled`, `dialling` | `HandleDeadConnection`, `ConnectToServer`, `RefuseConnection`, `StoreConnection`, `GiveUpDialling` |
| links | `up`, `reports`, `net` | `Break`, `RemoveConnection` (by slot, as the code), what of the packets is lost and which writes fail |
| aggregator | `pool`, `nextId`, `contexts`, `aggCallbacks`, `aggJobs` | `SearchRequestHandler`, `AskServer`, `StoreResult`, `FinishJob`, `AggTimeOut`, `AggResponseHandler` |
| servers | `status`, `cid`, `live`, `inTable`, `dial`, ... | `Search`, `BreakServer`, `ServerClosed`, `ConnectToPendingServers`, `Dial`, `StoreServerId`, `StoreServerStatus` |

A callback at work is a job whose steps interleave with everything else, because handlers run in a pool of threads. A query is a client and its
resource id, and all clients use the same resource ids, as `Helper::CallbackManager` counts from 1 in each. Distances are left out: a result is
the set of servers that answered and for whom. `AddConnection` and `RemoveConnection` are single steps.

### ELPISQuery

Distances are small numbers and a leaf's graph is left out: searching a leaf may find any points at any distance that the lower bounds of the nodes
above it allow (`Finds`, `MayHold`), the entry point twice. A point in a queue says in which leaf it was found and whether it is one of the copies
each worker begins with.

| action | code |
|---|---|
| `SearchAppNode` | routing, `searchGraphLeaf` of that leaf, `kth_bsf` |
| `PopNode` | one iteration of the tree search: a leaf becomes a candidate, an inner node gives its children |
| `StartWorkers` | end of the tree search, `qwdata` set up, `copypq` |
| `ReadBsf`, `SkipLeaf`, `SearchLeaf`, `WriteBsf` | an iteration of the OpenMP loop (`schedule(static, 1)`): read under the read lock, skip or search, overwrite under the write lock |
| `EndWorkers` | the second loop: `localknn` |
| `MergeNext`, `Answer` | the merge and the results |

`found`, `skipped`, `used` and `stale` are for the properties. Variables that the code leaves with values nobody reads are set back to one value.

### Definitions headed "Variant" or "A wrong version"

They are the definition that follows them with a plausible mistake. No
specification uses them; they show that each property notices a fault of the code.

## 3. Runs

| run | bounds | what it shows |
|---|---|---|
| `hnsw_insert` | 4 elements, M = 2, results of 2, levels 0..1, 3 threads, 3 update locks | safety and action properties, and `AllInserted`: every call ends |
| `ksrep_sequential` | 5 elements, margin 1, one thread | sampling is safe when insertions do not overlap |
| `ksrep_parallel` | 4 elements, margin 2, two threads | *violation*: sampling can reach the caller's own element, which then waits for itself |
| `visited_pool` | 2 threads, 2 nodes, 3 lists, 3 tags | exclusive lists, bounded growth, refinement of `VisitedSets` |
| `vamana_graph` | 4 slots, 4 tags, 3 points at first, R = 1, 2 batches per round | 8 thousand states; building, rounds of both kinds, compaction, saving, readjusting; refinement of `TagStore` |
| `vamana_save_first` | 5 slots, 5 tags | *violation*: a first save leaves `_change_lock` locked |
| `vamana_eager_twice` | the same | *violation*: two eager rounds in a row lose a live point |
| `sptag_index` | 2 adding threads, 2 metadata, capacity 3, 4 vectors, batches of 1 or 2 | 1.7 million states; failed growth, refines, restarts; refinement of `VectorStore` |
| `sptag_query` | 2 clients, 1 server, one slot, 2 ids, 1 break | 1.5 million states; answers go to the right query, once |
| `sptag_query_servers` | 1 client, 2 servers, 2 dials each, 2 reports per broken link, 1 break | 340 thousand states; merging, and liveness |
| `elpis_query` | 4 leaves, K = 2, 3 probes, 2 workers, distances 0..2 | 1.2 million states; pruning, shared bound, merge |
| `elpis_tags` | K = 1, one worker, two queries, 65536 tags | *violation*: a search begins with a tag already used |

The properties of `hnsw_insert`, and what in the code each is about:

- `NoCircularWait`: no set of calls waits for one another (nested mutexes).
- `LinksWellFormed`: links join two distinct, initialised elements that have the level.
- `ReadsAllocated`: the list that is locked next exists (entry point read late).
- `DegreeBound`: a list stays within `maxM0_` or `maxM_` entries.
- `BlankOwnList`, `LinkedOnce`, `SettledNeighbours`: what `mutuallyConnectNewElement` takes for granted.
- `KeepsNeighbour`: pruning never empties a list.
- `EntryRises`: the entry point only moves up, to a fully linked element.
- `LockedListsStable`: nobody else writes the lists of an element in progress.
- `AllInserted`: every element is inserted in the end.

Those of `vamana_graph`:

- `EdgesKnown`: an edge joins two different slots that hold points, and `_in_graph` knows it.
- `TagsLead`: the maps are inverse, a tag leads to its own vector in a slot in use.
- `DisableAccepts`: `disable_delete` returns no error in any round, and of the counts it asserts those of lines 1497 and 1498 hold; that of the slots
  (lines 1512 and 1577) holds exactly in rounds that began with a full index. Lines 1494 and 1586 are not claimed (section 2).
- `NextSlotFree`: an insert overwrites neither a point nor the frozen one.
- `SaveComplete`: a saved file has the list of every point with a tag.
- `StartKept`: the start node is where searches or `readjust_data` look for it.
- `StoreSpec`: refinement; compaction, saving and readjusting neither lose a point nor bring one back.

Those of `sptag_index`:

- `RowsAgree`: samples, graph and labels have one length whenever the add lock is free, and no label or mapping is beyond it.
- `MetadataAligned`: record i belongs to vector i, unless records were dropped.
- `LatestIsMapped`: a metadata leads to the one live vector that was added with it last, also after a save and a load.
- `Compacted`: the loop of `RefineIndex` lists each live vector once, in a place it may be in, with its inverse.
- `StoreSpec`: refinement; no live vector is lost, and a file that can be loaded holds what was live when it was written.

Those of the query runs:

- `OwnAnswer`: a callback gets results of its own query, though ids of resources and slots of connections are used again.
- `OneResult`: a query is answered once, except that a failed send may be followed by a timeout.
- `WaitMeansAnswered`: main goes on only when its queries are answered. The code makes exceptions, which the property names: a timeout
  decreases the count before it calls, a failed send is counted twice, and the wait is not in a loop.
- `ResponseCount`: the aggregator responds once, or twice when a send to a server failed.
- `NothingMissing`: what a client gets holds what every server that was asked has found, unless that server timed out or a send of this search failed.
- `EveryQueryAnswered`, `WaitReturns`, `EverySearchEnds`: liveness of the client's query, of its wait and of the aggregator's search.

Those of `elpis_query`, all for a first search that filled the queue (section 5 proves that the first one of an engine does):

- `AnswersMerged`: the answers are K points, and none that anybody found is nearer.
- `PrunedSafe`: a leaf that the tree search left out holds nothing nearer than an answer; one that a worker skipped holds nothing nearer than
  the nearest answer. It may hold one of the K nearest: a worker compares with the nearest point it has looked at, not with `kth_bsf`.
- `KthBound`: the shared bound may rise again, but K points found are within it.

*Why the bounds are enough to be interesting.* With four elements, three of which are inserted
concurrently, two levels and M = 2, calls meet in every pair of phases, an upper
list overflows and is pruned, the entry point moves while other calls hold an older
one, and descents happen; elements 0 and 3 share an update lock. Three threads allow cycles of length three.
In `visited_pool` three tags wrap after two searches.
In `vamana_graph` R = 1 makes every second reverse link prune a list, four tags for three slots leave one to insert, and since no counter
grows, rounds repeat without bound. In `sptag_index` a capacity of three lets a batch of two fail, compaction move a vector and
the metadata set drop a record; with 40 percent, two of three deletions make a save refine. In `sptag_query` one slot for two clients makes every
new connection reuse the slot of an old one; two queries of one client are allowed while the other has given up dialling, with at most one
spurious wake-up (`TwoQueries`). In `sptag_query_servers` two servers make the count of results matter, a second dial follows a break, and a counter
modulo 4 wraps when it is decremented below 0. In `elpis_query` a queue of two fills and overflows, both workers search and publish, and three
distances allow ties on either side. `BoundsRise` says that bounds do not fall on the way down the tree (a node's sketches contain its
children's); `Small` allows two searches a neighbour beside the entry point. `CHECK_DEADLOCK FALSE` stands where the bound on queries, ids or dials
ends a behaviour.

*Fairness.* `FairSpec` of `HNSWInsert` assumes weak fairness of each call (`Reserve` and its steps):
the operating system runs every thread and the OpenMP loop hands out all
its iterations. No strong fairness is needed, although mutexes are not fair: a
mutex that is kept while its holder waits is held by one call only once, and the
other critical sections are single actions. `Fairness` of `SPTAGQuery` assumes weak fairness of the client's main thread, of its callbacks at work, of each
timer that was armed (boost's deadline timers fire), and of the aggregator's threads with their timers. It does not assume that a link works, a packet
arrives, a server answers or is dialled again.

## 4. Findings

- `ksrep_parallel`: the comments of `searchBaseLayer_ksrep` report a blocking that a
  threshold of 10000 "solved". The margin of 100 ids is a matter of time, not of
  order: an insertion that is delayed between its reservation and its search while
  100 other ids are reserved can draw its own id and lock the mutex it holds. The
  model shows it with a margin of 2 and two threads.
- `vamana_save_first`: `save` locks `_change_lock` when `_lazy_done`, which the constructor sets to true,
  and never unlocks it. The test saves (line 84) before `enable_delete` (line 94), which then waits for ever.
- `vamana_eager_twice`: after an eager round and `save`, `_compacted_order` is set and `_consolidated_order` is
  not; `enable_delete` then resets neither, so the slots of the next eager round are never compacted. The
  next insert takes slot `_nd`, overwrites the live point there, and its list is missing from the file.
- `elpis_tags`: worker 0 marks the visited flags of the engine but counts its tags in `qwdata[0].curr_flag`, a copy
  that is not written back. The engine begins the next query with the tag after its own last one, which worker 0 may have
  used for another leaf: nodes with that number are then skipped as visited. The comment at line 33 expects one tag per
  searched leaf until 65536 of them are used; the model repeats a tag after four searches. The first search of a query, whose
  queue the tree search prunes with, may so find fewer than K points.

One more disagreement is stated by a property that holds, not by a run of its own: the assertions at `index.cpp:1512` and `1577` fail in
every round that begins with free slots, which `DisableAccepts` says with an equivalence, and those at `1494` and `1586` in every second
lazy round in a row (section 2).

## 5. Proofs

All theorems hold for every value of the constants that satisfies the named
assumptions of the modules (`HNSWAssumption`; `PoolAssumption`, `NoneAssumption`; `SizeAssumption`, `TagsAssumption`,
`LibertiesAssumption`, `NamesAssumption`, `GraphAssumption`; `NumbersAssumption` and `NamesAssumption` of `SPTAGIndex`;
`QueryConstants` and `CountsFit`; `KSRepAssumption`; `TreeAssumption` and `NumbersAssumption` of `ELPISQuery`), those of the dynamic index and its graph under
`Protocol` besides, those of the sampled construction under `OneThread`. `CountsFit` says that the counters do not wrap within the number of servers: they
are 32 bits wide in the code. `QueryConstants` keeps the names of clients, contexts and data apart from `None`. Each module proves its type invariant as `TypesHold`; where a run does not check it, it follows from the
theorem for the run's instance too.

*Construction.* The properties are not inductive: why no two calls wait for one another depends on who
may have come across whom. The argument (`IInv` in `HNSWInsertProps`):

1. `ControlInv`: the program counter determines locks, initialisation and level.
2. `EntryInv`: the entry point is linked at all its levels, and a call that is going to
   replace it keeps `global` throughout, so `maxlevel_` is still its `maxlevelcopy`.
3. `LinkInv`: a list at level `l` only holds elements that are `Linked` there: their
   own call has chosen its neighbours at `l`.
4. `SearchInv`: hence whatever a call has seen at level `l` is linked at `l`, so it is never itself; and
   a result that has been scanned was unlocked when it was, so its call has returned. Since a search
   ends only when all results are scanned, new links go to elements in no call's hands.

Deadlock freedom follows by a rank (`Rank`): a call that waits at level `l` waits
for a call that has already linked level `l`, whose rank is lower; a finite set of
calls has one of least rank, which does not wait within the set.

*Pool.* `TagsBehind` says that no mark is newer than its list's tag unless that tag is the
last one, when the next reset clears the memory. With `Exclusive` it gives the refinement step by
step: `Reset` maps to `Begin` with nothing marked, `Visit` to `Visit`, `Release` to `End`, the rest to
stutters.

*Dynamic index.* `Protocol` says that callers do not take the liberty that loses points
(`eager_twice`; the run of this name shows that it is needed); saving first is allowed.
The calls are correct only together: a delete may leave slots in disorder because `EnableDelete` has recorded which are
free, and `InsertPoint` may take slot `_nd` because a compaction came before. Hence two invariants, for two phases:

1. `RoundInv`, in a round and, after eager deletes, until its save: a slot has a tag, is in `deleteSet` or is in
   `emptySlots`, and `_nd` counts the tags, with the deleted points while they are only marked.
2. `OrderInv`, otherwise: the tags fill `0 .. nd - 1`, nothing is pending, an order flag is set, and the frozen point is in its
   own slot or in slot `_nd`.

Between them stands the renumbering. `Ranks`: counting the kept slots below a kept slot is a bijection from
the kept slots onto the first numbers. `Compacted` concludes that `CompactData` keeps the maps inverse, moves every point
with its tag and leaves `0 .. nd - 1` filled. `SameNumber` (there are as many tags as tagged slots, the maps being inverse)
gives the size checks and the bound of `TagStore`; `RoundCounts` adds up the kept, deleted and empty slots, from which the rest of `DisableAccepts` follows; then one lemma for each call says what it does
to the invariant and to `Mapped`, and `Refinement` puts these together.

`LockReleased`, which `vamana_save_first` refutes, holds without the liberty `save_first` (`LockReleasedHolds`). `save` keeps `_change_lock` at a second place, where
eager deletes left every slot in use; `LockInv` shows that it is not reached, because a slot stays free from an eager delete to its save.

*Graph.* `GraphIInv` adds to `IInv` the types, `EdgesKnown`, that a slot in `emptySlots` has no point, and that the first slots hold points
while the index is being built. Each graph action implies the action of `VamanaDynamic`, so `IInv` is kept by the lemmas about that one; for the edges
there is a lemma per call. The weight is in `_in_graph`: entries left over do no harm, and an entry that is missing would let an edge survive
`eager_delete`. Repeated entries, of which the loop that skips one after each it erases leaves up to half, can make the assertion in the code fail, but lose no edge.

*SPTAG index.* `CallInv` (where the holder of the add lock is and what it holds), `RowsInv` (how far the three tables have grown at each step),
`IdsInv` and `NumbersInv` (ids and vectors are within what was added, each once), `ReadyInv`, `MetaInv` (records and mapping as far as the call has come),
`LoopInv` (the compaction loop: what is listed, what is left, the inverse) and `FileInv` (the file is a state the index could be in). From them follow the
invariants of the run and, action by action, the refinement of `VectorStore`: `Build`, `MapMeta` and `AddUnlock` map to `Put`, so a vector is live from the moment
its call has done all to it.

*Queries.* `Owned` says which connection, packet, context, job and answer belong to which query: a context's connection id belongs to the client
of its query, although ids of slots coincide, because an id is handed out once. `Once` says what exists at most once: for a resource there is a callback, a job
or an answer, and for the aggregator's part a packet, a callback or a job per server. `OwnAnswer` and `OneResult` follow. The other two groups rest on what the counters count:

1. *Waiting.* A query is open (`Open`) while its callback is registered or is at work and has yet to decrease the count. `Balanced`: at most the last query is open,
   and `m_unfinishedJobCount` is 1 or 0 with it; between the registration and the increment it is one less, so it is 0, or has wrapped when the timeout came first.
   `Covered`: each query sent is registered, at work or answered. When main finds 0 or is notified, no query is open and each is answered, or its timeout has counted and is
   about to call. Both parts are claimed while no send failed and no wait returned by itself (`Careful`), as in `WaitMeansAnswered`.
2. *Merging.* For one search, `Done` counts the servers whose final callback (answer or timeout) has been counted and those whose failed send has. Each is at most one per server asked, by
   `OneAggJob` and `AskedOnce`, so it is at most twice the number of servers asked, and both `left` and `responses` are functions of the two numbers (`LeftCounts`). The test passes
   for the callback that takes `left` to 0 and for the one after it, which wraps it; the second comes only when a send failed, and afterwards `left` is too large to get there again, by `CountsFit`. This is `ResponseCount`.
3. *Results.* Until the merge, what a server asked has found is in a packet, a callback or `results` (`ResultKept`), or it timed out. When `left` is 0 and no send failed nothing is out, so the
   merged data are complete, and stay so on their way to the client (`ResultsComplete`): searches only grow in what failed. This is `NothingMissing`.

*Sampled construction.* With one thread, the call in progress is that of the newest id (`Sequential`), so a positive margin leaves out the only element that is not inserted, and the sampled
ones are linked at level 0. Hence `InitElementKSRep` keeps `IInv` as `InitElement` does, and what follows from `IInv` holds. The hypothesis cannot be dropped: `ksrep_parallel` is its counterexample.

*ELPIS.* A queue of K changes only for nearer points, so what it has let go of stays behind all that it holds (`KeptInv`). A worker's queue may owe this to copies
of the engine's points; each copy stands for a point that the engine's queue holds or has let go of for nearer ones itself, so leaving copies out of the
merge loses nothing (`BehindLeft` counts K points that are as near). For this the points in different queues must be different: leaves are candidates once (`TreeInv`), and each
candidate is one worker's turn (`PointsInv`). `CoverInv` says that a leaf which is neither a candidate nor below a queued node is below a bound of at least
`kthBsf`, and `KthBound` that `kthBsf` is a distance within which K points lie; together they give `PrunedSafe`.

`TagsFresh` is refuted by `elpis_tags`; two theorems say how far the defect goes. `FirstQueryFreshHolds`, for fewer probes than tags: in the first query of an engine every tag is fresh, hence its first
search is full and the theorems on answers apply. `OthersFreshHolds`, for fewer searches than tags in all queries: the other workers, which have flags and counter to
themselves, never repeat a tag. Both count (`FirstInv`, `OthersInv`): a worker's tag is at most its place in the loop, added to what earlier queries took.

*Only model-checked:* the liveness properties (`AllInserted`, `EveryQueryAnswered`, `WaitReturns`, `EverySearchEnds`), which need fairness and `ENABLED` and are out of
the prover's reach. Every safety invariant and action property that a passing run checks is proved. *Refuted, hence proved only as far as stated above:* the properties of section 4.

## 6. Not modelled

*Of modelled components.*

- HNSW: `updatePoint` and deletion marks (the drivers do not reach them). That an element keeps an inbound link is promised nowhere that runs:
  `checkIntegrity` asserts it and is never called, and pruning a full list of a hub can drop the only one.
- Dynamic VAMANA: insertion while deletes are enabled, `disable_delete` without consolidation, `load`, no or several frozen points, a second round of
  deletes while slots are free (section 2), `readjust_data` before `save` or after an insert, when it moves or loses a point (guards exclude it, so no property catches it). `consolidate_deletes` clears the list of a deleted slot in the loop that hands its links on, so what a node gets depends on the
  order of slots: the start node, in the last slot, gets nothing from deleted neighbours, and when all its neighbours are deleted its list is empty.
  No comment says otherwise; searches then end at the start node, and a later `readjust_data` takes it for moved.
- SPTAG index: that the files of a save made during an add agree (they may not; `lost` marks them and exempts them from `MetadataAligned`), graph and trees, the rebuild job that `AddIndex` starts when enough vectors were added, `MergeIndex`, KDT beside BKT (the same code).
- SPTAG queries: what a result holds (a query that a server fails to parse or execute, and a reply that reports a failure, count like any other). The
  second response after a failed send is in the model, and no property forbids it: `ResponseCount` and `NothingMissing` name it as their exception.
- SPTAG sockets: the id that a client keeps until it notices that the aggregator had no slot for it (the model's has none meanwhile), the steps within `AddConnection` and `RemoveConnection`, heartbeats, registration, shutdown, several connections per client. At the aggregator,
  a server that could not be dialled is put back on the list as `Connecting` and then skipped for ever; the model does so, and no property promises more.
- ELPIS: building and storing the tree, the graph in a leaf, a single probe, the mode without workers (with more than one probe it reads `qwdata`, which is
  then not allocated), and a tree of one leaf. `searchflat` marks the entry point at the index of the tag instead of that of the node
  (line 172), so the entry point may be found again; the model allows it. A first search that finds fewer than K leaves a queue
  for which none of the properties is claimed. `kth_bsf` is read in the loop and decides only what is written.

*Components.* HNSW queries (sequential, a matter of distances), the leaf graphs of ELPIS (copies of the HNSW code), SPTAG's thread pool
(one race at shutdown, stated in `PROJECT.json`), SPANN (headers missing), the disk index with its files and product quantisation (arithmetic), the
remaining methods (third party; sequential or with one lock per list), data preparation, vendored containers.

The most useful extensions would be the steps within the connection table, and a model of the leaf graph's search that shares
tags with `ELPISQuery`.
