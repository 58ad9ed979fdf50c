# DefraDB verification

TLA+ models of DefraDB, a peer-to-peer document database whose documents are Merkle
CRDTs. The models are translated from the Go source (`src/` below is the root of the
repository), model-checked with TLC on small instances, and proved with TLAPS for
every instance where a proof is within its reach.

## The system

| part | source | what makes it hard | modules |
|---|---|---|---|
| documents as Merkle CRDTs | `internal/core/block`, `internal/core/crdt`, `internal/db/document*.go`, `merge.go` | concurrent writers, blocks delivered in any order and more than once, merges that race local writes, retries | `MerkleDoc` |
| pushlog and merge queues | `internal/db/p2p/p2p.go`, `internal/db/merge.go` | lost wake-ups, two workers for one document | `KeyedMutex`, `WorkQueue`, `PushLog` |
| transaction locks | `internal/db/lock`, `internal/db/txn.go`, `internal/datastore/txn.go` | lock promotion, deadlock between transactions, release order | `LockSet` |
| requests to peers | `internal/db/p2p/message`, `protocol` | lost, late and double responses | `CommChannel` |
| replicators and their retries | `internal/db/p2p/replicator.go` | crash in the middle of a retry, failures recorded while a retry runs, status updates that race deletion | `ReplicatorRetry` |
| document sync | `internal/db/p2p/sync_doc.go`, `sync_branchable_col.go` | late, partial and erroneous answers, deadlines | `DocSync` |
| peer-to-peer topics | `internal/db/p2p/collection.go`, `document.go` | asynchronous callbacks applied out of order, restarts | `P2PTopics` |
| searchable encryption | `internal/se` | pushes that overtake each other, a restart between push and record | `SearchTags` |
| keys of encrypted blocks | `internal/kms`, `internal/db/p2p/sync_dag.go`, `merge.go` | the first of several answers counts, failed syncs leave blocks without keys | `KeyRequest` |
| event bus | `event/channel_bus.go` | full buffers, close racing publish | `EventBus` |
| secondary indexes | `internal/db/index*.go`, `collection_index.go` | index out of step with the document, stale handles and objects | `Indexing` |
| collection definitions | `internal/db/collection_define.go`, `description`, `cache`, `id` | versions switched and deleted while documents are added, stale caches | `CollectionRepo` |
| collection identifiers | `internal/db/collection_id.go` | circular references, map order | `CollectionSets` |
| truncation | `internal/db/collection_truncate.go` | keys deleted in chunks, decoded as what they are not | `Truncate` |
| keys and encodings | `internal/keys`, `internal/encoding` | prefixes of each other, byte order against value order | `Encoding`, `Keys` |
| reading | `internal/db/fetcher`, `internal/planner/index_helpers.go` | an index that serves a filter or an order only in part | `IndexFetch` |
| queries | `internal/planner`, `internal/connor` | filters taken apart, joins turned around, shared pipes, shared aggregates | `Filters`, `FilterPlan`, `JoinPlan`, `GroupPlan`, `Aggregates` |
| interfaces | `client`, `http`, `cli`, `cbindings`, `js`, and the top of `internal/db` | five ways to make the same call | `StoreAPI`, `HTTPTables`, `BindingTables`, `Transports` |

`PROJECT.json` lists these and the parts that are not modelled, with every source file.

### How the parts interact

A call comes in through one of five ways (Go, HTTP, command line, C, JavaScript) and ends
in a method of the database, which runs it in a transaction. A local write takes the
collection's lock, appends one block per written field and one composite block that
links to them, applies them to the datastore and headstore, keeps the indexes up, and
commits. On commit an update event goes to the event bus and to the P2P part, which
pushes the composite block to replicators and to the document's topic. A peer that is
pushed a block stores it under the to-merge index, fetches the blocks it lacks, and
merges, one merge per document at a time: a new transaction walks back from the block to
what is already applied and applies the blocks in causal order. A push that fails is
recorded as a retry of that document for that replicator, and a background loop retries.

The models meet where the parts do. `PushLog` composes two instances of `WorkQueue` with
transactions that conflict; `WorkQueue` implements `KeyedMutex`, which is what
`MerkleDoc` takes for granted (one merge per node); `PushLog` takes what a merge does
from `MerkleDoc`. `ReplicatorRetry` has the outcome of a push that `CommChannel` finds
(`Send` takes an error response for a success). `IndexFetch` and `FilterPlan` extend
`Filters`; `Keys` extends `Encoding`; `Transports` runs a call through the tables of
all layers.

### What correctness means here

* Replicas that have applied the same blocks are in the same state.
* Nothing is applied before what it builds on; nothing applied is forgotten by the heads.
* A block that is taken for merged has been applied; a request that is handled leads to
  a merge or a merge that gave up, and every request ends.
* A local write is visible after it commits.
* Transactions exclude each other on a collection as the lock's documentation says,
  and do not block each other for ever.
* At most one retry runs for a replicator, and its record says whether one does.
* What is derived from the store agrees with it: indexes with documents, topics with
  markers, caches with records, search tags with values.
* A scan finds the keys that share the parts of the partial key, in the order of their
  values, and reads them back.
* A query yields what a plain reading of it asks for, whatever the plan.
* A call means the same through every way in, and is answered truly.

The code keeps most of this with exceptions. A property names its exceptions, and the
section *What the code does not keep* has the property without them.

## Modules

A module named after a component has its state, its actions and its properties.
`MCMerkleDoc`, `MCLockSet` and `MCReplicatorRetry` instantiate one component for TLC.
Three modules put components side by side, one per behaviour (`part` says which), with
shared variables `x1`, `x2`, ...: components that share no state in the code need no joint
state space, and their properties are checked in one run. They are

* `MCNetwork`, what waits: `WorkQueue`, `PushLog`, `EventBus`, `LockSet`, `CommChannel`;
* `MCNode`, what a node serves and stores: `EventBus`, `DocSync`, `P2PTopics`, `SearchTags`,
  `CommChannel`, `KeyRequest`, `Indexing`, `CollectionRepo`, `CollectionSets`, `Truncate`,
  `Keys`;
* `MCRequests`, a request from its way in to its answer: `Transports`, `FilterPlan`,
  `JoinPlan`, `GroupPlan`, `Aggregates`, `IndexFetch`.

Where the constants of a component are large definitions they are in a module of their own
(`MCKeys`, `MCTransports`, `MCFilterPlan`, `MCIndexFetch`), which the three instantiate.

The proofs are in `MerkleDocProofs`, `LockSetProofs`, `LockSetReleaseProofs`,
`WorkQueueProofs`, `PushLogProofs`, `ReplicatorProofs` (`ReplicatorRetry`, `SearchTags`),
`ChannelProofs` (`EventBus`, `CommChannel`) and `PeerProofs` (`KeyRequest`, `DocSync`,
`P2PTopics`). A module about several components extends the first and has the others as
instances.

A definition whose comment starts with *Mutant* is a plausible bug in the definition
after it; no specification uses it. It shows that a property would notice that bug.
`PROJECT.json` maps each definition to the lines it translates.

## `MerkleDoc`: one document on several nodes

| state | code |
|---|---|
| `cdag`, `fdag` | the content-addressed composite and field blocks (`block.go`), whoever wrote them |
| `bstore[n]` | which composite blocks are in the blockstore of `n` |
| `toMerge[n]` | the to-merge index (`datastore/blockstore.go`) |
| `syncing[n]`, `puts[n]` | the composites whose DAG `syncDAG` is fetching, and the calls of `Put` past their first check |
| `store[n]` | committed heads, field heads, values, priorities, object marker |
| `merge[n]` | the merge that runs on `n`: its transaction, the pending calls of `loadComposites`, and the blocks queued |

A CID is a number. Hashes order CIDs arbitrarily, so wherever the code depends on
CID or map order the model chooses. Field blocks are stored and fetched together with
the composite that links to them. `anc` and `applied` are history: no operation reads
them, except that `anc` stands for what `syncDAG` fetches.

Actions: `AddDocument`, `UpdateDocument`, `DeleteDocument` (each one transaction:
`save`, `AddDelta`, `ProcessBlock`, `updateHeads`), `ProcessPushlog`, `SyncDocument`,
`SyncFails` (delivery), `PutChecks` and `PutWrites` (the accesses of `Put`, which are in no
transaction), `BeginMerge`, `LoadComposites` (one call of the recursive walk),
`MergeComposite`, `MergeError`, `CommitMerge`, `ConflictMerge`, `Restart`. Local writes interleave
with every step of a merge; a write to the document makes the transaction of the merge
stale, so its commit conflicts, and `Merge` tries again up to `MaxTxnRetries` times.

A transaction works on a snapshot (`merge[n].work`): the walk and the application read
it, and `CommitMerge` installs it if no local write came between. The mutex that keeps
merges of one document apart (`mergeQueue`) is taken as what `WorkQueueProofs` shows of it: at most one
merge per node. Left out: encrypted blocks (see
`KeyRequest`), signatures, collection commits, indexes.

## `LockSet`: the locks of transactions

| state | code |
|---|---|
| `writer`, `readers` | the `sync.RWMutex` of a collection: who holds its writer mutex, whom it counts as reader |
| `aGroup`, `bGroup` | the two `sync.WaitGroup`s of `abLock`, split by transaction |
| `heldW`, `heldR` | `heldLocksByTxnID`, `heldRLocksByTxnID` |
| `mutexes` | `txnLocks.locksByTxnID` |
| `fns`, `fired`, `run` | the callbacks of a transaction, those whose `sync.Once` has run, and where Commit or Discard is in the list |
| `pc`, `key` | the call a transaction is in |

A transaction makes one call at a time, so it is one process. `CollectionLock`,
`CollectionRLock` and `RLockAll` are the calls; a call that has to wait is in several
steps, as in the Go library: `TakeWriter` (the writer mutex, which keeps new readers
out), `LockA` (readers have drained; the counter is raised), `WaitA`, `ReturnA`, and the
same for group B. `Commit` and `Discard` run the callbacks one by one. A WaitGroup that
is raised between the wake-up of a waiter and its return panics, as Go's does; a panic
ends that transaction. Go has a second window for the same panic with the same outcome,
which is not modelled apart. The callbacks that unlock several collections do so in one
step. A transaction used again after a failed commit is not modelled.

## `CommChannel`: requests and responses

`call[r]` is where `Send` is for request `r`, `table` the map of response channels,
`chan` and `buffer` the channel of `r`, `server[r]` the peer's `onRequest`, `net` the
responses under way, and `handlers` the goroutines of `onResponse`. The peer may get a
request although `Host().Send` fails; a reply may be lost, or be followed by an error
response because sending it seemed to fail. A message whose signature does not verify is
a lost one. A send on a closed channel panics, which ends the process. `SendAsync` has no
caller and is left out.

## `ReplicatorRetry`: pushes that fail

| state | code |
|---|---|
| `rep`, `retry`, `docs` | the peerstore: status of each replicator, its retry record with the flag `Retrying`, the documents to retry |
| `mem`, `callbacks` | `P2P.replicators`, and the functions registered with `OnSuccessAsync` that have not run |
| `tasks` | the goroutines of `pushLogToReplicators` and `pushHeadsForAllDocs` |
| `handler` | the task inside `handleReplicatorFailure`, which holds its mutex |
| `loop` | `retryReplicators` with what its iterator has read |
| `worker` | the goroutines of `retryReplicator` |
| `ver`, `got` | the version of a document here, and at each replicator |

Every access to the peerstore outside a transaction is a step. `AddReplicator` and
`DeleteReplicator` are transactions; their callbacks (`UpdateReplicators`) run later and
in any order. A push succeeds, is refused by the peer, fails, or times out; the constant
`Outcome` says which of these a run allows. "remoteError" is what `CommChannel` finds:
`Send` takes an error response for a success. `Restart` loses what is not persisted and
may happen between any two steps.

Abstractions. One collection, so that a replicator exists or not. No time: a record is
due whenever it is read, except until the handler that creates it has stored its
document, since the first interval is not shorter than a second. An iterator is the
snapshot taken when it is opened. Reading the heads of a document and sending them is one
step of `retryDoc`. Errors of the store, records that cannot be decoded and the number
of retries are left out; the number only lengthens the interval.

## `WorkQueue` and `PushLog`: blocks from the network

`mergeQueue` and `processQueue` are the same code for different keys: a map from the key
worked on to a channel. `add` enters the key or waits on its channel, `done` deletes the
key and closes the channel, and all that waited call `add` again (`Add`, `AddAgain`,
`Done`). `KeyedMutex` says what callers rely on; `ImplementsMutex` is the refinement.

`PushLog` runs one goroutine per request through both queues: `processPushlogRequest`
for a push of a replicator or from a topic, `syncDocumentAndMerge` for a sync, then
`DB.Merge` with its retries (`loc[r]` is where the goroutine is). A block is stored or
not and merged or not; a transaction knows which of its documents were committed to
since it began. Local writers commit at any time.

## `EventBus`

`commands` is the channel all calls go through, `handleChannel` the actions of `Handler`:
it takes a command and delivers a message subscriber by subscriber (`msg`, `todo`),
blocking on a full channel (`value`). `Close` waits for the lock, sends its command and
returns. A subscriber reads, or has left (`Leave`, the client's context ended) and
unsubscribes without reading on, as `handleSubscription` does. `seen` and `order` are
history.

## `DocSync`, `P2PTopics`, `SearchTags`

`DocSync`: the peers active at the start are `pending`; each answers with its heads, an
error, or never, maybe twice, and others may answer too; every head of an answer is
fetched and merged, is given up by `Merge` without an error (`gaveUp`), or fails; the call
ends when nobody is pending or at its deadline. The same module has the collection's
variant, which does not skip a head that failed. `failed`, `gaveUp` and `told` are history.

`P2PTopics`: a call writes a marker through its transaction and leaves a callback; the
commit starts the callbacks as goroutines (`running`), which join or leave the topic in
any order; a restart joins the topics of all markers. The host may fail in a callback,
which is logged, and at the start, which then fails. `unsettled` is history: ids whose
markers and topics need not agree (two callbacks at a time, a host that failed, or a call
that returned an error after writing).

`SearchTags`: an update generates tags from the values the document has by then and
pushes them to each replicator; a failed push leaves a retry entry (`entry`), which the
loop takes up; generating may fail as well. A tag is made with the `VersionID` of the
collection (`se.go:175`) and searched for with its `CollectionID` (`select.go:564`), which
differ once the collection is patched (`Patch`). `missed` and `later` are history. The
derivation of a tag is a function of its arguments and stands for them.

## `KeyRequest`: keys of encrypted blocks

| state | code |
|---|---|
| `stack[r]` | the recursive calls of `loadBlockLinks` of request `r`, each with the links it has yet to load |
| `key[r][b]` | the result channel of `GetKeys` for block `b`: not asked, asked, or closed with success or an error |
| `stored`, `merged`, `encstore` | the blockstore, its merged marks and the store of keys of this node |
| `has[p]`, `allows[p]` | the keys of peer `p` and whether its access control gives them to this node |

`SyncDAG`, `LoadLink` and `ReturnLinks` are the steps of a sync: a block that is not merged
has its key asked for, its links are loaded, and then the key is waited for. `Answered` is
the goroutine of the broadcast, which takes one answer: a key, an empty reply (refused), or
no data at all (the peer has no key, or the topic closed the channel; the topic is
external). `Merge` applies everything below the head or fails with the transaction when
`processEncryptedBlock` finds no key. A sync may fail at every step and leaves its blocks and
its broadcasts behind. `refused` is history. Sealing a key for its requester is left out.

## `Indexing`

| state | code |
|---|---|
| `store` | documents, index definitions, index entries, as the current call sees them |
| `saved` | what is committed while the client's transaction is open |
| `handles` | collections the client holds, each with its copy of the definitions and indexes |
| `objects` | documents the client holds, with values and the marks of those set |

Every operation on documents and indexes is an action, through a handle and an object
that may be out of date, in a transaction of its own or in the client's. `store.loose`
records that an operation left entries astray in a way the code permits; the properties
say exactly which (`IndexMatchesAlways` leaves the condition out, and fails). History, encryption, JSON fields
and embeddings are left out.

## `CollectionRepo`, `CollectionSets`, `Truncate`

`CollectionRepo`: one collection with several versions. `db` has the records by
identifier and by name, the short identifiers of the collection and its fields, heads and
documents; each transaction (`txn`) has its view, its caches and its place in a call. A
call is broken up where the commit of another transaction can be noticed: between a look
below the cache and the entry in the cache, and where it waits for the collection's lock.
A commit conflicts when another one wrote what the transaction read. `torn` is history: a
transaction was committed although a call of it had failed.

`CollectionSets`: `Strip` removes collections that cannot be in a circle, `Group` makes
the sets, `SortPass` is one pass of the sort, `saveBlocks` gives the identifiers. Go's map
order is a choice. An identifier is modelled by what it is computed from, the heads that
`AddDelta` finds included (those of longer names too: `HeadsFound`), so that equal
identifiers mean equal inputs. The collections come in one operation or in several.

`Truncate`: a step is one pass over a chunk of keys. A key that is decoded as something
it is not (an index entry as a document key) becomes what `keys/datastore_doc.go` makes of
it, and the scan for the collection's heads finds those of short IDs that begin with its own
(`ColsBelow`). All of it runs in one transaction under the collection's lock.

## `Encoding` and `Keys`

`Encoding` has the functions of `internal/encoding` over bytes (numbers below 256) for
every type of an indexed field, in both directions. `Keys` has every key of
`internal/keys` with its bytes and its parser, and a store that is filled and scanned
(`Set`, `Iterate`, `IterateRange`). The order of the store is that of corekv, which is
external. Texts fixed in the code and content identifiers stand for themselves. Integers
stay below 2^31, so the widths of five to eight bytes are not reached.

## Queries: `Filters`, `FilterPlan`, `JoinPlan`, `GroupPlan`, `Aggregates`, `IndexFetch`

Each starts from a request and a small database chosen in `Init`, takes the steps of the
planner and of the nodes, and is compared with a direct definition of the answer.

* `Filters` has the matching of `connor` and the operations on condition trees.
* `FilterPlan` moves conditions from the scan to the select, join by join
  (`prepareScanNodeFilterForTypeJoin`), turns a join around when an index allows it, which
  is looked for among the filtered fields of all relations, and yields one document with
  its children, also under a child select with a filter of its own. A join that is turned
  is the only one of its select: what `parallelNode` makes of several, one of them turned,
  is left out.
* `JoinPlan` is the iterator `invertibleTypeJoin` in both directions, with the nodes that
  add parents without children, initialised again for each document above it (a round).
  Child selects of all shapes have filters; joins are turned by a filter, by an order, or
  by a filter under an order. A join whose child is not requested is left out.
* `GroupPlan` is the pipe shared by a select and its children, the join into groups, the
  window of each child, order and limit, in several rounds. An index may take over the
  order (`byIndex`); then there is no order node, nor in the child selects, which look at
  the same scan. Groups are found by the text of their key (`KeyText`), in which keys may
  look alike.
* `Aggregates` is the mapper's reuse of aggregates and the chain of nodes. Aggregates of
  groups are left out.
* `IndexFetch` is the choice of an index, the iterators built from a filter, and the
  fetchers around them (deleted documents, permissions, filter). JSON and array fields and
  the versioned fetcher are left out.

## The ways in: `StoreAPI` ... `Transports`

`StoreAPI` lists the operations with their arguments, `HTTPTables`, `BindingTables`
(command line, C, JavaScript) and the first part of `Transports` (the database) what
each layer makes of them; an argument is absent, the zero
value or another value, which is what conversions confuse. A layer (HTTP client, handler,
command, C function, wrapper, JavaScript method, database) is a table with one row per
operation: what it calls, from which of its inputs each input is taken and how (`Same`,
`NonZero`, `Always`, ...), what it calls before. `Transports` runs one call through the
layers of its way in (`Pass`), then runs it with every outcome (`Run`), while somebody
ends the transaction (`EndTxn`) or changes the document (`Race`). The outcome comes back
through the same layers.

## Runs

Runs that pass:

| run | instance | shows |
|---|---|---|
| `merge_two_nodes` | 2 nodes, 1 register, 3 values of which one is null, 4 blocks, syncs that are stored as a whole | `Convergence`, `AppliedIsCausal`, `HeadsCoverApplied`, `NextWriteWins` |
| `put_steps` | 2 nodes, 1 register, 1 counter, 3 blocks, every step of `Put` apart, failed syncs, crashes | no block is taken for merged that is not applied (`MergedIsApplied`), and a counter never falls short (`CountersNeverLose`) |
| `locks_exclude` | 3 transactions, 2 collections, 2 calls each | `LocksExclude` (of single collections and of all), `ClosedHoldsNothing` |
| `retries` | 1 replicator, 2 documents, 2 goroutines, 2 adds, 1 delete, every outcome, 1 restart | `OneRetrier`, `FlagIsTrue` |
| `network` | see Bounds | the queues refine the mutex (`ImplementsMutex`, `KeysAreWorkedOn`); pushes and syncs against local writers (`OnlyWritersConflict`, `PushedIsComplete`, `EveryRequestEnds`); and everybody who waits goes on (`PublishReturnsOrAbandoned`, `CallsReturn`, `HandlersReturn`) |
| `node` | see Bounds | services (`BusDelivers`, `SuccessMeansMerged`, `TopicsFollowStore`, `SearchFinds`, `TableIsTrue`, `KeysBeforeMerge`) and stored data (`IndexesAgree`, `VersionsAgree`, `IDsDependOnDefinitions`, `TruncatesItsOwn`, `KeysAreFaithful`) |
| `requests` | see Bounds | calls (`RunsAsAsked`, `AnsweredTruly`) and queries (`YieldedAsAsked`, `JoinedAsAsked`, `GroupedAsAsked`, `ValuesAsRequested`, `FetchesAsAsked`) |

A property of `node` or `requests` is the conjunction of what its component promises:

| property | of | conjuncts |
|---|---|---|
| `BusDelivers` | `EventBus` | `DeliveredInOrder`, `SendsToOpenChannels`, `CloseReachesEveryone` |
| `TableIsTrue` | `CommChannel` | `ListedIsOpen`, `NoStaleEntry` |
| `KeysBeforeMerge` | `KeyRequest` | `SyncedHasKeys`, `MergedIsReadable` |
| `PushedIsComplete` (`network`) | `PushLog` | `SyncedIsComplete`, `AnnouncedIsMerged`, types |
| `IndexesAgree` | `Indexing` | `IndexMatches`, `UniqueHolds`, `NeverCorrupted` |
| `VersionsAgree` | `CollectionRepo` | `DocumentsHaveCollection`, `ShortIDsMatchVersions`, `NameLeadsToActive`, `CacheIsTrue` |
| `IDsDependOnDefinitions` | `CollectionSets` | the property of that name, `SetsAreCircles`, `SortEnds` |
| `TruncatesItsOwn` | `Truncate` | `NothingLeft`, `OthersKeepTheirs`, `TruncateEnds` |
| `KeysAreFaithful` | `Keys` | `IndexInOrder`, `ScanFindsOwn`, `ReadsBack` |
| `RunsAsAsked` | `Transports` | `SameCall`, `ActsAsCaller`, `StaysInTxn`, `SaveAsOne` |
| `AnsweredTruly` | `Transports` | `FailureReported`, `SuccessReported`, `ConflictTold` |
| `YieldedAsAsked` | `FilterPlan` | the property of that name, `ChildrenAsAsked` |
| `JoinedAsAsked` | `JoinPlan` | `OnceWithItsChildren`, `NoneLost`, `InRequestedOrder` |
| `GroupedAsAsked` | `GroupPlan` | `GroupsAsAsked`, `RowsAsAsked`, `ShownInWindow` |
| `ValuesAsRequested` | `Aggregates` | the property of that name, `FiltersDecide` |
| `FetchesAsAsked` | `IndexFetch` | the property of that name, `OrderedByIndex` |

Each property is stated in words above its definition, in the component's module.

Runs in which the code does not do what one of its comments or documents says
(`PROJECT.json` quotes the line):

| run | what happens |
|---|---|
| `counters_diverge` | a replica that is sent a block above a fork applies the common ancestor twice; its counter differs from then on |
| `null_tie` | a node that wrote null to a field cannot merge a concurrent write of the same height; the merge fails each time |
| `error_response` | a request that the peer failed to process returns no error |
| `retry_stuck` | a crash during a retry leaves `Retrying` set, and the replicator is never retried again |
| `heads_mixed` | the heads of field 1 are listed with those of field 10, because the prefix has no end |

### What the code does not keep

The modules also state stronger properties that the code does not keep. They are why the
properties above are restricted as they are. TLC finds each violated when it stands in the
configuration named here in the place of the properties there (`PublishReturns`,
`EndedMergeIsApplied`, `RecordOutlivesDocs` and `DeletedStaysDeleted` as PROPERTY, the
others as INVARIANT).

| configuration | property | what happens |
|---|---|---|
| `MCMerkleDocTwo` | `HeadsHaveOneHeight` | merging a lower concurrent branch leaves heads of two heights (`merge.go:536` relies on one) |
| `MCMerkleDocTwo` | `EndedMergeIsApplied` | a merge that keeps conflicting ends with no error and nothing merged (`merge.go:72`) |
| `MCMerkleDocPut` | `AppliedIsMerged` | a local write of a block between the check of `Put` and its writes leaves an applied block in the to-merge index (`blockstore.go:95`); it is merged once more |
| `MCLockSet` | `WaitersWaitForHolders` | a writer and an `RLockAll` announce themselves and wait for each other |
| `MCLockSet` | `NoPanic` | a WaitGroup is raised before a woken waiter has returned (`ab_lock.go:40`) |
| `MCLockSet` | `MutexIsDeleted` | a discarded transaction leaves its mutex behind (`lock_set.go:290`) |
| `MCReplicatorRetry` | `NothingForgotten` | a push that times out is not recorded (`replicator.go:443`) |
| `MCReplicatorRetry`, `MaxVersion = 2`, `Outcome = {"ok", "sendError"}`, `MaxAdds = 1`, no deletes or crashes | `NothingForgotten` | a failure recorded during a retry of the same document is deleted by it (`replicator.go:755`) |
| `MCReplicatorRetry` | `RecordOutlivesDocs` | the retry record is deleted although a document was stored since the check (`replicator.go:878`) |
| `MCReplicatorRetry` | `DeletedStaysDeleted` | the status update of a failed push writes a deleted replicator back (`replicator.go:529`) |
| `MCReplicatorRetry` | `CacheIsCopy` | callbacks run in the other order and leave a deleted replicator in the cache (`replicator.go:338`) |
| `MCNetwork` | `PublishReturns` | a subscriber that left with a full channel blocks the handler, and with it every publisher |
| `MCNode` | `NoPanic` | a response looked up just before its request gives up is sent to a closed channel (`message.go:104`) |
| `MCNode` | `SuccessMeansAllMerged` | a sync succeeds although a merge gave up (`merge.go:72`) or a document's head failed (`sync_doc.go:239`) |
| `MCNode` | `TopicsAlwaysFollowStore` | callbacks of two commits run in the other order, or the host fails in one and the error is logged (`p2p/collection.go:68`) |
| `MCNode` | `SameValueSameTag` | the tags pushed after a patch of the collection are made with another ID than those searched for |
| `MCNode` | `MissingIsRecorded` | a failed push overwrites the retry entry of an earlier one, with its fields (`se/coordinator_retry.go`) |
| `MCNode` | `AllAnswered` | the call succeeds although no answer had a document that was asked for |
| `MCNode` | `KeyIsFound` | the first answer to a broadcast is an error or a refusal, and the key that another peer would give is not waited for (`pubsub.go:203`) |
| `MCNode` | `IndexMatchesAlways` | stale objects or handles, a call that failed halfway and is committed, and `deleteWithFilter`, which does not touch indexes, leave entries astray |
| `MCNode` | `SurvivorsKeepHeads` | deleting a version deletes a head another version still has (`collection_define.go:758`) |
| `MCNode` | `StoredIsUsable` | a collection that was deleted and added again stays forbidden (`collection_store.go:33`) |
| `MCNode` | `GoneIsUnusable` | a transaction that read the record before it was forbidden caches it afterwards and goes on using the deleted collection (`collection_store.go:350`) |
| `MCNode` | `SameIDs` | the identifier of a collection depends on whether one whose name begins with its own was saved before (`core/block/store.go:59`) |
| `MCNode` | `EveryFieldIsFiled` | a document added through a handle on a version deleted since stores a field under the short ID 0 |
| `MCNode` | `TruncateEndsAlways` | a chunk full of index entries is read again and again |
| `MCNode` | `OthersKeepTheirsAlways` | an entry of a unique index is taken for the key of a document, and heads and blocks of others are deleted (`collection_truncate.go:116`); so are the heads of collection 10 with those of collection 1 (`collection_truncate.go:342`) |
| `MCNode` | `ReadsBackAlways` | a number whose encoding has the byte of `/` is split there (item 303 of a view's cache) |
| `MCRequests` | `YieldedWithSubFilter` | without an index a condition on the children is checked against those that the child select asks for, with one against all |
| `MCRequests` | `HostStillReturned` | in a turned join the filter of a to-one child select is not applied to the child, or is applied to the parents (`type_join.go:889`) |
| `MCRequests` | `ChildOrderKept` | an index that takes over the order of a grouping select drops the order of its child selects too (`planner.go:252`) |
| `MCRequests` | `RowsInOrderAlways` | there, a child select with a filter of its own decides the order of the groups |
| `MCRequests` | `KeysKeptApart` | keys of groups that print alike are one group (`arbitrary_join.go:217`) |
| `MCRequests` | `DependenciesFirst` | an average that is given a count or sum written before it runs first (`planner.go:281` says the contrary) |
| `MCRequests` | `AveragesStandAlone` | an average is given a count or sum with another limit or order (`mapper.go:1905`), or one that has not run |
| `MCRequests` | `NullsPassedOver` | a null among related documents starts `_max` and `_min` again |
| `MCRequests` | `MergeIsAnd` | alternatives of an `_or` on one property become an `_and` when filters are merged |
| `MCRequests` | `OnlyAskedFor` | the scan for parents without a child has the child's filter and not the parents' own (`targetable.go:97`) |
| `MCRequests` | `FetchesAsAskedAlways` | `_or` over several fields loses documents (`indexer.go:61`), `_in` with a value twice yields a document twice, `_in` with null on a unique index, `_leq: null` |
| `MCRequests` | `OrderedByIndexAlways` | `_in`, `_or` and deleted documents break the order an index promises |
| `MCRequests` | `NoCrash` | a nested `_or` panics |
| `MCRequests` | `FetchEnds` | `permissionedFetcher` above `multiFetcher` asks for the same document for ever when the caller may not read it and deleted documents are shown |
| `MCRequests` | `GoStaysInTxn` | a collection that was got in a transaction is used outside of it (`collection.go:84`) |
| `MCRequests` | `SaveAsOneAlways` | saving through HTTP is two calls, between which the document may come or go |

`RunsAsAsked` and `AnsweredTruly` have exceptions of their own, listed by operation and way
in (`Transports`): what a way in does not carry at all (`NotCarried`), calls that lose the
identity (`IdentityDropped`), failures that are not shown (`FailureHidden`) and calls that
are refused on the way (`Refused`).

Reading the code for the models also showed, without a property: `ge.go:41` compares
an integer with a float by `>`; `appendNotNilFilter` overwrites a `_neq` of the user; a limit of 0 on a child of a group
hides all; `SplitByFields` dereferences nil when only the foreign key is filtered on inside
an operator; `updateWithFilter` returns no error when the iteration fails
(`document_update.go:118`).

### Bounds

* Blocks (`MaxBlocks`). Four blocks make a document, two concurrent updates and a block
  above the fork: ties, a walk over two branches, a conflict. `OneMergeAtATime` explores
  the syncs and merges of different nodes one after the other: each reads only its node's
  state and blocks that never change, so they commute. `WholeSyncs` lets a sync store its
  DAG and go on to the merge with no other step between; `put_steps` is without it, with a
  block less. The theorems need none of these bounds.
* Lock calls. Two calls reach promotion, a lock in both groups and a release of two
  locks; three transactions give a holder, a waiter and one that comes late.
* Retries. Two goroutines are what a second retry of a replicator needs. A delete
  between two adds gives a replicator that goes, comes back and is retried by the old
  records. One restart in every place is enough to leave any persisted state behind.
* `network`. Three workers on two keys: one works, two wait and compete. Two requests of any
  kind for a block, its child, or a commit of the collection that links to it; two
  documents; one local commit each; two tries: a merge can succeed at once, after a
  conflict, or give up. The requests are alike, so that of two initial states that differ
  in their order one is explored. One publisher of three messages and one subscriber over channels
  of one place: every buffer fills. Two transactions with three calls on one collection.
* `node`. Two subscribers and two messages; two peers that answer twice, two documents and
  two heads; two transactions with three calls on four ids, of which two are refused; two updates of two
  fields to two replicators, or an update and a patch, with a restart; two requests that share the table; two syncs
  of two commits and a field with two keys, one peer that gives what it has and one that
  gives nothing. Two
  documents, a plain field and an array, a unique and a plain index of two fields, five
  calls: add an index, a document and another, change or remove, commit. Two transactions
  with three calls between them on two versions. What comes in twos and is told apart by
  its name only (`u1`, `u2`: subscribers, peers, transactions, requests) is symmetric; no
  module orders or chooses among them, and no property of this run is temporal. All graphs of three collections, the name of one of which begins with another's, in one
  operation or two. Truncation of two documents beside another collection's, with every combination of further keys, in
  chunks of two and of four keys. Up to two keys at a time out of sets that meet the
  boundaries of every encoding (bytes 0, 1, 47 `/`, 255, one and more bytes, signs).
* `requests`. Every operation through every way in, each argument in turn absent, zero or
  set, in and outside a transaction, with and without an identity, two configurations of
  the node. Queries: the shapes of filters, joins, groups and aggregates that the code
  treats differently, over collections of two to four documents with nulls, ties and
  dangling keys, two keys of one text among them; two rounds.
* Deadlock is checked where a model ends in an explicit last state (`requests`). The other
  systems stop when the bounded calls are used up, and rest when nothing is to be done.

### Fairness

* `LockSet`: a transaction that is not blocked goes on, and is closed in the end, as
  `defer txn.Discard()` does in the callers. `CallsReturn` is checked for one collection
  and without `RLockAll`, which breaks it (`WaitersWaitForHolders` fails); the callers'
  order of locking several collections is not modelled.
* `CommChannel`: the goroutines of `Send` and of the handlers run on, and the context of a
  request ends (`networkRequestTimeout`). The peer and the network owe nothing.
* `PushLog`: the goroutine of a request runs on when it is not blocked; every fetch in it
  has a timeout, so that it ends, well or not. Nothing is assumed of writers.
* `EventBus`: the handler, a publisher or subscriber in a call, and a subscriber that
  reads go on. Nobody has to publish, subscribe, leave or close.

No liveness is claimed of `ReplicatorRetry`: a document whose push failed may never be
pushed again (`NothingForgotten`, `RecordOutlivesDocs` and the run `retry_stuck`).

## Proofs

Each proof module proves `Spec => []IndInv` for an inductive invariant that TLC has
checked on the instances first, and derives the properties from it. The constants are
arbitrary but for the named assumptions: values are natural numbers, the placeholders
are no members of the sets, the bounds are natural numbers. A theorem that needs more
says so in front of an implication; these conditions are listed below, and the instances
that TLC explores satisfy them.

| theorem | assumes | which means |
|---|---|---|
| all of `PushLogProofs` | `CommitGraph` | what a commit is built on are commits, and what those are built on too; it touches one document or, as a commit of the collection, all; there are finitely many documents, and the bounds are natural numbers |
| `BusInvariance`, `BusDelivery` | `Sized` | the sizes of the channels, and the bound on messages, are natural numbers |
| `TopicsAgree`, `SyncMerges`, `TagsFound` | `MaxCalls`, `MaxAnswers`, `MaxUpdates`, `MaxVersions` `\in Nat` | the bound of the model is a number |
| `KeysCome` | `Graph` | links are to blocks, and the heads are blocks |

`MerkleDocProofs`: `TypeCorrect`, `MergesConverge`, `MergesAreCausal`, `HeadsLoseNothing`,
`MergedMarksAreTrue`, `LocalWritesWin`.
: Convergence is not inductive: it compares two stores and says nothing of how they came
  about. The invariant says that each store is a function of what was applied: a
  register is the greatest (priority, value) pair among the field blocks applied, and
  the status is deleted once a delete was applied. That one block keeps this whatever is
  applied before and however often is `ProcessGood`; that two such stores with the same
  blocks are equal is `JoinIsUnique`. For a running merge the invariant says that each
  queued block has every parent applied, queued in front of it, or still to be walked to
  (`WalkPush`, `WalkPop`, `WalkApply`); when the walk is done this is causal order. The
  marks of `Put` need the same care: a block that a call of `Put` has marked and not yet
  stored is in the to-merge index or has been applied since (`GoodSyncs`), so that storing
  it never makes it look merged.

`LockSetProofs`: `TypeCorrect`, `WriteLocksExclude`, `AllLockIsExclusive`, `LocksAreExclusive`.
: What a transaction owes a WaitGroup is the number of its `Done` callbacks whose
  `sync.Once` has not run (`CountInv`), so the counter is never negative, Discard after
  Commit included. The maps of held locks agree with the mutexes (`KeyInv`), and who has
  a write lock has a share of `aGroup` (`ShareInv`), which is what `RLockAll` waits for.

`LockSetReleaseProofs`: `ReleaseInvariance`, `ClosedReleases`.
: That a closed transaction holds nothing is about the end of a long run of callbacks. The
  invariant speaks of every moment before it: a transaction that holds a lock, or owes a
  WaitGroup a share, has a callback that gives it up, and this callback lies ahead of where
  Commit or Discard is in the list (`PendingInv`); and a mutex counts only transactions
  that list it as held or are in the call that takes it (`OwnInv`). At the end of the list
  nothing lies ahead.

`ReplicatorProofs`: `TypeCorrect`, `OneRetrierHolds`, `RetryFlagIsTrue`, `TagsFound`.
: The loop acts on records it read earlier. The invariant says that this is harmless: a
  record that was waiting when the iterator was opened, and is still to be visited, is
  waiting now (`SnapInv`), because only the loop itself and the one running retrier
  change a record that exists (`RetrierInv`), and the failure handler creates one only
  where there is none (`CreateInv`, which needs its mutex). `RunningInv` is conditional
  on no restart having happened: `retry_stuck` shows that it fails after one.
: `TagsFound`: pushes of a field may overtake each other, so no single push brings the
  tag that is searched for. The invariant is over all that are on their way: for each
  field of each document, a replicator that every push has reached has the tag of the
  present value, or some push under way brings it, having read this value or not having
  read yet (`TagInv`, `Brings`), unless a push of the document came after a patch (`later`); pushes and entries name fields that have been written
  (`WrittenInv`).

`WorkQueueProofs`: `KeysWorkedOn`, `OneWorker`, `Refinement`.
: Neither that one worker works on a key nor that a key in the map is worked on is
  inductive alone: `add` excludes the others because the key is in the map, and `done`
  may delete the key because nobody else works on it. With both, each step of the queue
  is a step of `KeyedMutex` or leaves it unchanged: a worker that goes to wait, is woken
  and competes again has asked once.

`PushLogProofs`: `PushesComplete`, `WritersConflict`, `QueuesExclude`, `QueuesAreMutexes`.
: `PushLog` uses two queues, and its steps are steps of both; the invariant of
  `WorkQueueProofs` is taken over for each, and with it the refinement: the composed
  system implements two keyed mutexes. That a merge is tried again at most once for each
  local commit is an inequality between a counter and the size of a set. It becomes
  inductive when a conflict that is pending is counted already (`ConflictInv`), and it
  needs the exclusion: a merge that conflicted with another merge would be paid for by no
  local commit. `syncDAG` stops at merged blocks, and a merge takes what is merged for
  applied; both are right because what is merged is merged with all that it is built on
  (`MergeInv`).

`ChannelProofs`: `BusInvariance`, `BusDelivery`, `CommInvariance`, `CommTableIsTrue`.
: What a subscriber gets is defined by the order in which the bus accepted the commands
  (`Due`: the messages between its subscribe and its unsubscribe). The invariant says of
  each moment that what it was sent is exactly what was due in the commands taken so far,
  but for the one message it is still to be sent (`SentInv`); that the handler's maps
  have those whom the commands taken so far have subscribed and not unsubscribed
  (`MapInv`); that the channel holds the last commands, Close's being the last of all
  (`ChannelInv`); that no two messages are alike (`MessageInv`); and that who subscribed
  did so once and before leaving (`CallInv`).
: `CommTableIsTrue`: an entry of the table is made with its channel and deleted before the
  channel is closed; once a response is in the channel, the handler that put it there has
  the deletion still before it (`TableInv`), and a channel holds one response at most
  (`RoomInv`).

`PeerProofs`: `KeysCome`, `SyncMerges`, `TopicsAgree`.
: `TopicsAgree`: an id without callbacks under way, and that never had two at a time, has
  its topic exactly when it has its marker, and one callback under way brings it there
  unless the host fails
  (`SettledInv`); a callback is queued only after its marker is written (`QueueInv`).
: `SyncMerges`: while no head has ended the call, every head that was told of is recorded,
  and what is recorded was merged, given up or, of a document, tried (`RecordInv`).
: `KeysCome`: `loadBlockLinks` calls itself; the invariant is over its stack. Each link of a
  block on the stack is still to be loaded, or is what the call above is for, or is done
  with, where done means that all below it is merged or has its key or was refused it
  (`CallInv`); when the last call returns this is so of the head (`HeadInv`). "All below"
  is the least set closed under links, so that no induction over the graph is needed.

Only model-checked:

* Liveness (`CallsReturn`, `HandlersReturn`, `EveryRequestEnds`,
  `PublishReturnsOrAbandoned`), which the proof system does not do.
* `CountersNeverLose`, a sum over the blocks applied, about which nothing can be proved
  without induction over a set.
* The components whose definitions recurse over data or over graphs of definitions: queries
  (`requests`), `KeysAreFaithful`, `IDsDependOnDefinitions`, `TruncatesItsOwn`. The same
  goes for `IndexesAgree`, where a call is a fold over the indexes of a fold over the
  entries of a document, and for `VersionsAgree`, where a version is looked for by a fold
  through the cache: what a fold leaves takes induction to prove.

## Not modelled

`PROJECT.json` lists every part with its status. In short:

* Access control is decided by an external engine. `Transports` has where it is asked and
  as whom.
* The key-value engine (corekv) is external: its transactions are taken to be atomic and
  to detect conflicts, its iterators to be ordered.
* Encryption as such (`KeyRequest` has who has which key), collection commits and
  signatures, which `MerkleDoc` leaves out.
* Migrations run as WASM modules in an external library.
* The parser of queries, schema generation and validation of definitions: translations
  without state, and large.
* Several joins of one select of which one is turned around: `parallelNode` then puts
  together what each yields (`multi.go:138`).
* Nodes of queries that walk the block graph, explain the plan or compute embeddings.
* Backup, configuration, keyrings, start of a node: input and output in one pass.
