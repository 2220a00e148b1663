# TLA+ models of the MKVS node database and the node's gRPC services

This directory holds TLA+ models, checked with TLC, of two parts of the
repository. `spec.md` describes the system.

- The versioned, content-addressed Merkle node database in
  `src/unnamed/part_001`: the Go package `badger` of the MKVS storage engine,
  with types `badgerNodeDB` and `badgerBatch`.
- The gRPC services of `src/go/api/grpc.go`: NodeController (unary methods)
  and Scheduler (unary methods and the `WatchCommittees` server stream).

## The system's parts

| Part (spec.md) | Code in `src/unnamed/part_001` | Model |
|---|---|---|
| C1 KeyFormat codec | key formats, lines 31-69 | not modelled: pure encoding. The model uses the decoded tuples. |
| C2 Metadata record | `meta` (earliest, last finalized, multipart version) | `NodeDB.meta`. The record helpers are outside `src/`. |
| C3 Roots metadata | `rootsMetadataKeyFmt`, lines 44-47 | `NodeDB.rootsMeta` |
| C4 Write-log store and retriever | `Commit` 1084-1092, `Finalize` 657-672, `Prune` 800-815, `GetWriteLog` 324-473 | stored and deleted in `NodeDB.writeLogs`; the path search is `GetWriteLog.tla`; the call and its iterator on the live store are `NodeReads.tla` |
| C5 Node store | `nodeKeyFmt`, `rootNodeKeyFmt`, `GetNode`, `HasRoot` | `NodeDB.nodes`, `NodeDB.rootNodes` (MVCC write histories) |
| C6 Batch | `NewBatch`, `PutNode`, `RemoveNodes`, `PutWriteLog`, `Reset`, `Commit` | `NodeDB` actions of the same names |
| C7 Lifecycle | `New`/`load`, `cleanMultipartLocked`, `Finalize`, `Prune`, `StartMultipartInsert`, `AbortMultipartInsert` | `NodeDB` actions |
| C8 Background GC | `cmnBadger.NewGCWorker` | not modelled: it changes no state the model observes |
| NodeController service | `grpc.go` 1-334: method descriptors, `serviceDesc`, nine handlers, client | `GrpcUnary.tla` with the tables of `NodeControllerRPC.tla`, on the server of `NodeServer.tla`; abstract spec `UnaryCall.tla` |
| Scheduler unary methods | `grpc.go` 375-523, 554-600 | `GrpcUnary.tla` with the tables of `SchedulerRPC.tla` |
| Scheduler `WatchCommittees` stream | `grpc.go` 525-551 (handler), 602-635 (client) | `WatchCommittees.tla`; abstract spec `CommitteeSubscription.tla` |
| Committee node environment | `grpc.go` 336-373 | not modelled: getters of node fields |
| Sentry | `src/go/sentry/sentry.go` | not modelled: `New` checks one argument for nil, `GetAddresses` forwards one call and wraps its error; no state or sequence of calls |
| CI and release | `src/unnamed/part_000`, `src/.goreleaser.yml` | not modelled |

### How the parts interact

- A caller opens a batch for an old root and a version.
- The tree layer fills the batch with `RemoveNodes` and `PutNode`. The caller may add a write log.
- `Commit` writes in this order:
  1. it flushes the node, marker and write-log batch;
  2. it commits the roots metadata and the updated-nodes record in one metadata transaction.
- Consensus finalizes each version with its chosen roots. `Finalize` deletes nodes that only dropped roots wrote, and drops those roots' metadata and write logs.
- `Prune` later removes the earliest version.
- A checkpoint restore works like this:
  1. `StartMultipartInsert` starts it.
  2. Chunk batches commit parts of the tree. Each node the restore adds is logged in the multipart node log.
  3. Then either:
     - `Finalize` ends the restore with `cleanMultipartLocked(false)`, or
     - `AbortMultipartInsert` and every `New` roll it back with `cleanMultipartLocked(true)`, which deletes every logged node and marker.

Every mutating method holds `metaUpdateLock` for its whole body. Batches live
across lock releases, so the steps of several batches interleave with
everything else.

A node serves its gRPC services on one server. Each `RegisterService` adds
a `serviceDesc` to it. A client method calls `conn.Invoke` (unary) or
`conn.NewStream` (stream) with a full method name. The server routes the call
by that name to the handler `serviceDesc` lists. A handler decodes the request
and, when the server has a unary interceptor, hands the interceptor a
`UnaryServerInfo` naming the method together with a closure that calls the
backend. Interceptors (authorization, metrics) decide by that name.

## Modules

### `NodeDB.tla`: the node database

**Data.**

- A Merkle tree is content addressed. A root is therefore identified with the set of node hashes of its tree (`Roots == SUBSET Hashes`), and the empty set is the empty root.
- The backing store is managed-timestamp MVCC. Each key written at a version timestamp holds one write per version: `"put"`, `"del"` or `"none"`. A key of this kind is a node (`nodes`) or a root marker (`rootNodes`). A read at v sees the newest write at a timestamp ≤ v (`Visible`). `ItemVersion` is what Prune compares with `tsToVersion(item.Version())`.
- Keys written at `tsMetadata` hold a single value:
  - `rootsMeta[v][root]`: the derived roots, or `NoEntry`;
  - `updatedNodes[v][root]`: the put and removed hashes;
  - `meta`;
  - `nodeLog`: the multipart restore node log, with node entries and typed root entries.
- `writeLogs` is a set of `<<version, newRoot, oldRoot>>` keys.
- `multipart` is the in-memory `d.multipartVersion`.

**Actions.**

| Action | Code |
|---|---|
| `NewBatch(b, ov, old, v)` | `NewBatch` 877-916 |
| `PutNodes(b, t, p)` | the tree layer's `RemoveNodes` and `PutNode` calls into batch b for new root t. A chunk batch puts part p. `PutNode` logs a node the batch's read transaction (opened at `NewBatch`) does not see, 1130-1150. |
| `PutWriteLog(b)` | 961-973 |
| `Reset(b)` | 1118-1128 |
| `Commit(b, reached)` | 990-1116 |
| `Finalize(v, roots, reached)` | 535-720 |
| `Prune(v, reached)` | 722-837 |
| `StartMultipartInsert(v)` | 839-868 |
| `AbortMultipartInsert(reached)` | 870-875 with `cleanMultipartLocked` 204-274 |
| `Restart(reached)` | `New` 72-105: `load` followed by `cleanMultipartLocked(true)` |
| `Crash` | the process dying between operations. In-memory batches and `d.multipartVersion` are lost. |

**Crash points.** `reached` counts the write-batch flushes and metadata
commits of an operation that made it to disk. A value below the full count is
a crash at that point (`Halt`). `CommitFlushes` names Commit's order:
1. the node log;
2. the nodes;
3. the metadata.

**Bounds.** Each bound is a CONSTANT and appears in the guards:

| Constant | What it bounds |
|---|---|
| `MaxVersion` | the versions |
| `MaxCommits` | the commits that write to the store |
| `MaxCrashes` | the crashes |
| `Batches` | the batch objects |
| `RestoreVersions` | the versions a restore may start at |

**Caller model.** These are assumptions about consensus and the restorer; the
code does not enforce them. Each is a definition of its own:

- `FinalizeInputs` and `Grounded`: consensus finalizes one root, or only the empty root. That root's lineage (ghost `lineage`) starts at the empty root, or at the tip of the version finalized before.
- `FinalizeInOrder`: consensus finalizes versions in order from the first that holds roots. Only a restore starts at a later version.
- `RestoreComplete`: the restorer finalizes a restored root only once every node of it was put at the restore version.
- `SerialRestore` (a CONSTANT): the restorer starts and aborts a restore only while no batch is open. The `commit_after_abort` run turns it off.
- `NewBatch`'s caller opens batches only at versions not yet finalized, except the restorer. The restorer opens its chunk batches at whatever version it started the restore, a finalized one included, since `StartMultipartInsert` does not check (839). `NewBatch` itself checks nothing about finalization.
- `restoreBase` (ghost): the node store, the root markers and the roots metadata when the last restore started.

### `GetWriteLog.tla`: the write-log path search

This module models the breadth-first search of `GetWriteLog` (lines 361-472)
over the write logs of one version. One `Step` is one iteration of the outer
loop. The keys into the head item are read in iterator order. The first key
whose old root is the start root ends the search. The others are queued while
`depth < maxAllowedHops`.

`Chains(n)` is the reference definition: the chains of n logs, in commit
order, from the start root to the end root. The arguments of the search
(`logs`, `startRoot`, `endRoot`) are chosen in `Init` from every set of write
logs over `RootIds`.

The early checks (discarded write logs, `Follows`, earliest version, root
existence) are assumed to pass. Streaming and leaf rehydration
(`ReviveHashedDBWriteLogs`) are outside `src/`.

### `NodeReads.tla`: a reader of write logs on the live store

`NodeReads` extends `NodeDB` with one reader, the variable `rd`: idle, or
streaming the write logs still to be returned (`path`) at version `v`.
Readers take no lock, so their steps interleave with every NodeDB step.

- `GetWriteLog(s, e, v)` (324-350 and the search 352-472) covers the whole call. It returns `ErrWriteLogNotFound` when write logs are discarded or `v` is below the earliest version. Otherwise it checks the end root's marker at ts(v) and searches. A found path opens the stream. Every error return changes nothing, so it is not a step. The unlocked earliest check (335) and the search are one step: a Prune between them can only turn a found path into an error.
- `IteratorNext` (410-458) is one call of the iterator. It runs `tx.Get` of the next log key, then `GetNode` (276-322) at the log's new root for every leaf: its own earliest check, marker check and node read. It returns the log, the end of the stream or an error.
- `ReaderClose` is the consumer closing the iterator early (`tx.Discard`, 453-456).
- `StoreStep` is any `NodeDB` step. A crash also ends the reader.

In badger's managed mode, a read at ts(v) sees what Finalize and Prune later
write at ts(v). A stream is therefore not a snapshot: each iterator call sees
the store as it is then.

The search is abstracted as "some shortest chain of at most two logs". The
`getwritelog` run checks that the code's breadth-first search returns one.
The leaves of a log are the nodes its new root has and its old root lacks.
Roots carry no version, so `endRoot.Follows(startRoot)` is not modelled.

Calls are enumerated only at finalized, unpruned versions, into roots
registered there. A reader writes nothing. Calls elsewhere therefore add no
store state, only streams that the property says nothing about.

### `GrpcUnary.tla`, `NodeControllerRPC.tla`, `SchedulerRPC.tla`, `NodeServer.tla`: unary calls

`GrpcUnary` models the unary calls of one server. A service is given by five
tables, which the service modules read off the code:

| Table | NodeController | Scheduler |
|---|---|---|
| the methods | `NCMethods`, lines 12-33 | `SchedMethods`, 385-399 |
| `ServiceDesc`: name to handler | `NCServiceDesc`, 36-79 | `SchedServiceDesc`, 402-431 |
| `Info`: the `FullMethod` a handler gives the interceptor | `NCInfo`, 81-267: `handlerIsReady` names IsSynced (172) | `SchedInfo`, 433-523 |
| `Decodes`: handlers that decode a request first | `NCDecodes` | `SchedDecodes` (all) |
| `Backend`: the method the handler's closure calls | `NCBackend` | `SchedBackend` |
| `Client`: the name a client method invokes | `NCClient`, 274-334 | `SchedClient`, 559-600 |

`NodeServer` joins the two services' tables; their method names are disjoint.

| Action | Code |
|---|---|
| `Invoke(i, m, b)` | a client method's `conn.Invoke` with a well-formed or malformed request |
| `Serve(q)` | the handler's early returns in order: a `dec` error; no interceptor, so call the backend; otherwise the interceptor refuses or calls the closure. The backend answers ok or an error of its own. `handlerRequestShutdown` 81-102 is the shape every handler has. |
| `Receive(r)` | `Invoke` returning the response, 295-298 |
| `ClientError(i)` | `Invoke` returning a deadline or connection error while the request may still be served |
| `Discard(r)`, `Lose(x)` | a late response dropped; a message lost by the transport |

The interceptor is a policy: it calls the closure for the `FullMethod`s in
`Policy` and refuses the others. Request payloads are abstracted to
well-formed or malformed. The type assertions in the closures match what each
handler passes (checked by reading, lines 81-523) and are not modelled.

`UnaryCall` is what a unary call promises:
- the server runs the method the client called, at most once, and only if the policy admits it;
- "ok" comes only after that method ran;
- "denied" comes only for a refused method.

`GrpcUnary` maps to it with `execs <- {<<e.id, e.method>> : e \in executed}`.

### `WatchCommittees.tla`: the committee stream

This module models the client function and its goroutine (602-635) and the
server handler (525-551), over two FIFO queues (`c2s`, `s2c`).

| Action | Code |
|---|---|
| `NewStream` | `conn.NewStream` with the context of `pubsub.NewContextSubscription` |
| `SendInit` | `SendMsg(nil)`. The stream's descriptor has `ClientStreams` false, so gRPC returns nil even when the write fails because the server ended the stream or the connection broke. The message is then dropped, and the goroutine's `RecvMsg` reports the status later. |
| `CloseSend` | `CloseSend`, which returns nil, then the goroutine starts |
| `WorkerRecv` | the goroutine's `RecvMsg`: a committee, or an error (a status, a cancelled context, a broken connection), after which it exits |
| `Deliver` | `ch <- &ev` on the unbuffered channel, which is the consumer's receive |
| `WorkerCancelled` | `case <-ctx.Done()` |
| `CloseSub` | the consumer's `sub.Close`, which cancels the context |
| `ServerStart` | the server starting the handler, or rejecting the stream |
| `HandlerRecv` | `RecvMsg(nil)` |
| `HandlerSubscribe` | the backend's `WatchCommittees`, which may fail |
| `HandlerSelect` | the loop's `select` |
| `HandlerSend` | `SendMsg`: it waits while `Window` committees are in flight and fails once the stream context is done |
| `Return(ok)` | the handler returning: the deferred `sub.Close` and the status |
| `Publish`, `BackendClose` | the scheduler backend |
| `ResetReachesServer` | the client's cancellation arriving as `RST_STREAM` |
| `Break` | the connection failing |

`released` records that gRPC released the client stream. The ghosts
`subscribed` and `received` record what the backend queued for this
subscription and what the consumer received. `WatchRefinesSubscription`
checks the module against `CommitteeSubscription` with `published <-
subscribed`, `delivered <- received` and `open <- (worker # "exited")`.

**Fairness.** `Spec` assumes weak fairness of the steps of the goroutines
the code starts and keeps running: the client's sends and goroutine, the
server handler, and the transport delivering the reset. The caller, the
consumer, the backend and faults are not fair, since nothing in the code makes
them act. That the consumer keeps reading is an assumption about the caller,
so `AllDelivered` takes `WF_vars(Deliver)` as its antecedent: it is checked
under `Spec`, for the behaviours in which the consumer keeps reading.

## Runs

Every NodeDB run has 2 hashes (so 4 roots), versions 0..1, and symmetry over
hashes and batches.

With two hashes, every case the runs need happens:
- two roots share a node;
- a root both keeps and replaces nodes;
- a restore adds some nodes while others already exist;
- two versions let a root derive across versions and let Prune run.

### Passing runs

| Run | Configuration | Checks | What it shows |
|---|---|---|---|
| `restore` | 1 batch, 1 crash, 2 commits, restore at version 1 | `TypeOK`, `FinalizeNeverPanics`, `RestoreLogCovers` | Every node and marker a restore adds is in the node log until the restore ends. This holds through chunk commits crashed between flushes, aborts and restarts. Finalize never finds a registered root without an updated-nodes record (the panic at line 621). |
| `writelogs` | 1 batch, no crash, 2 commits, write logs kept, restore at version 1 | `FinalizedWriteLogsOwned`, `FinalizedVersionFrozen` | Every write log kept at a finalized, unpruned version belongs to a root that Finalize kept. A restore started at version 1 after it was finalized is reachable: its chunk batches are opened and filled there, and Commit's finalized check (1005-1008) keeps them from changing the version. It runs in about 2 minutes. |
| `reads` | `MC_NodeReads.cfg`: the `writelogs` bounds with one reader | `FinalizedStreamsComplete` | A stream opened into a finalized root never fails part-way while its version is unpruned. The next log and every leaf it rehydrates stay readable through Commits, restores and Finalize. The failing branch of the iterator is reached only after Prune. It runs in about 2 minutes. |
| `batches` | 2 batches, no crash, 2 commits, write logs discarded | `FinalizedVersionFrozen` | No step changes the registered roots of a finalized, unpruned version, and no step makes one of those roots unreadable. This holds with two batches open at once that commit in either order around Finalize and Prune. |
| `watch` | 3 committees, window 2, 1 connection break | `TypeOK`, `WatchRefinesSubscription`, `CancelReleases`, `AllDelivered` | The consumer receives the committees published to its subscription in order, with none skipped or repeated, through server rejection, backend failure, resets and a broken connection. After `sub.Close` both the goroutine and the handler end, and the stream is released. A consumer that keeps reading eventually receives every committee published to its subscription, unless it closed the subscription or the connection broke. With 3 committees and a window of 2, the server blocks on flow control. |
| `node_rpc` | both services, 2 concurrent calls, malformed requests, a policy refusing GetCommittees and RequestShutdown | `TypeOK`, `PolicyEnforced`, `UnaryRefinesCall` | No refused method runs. Every call runs exactly the method its client method names, at most once, and reports ok only after it ran. This holds with lost messages, deadlines and late responses. |
| `getwritelog` | roots 1..4, `maxAllowedHops = 2`, every set of logs | `FoundIffChain` | The search finds a path exactly when a chain of at most two logs exists. The path it returns is a shortest chain, read backwards. |

The restore and GetWriteLog checks stop by design. The GetWriteLog runs say
`CHECK_DEADLOCK FALSE` because the search terminates. NodeDB ends in
`VersionsExhausted` once every version is finalized. The watch runs say
`CHECK_DEADLOCK FALSE` because a subscription may wait forever for a
committee. The unary runs say it because their calls are finite.

Bounds: two concurrent calls are enough for one call's late response to
overtake another call. With 3 committees and a window of 2, a committee
waits in the backend channel while the stream is full. One connection break
reaches every phase of the stream.

NodeDB operations are called by an external caller, so NodeDB assumes no
fairness.

### Violation runs

Each violation run checks one property that the spec, a comment or the code's
own logic states. TLC shows that the code breaks it.

| Run | Property | What the trace shows |
|---|---|---|
| `shared_node` | `FinalizedRootsReadable` | A root `{h1}` is finalized at version 0. At version 1, root `{h1}` is built from the empty root and a sibling `{h1,h2}` from `{h1}@0`. Finalizing `{h1,h2}` deletes at version 1 nodes the dropped root put. `h1` was put at version 1 by the dropped root, but the finalized root reads it from version 0, and the delete at version 1 hides that. The comment at lines 642-645 says this deletion is safe. |
| `finalize_crash` | `FinalizedRestoreNotLogged` | A crash after Finalize's metadata commit (line 709) and before its `cleanMultipartLocked(false)` (714-718) makes the next `New` delete the nodes of a finalized version. |
| `prune_crash` | `HasRootImpliesRootNode` | A crash between Prune's flush (821) and its metadata commit (826-831) leaves registered roots without markers. The retried Prune then fails in `api.Visit` forever. |
| `restore_abort` | `AbortRestoresStore` | Root `{h1}` is committed at version 1 by an ordinary batch. A restore starts at version 1, and a chunk batch commits the same root. Commit logs the root's marker whatever existed before (1023-1026), and repeated chunk commits of a root are allowed (1030-1037). `AbortMultipartInsert` then deletes the marker of a root the restore did not create. Spec section 8, invariant 5, says the store after a start and an abort is the store before. |
| `isready_policy` | `PolicyEnforced` | An interceptor refuses IsReady, yet IsReady runs, because `handlerIsReady` gives the interceptor the name IsSynced (172). |

Four more configurations reproduce disagreements that are kept out of the
run list:

| Configuration | Property | What the trace shows |
|---|---|---|
| `MC_NodeDB_abort_root.cfg` | `HasRootImpliesRootNode` | After `AbortMultipartInsert`, the restored root's marker is deleted but the root is still registered. Spec scenario S4 says `HasRoot` is false after the abort. |
| `MC_NodeDB_commit_after_abort.cfg` | `NodeLogOnlyDuringRestore` | A chunk batch opened during a restore commits after the abort and writes node-log entries with no restore in progress. |
| `MC_NodeDB_chunk_finalize.cfg` (spec `NoAbortSpec`, a restorer that never aborts) | `FinalizedRootsReadable` | Root `{h1}` is committed at version 1 by an ordinary batch. A restore then runs at version 1 and commits `{h1,h2}` from chunks. A chunk Commit stores an empty updated-nodes list for its root (1049-1052). Finalize keeps `{h1,h2}` and drops `{h1}`. It counts `h1`, put by the dropped root, as lone, and nothing the kept root recorded protects it (620-650). The finalized restored root loses `h1`. |
| `MC_GetWriteLog_order.cfg` (module `MC_GetWriteLog`) | `ResultInCommitOrder` | The log keys are collected from the end root backwards (line 408). The path is therefore the reverse of the commit order that spec scenario S3 states. |

## Not modelled, and why

- **Namespace and engine-version checks, read-only mode, `UpgradeInProgress`.** Each is an early return that leaves state unchanged.
- **`GetNode`, `HasRoot`, `GetRootsForVersion` as calls of their own.** These are modelled as the state predicates `Visible`, `VisitOK` and `Present`. `GetNode` is a reader step only inside the write-log iterator of `NodeReads`.
- **The window inside Prune.** Prune flushes its deletes (821) before it advances the earliest version (826-831), and is one step here. A reader that passed the unlocked earliest check (285, 335) during that window gets `NodeNotFound` or `RootNotFound`. These are the answers the check gives once Prune is done. `FinalizedStreamsComplete` exempts any stream whose version Prune has started to remove, so the window adds nothing to it.
- **Snapshot reads.** Spec line 186 says the write-log iterator reads a snapshot. In managed mode a stream opened before `Prune(v)` sees Prune's deletes at ts(v) and fails. The model shows this: the failing branch of `IteratorNext` is reached after a Prune. It is not a run of its own, since the spec's word is not a stated guarantee about pruning.
- **A crash between Commit's node flush and its metadata commit with write logs kept** (line 1101). It leaves a write log at a version whose roots are not registered. Prune later removes it by prefix. `FinalizedWriteLogsOwned` is therefore checked only without crashes.
- **`nodeEnvironment` of the committee node** (grpc.go 346-373). Its getters return fields of the node. They have no state or control to check.
- **Error returns from the backing store** other than a crash.
- **gRPC internals.** The modules model the library (HTTP/2 framing, flow-control windows in bytes, keepalive) only by what the code above it observes.
- **The payloads of RPC messages** and their CBOR encoding.
- **The error returns of `WatchCommittees`** (607-615). `NewStream` fails before any stream exists. For this stream, whose descriptor has `ClientStreams` false, `SendMsg` and `CloseSend` return nil on a failed write, so their error returns are not reached by a server that ended the stream or by a broken connection.

## Plan for later sittings

1. Write an abstract specification of the version lifecycle: versions pending, finalized, pruned, and the roots readable at each. Check `NodeDB` against it with `INSTANCE ... WITH` a refinement mapping, under the caller model.
2. Add liveness to NodeDB: a restore ends (finalized or cleaned) under fairness of the restorer and of restarts.
3. Compose `WatchCommittees` with `GrpcUnary` on one connection, so that a connection break fails unary calls and the stream together.
