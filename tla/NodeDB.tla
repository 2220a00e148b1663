------------------------------- MODULE NodeDB -------------------------------
(***************************************************************************)
(* The Badger-backed MKVS node database of src/unnamed/part_001           *)
(* (package badger, type badgerNodeDB and badgerBatch).                    *)
(*                                                                         *)
(* Data abstraction.  A Merkle tree is content addressed, so a root is     *)
(* identified with the set of node hashes of its tree: Roots == SUBSET     *)
(* Hashes, and the empty set is the well-known empty root.  There is one   *)
(* root type.  The backing store is managed-timestamp MVCC: every key that *)
(* the code writes at a version timestamp (nodes, root markers) is a       *)
(* function from versions to the last write at that timestamp ("put",      *)
(* "del" or "none"), and a read at version v sees the newest write at a    *)
(* timestamp <= v.  Keys written at tsMetadata (metadata, roots metadata,  *)
(* updated-node records, the multipart node log) hold a single value.      *)
(* Write logs are only ever written or deleted at their own version, so    *)
(* they are a set of <<version, newRoot, oldRoot>> keys.                   *)
(*                                                                         *)
(* Control.  Every mutating method holds metaUpdateLock for its whole      *)
(* body, so each is one atomic action, except that the process may crash  *)
(* between the write-batch flush and the metadata commit of Commit,        *)
(* Finalize, Prune and cleanMultipartLocked; the *Crash actions take the   *)
(* flushed prefix and stop the process.  Batches live across lock          *)
(* releases: NewBatch, the tree layer filling a batch, and Commit are      *)
(* separate steps that interleave with every other operation.              *)
(***************************************************************************)
EXTENDS Naturals, FiniteSets, FiniteSetsExt

CONSTANTS
    Hashes,            \* node content hashes (model values)
    MaxVersion,        \* versions are 0..MaxVersion
    Batches,           \* api.Batch objects that may be open at once
    MaxCrashes,        \* bound on process crashes
    DiscardWriteLogs,  \* cfg.DiscardWriteLogs
    RestoreVersions,   \* versions StartMultipartInsert may be called with
    MaxCommits,        \* bound on commits that write to the store
    SerialRestore,     \* the restorer starts and aborts only with no batch open
    NoEntry            \* model value: absent key / no root chosen

Versions == 0..MaxVersion
Roots == SUBSET Hashes
EmptyRoot == {}
\* multipartVersionNone
MultipartNone == 0
\* Entries of the multipart restore node log: TypedHash of type Invalid
\* for nodes, the root's TypedHash for roots.
LogEntries == {<<"node", h>> : h \in Hashes} \cup {<<"root", r>> : r \in Roots}

VARIABLES
    nodes,         \* nodeKeyFmt: [Hashes -> [Versions -> write]]
    rootNodes,     \* rootNodeKeyFmt: [Roots -> [Versions -> write]]
    writeLogs,     \* writeLogKeyFmt keys present
    rootsMeta,     \* rootsMetadataKeyFmt: [v -> [root -> derived roots or NoEntry]]
    updatedNodes,  \* rootUpdatedNodesKeyFmt: [v -> [root -> record or NoEntry]]
    meta,          \* metadataKeyFmt record (also cached in d.meta)
    nodeLog,       \* multipartRestoreNodeLogKeyFmt keys present
    multipart,     \* d.multipartVersion (in memory)
    up,            \* the process is running (between New and a crash)
    crashes,       \* number of crashes so far
    batch,         \* [Batches -> state of the badgerBatch object]
    commits,       \* number of commits that wrote to the store (bound only)
    lineage,       \* ghost: <<oldVersion, oldRoot, version, newRoot>> of every
                   \* root registration, the chain consensus finalizes along
    restoreBase    \* ghost: node, root-marker and roots-metadata store when the last
                   \* multipart restore started

vars == <<nodes, rootNodes, writeLogs, rootsMeta, updatedNodes, meta,
          nodeLog, multipart, up, crashes, batch, commits,
          lineage, restoreBase>>

Writes == {"none", "put", "del"}

UpdatedRec == [put : SUBSET Hashes, removed : SUBSET Hashes]

BatchRec == [open : BOOLEAN, oldRoot : Roots, oldVersion : Versions,
             version : Versions, chunk : BOOLEAN, logBatch : BOOLEAN,
             newRoot : Roots \cup {NoEntry}, put : SUBSET Hashes,
             removed : SUBSET Hashes, logged : SUBSET Hashes,
             writeLog : BOOLEAN]

ClosedBatch == [open |-> FALSE, oldRoot |-> EmptyRoot, oldVersion |-> 0,
                version |-> 0, chunk |-> FALSE, logBatch |-> FALSE,
                newRoot |-> NoEntry, put |-> {}, removed |-> {},
                logged |-> {}, writeLog |-> FALSE]

-----------------------------------------------------------------------------
(* MVCC reads and writes of the backing store.                             *)

\* Timestamps <= v at which key k of store has a write.
WrittenAt(store, k, v) == {u \in 0..v : store[k][u] # "none"}

\* A read transaction at versionToTs(v) finds key k.
Visible(store, k, v) ==
    WrittenAt(store, k, v) # {} /\ store[k][Max(WrittenAt(store, k, v))] = "put"

\* item.Version() of the entry a read at v finds (Prune's tsToVersion check).
ItemVersion(store, k, v) == Max(WrittenAt(store, k, v))

\* A write batch at versionToTs(v) setting or deleting every key of S.
WriteAt(store, S, v, w) ==
    [k \in DOMAIN store |-> IF k \in S THEN [store[k] EXCEPT ![v] = w]
                                       ELSE store[k]]

Present(rm, v) == {r \in Roots : rm[v][r] # NoEntry}

\* A root with no registered derived root in its own version: the tip of a
\* lineage, whose tree readers of the version use.
Tip(v, r) == rootsMeta[v][r] \cap Present(rootsMeta, v) = {}


-----------------------------------------------------------------------------
Init ==
    /\ nodes = [h \in Hashes |-> [v \in Versions |-> "none"]]
    /\ rootNodes = [r \in Roots |-> [v \in Versions |-> "none"]]
    /\ writeLogs = {}
    /\ rootsMeta = [v \in Versions |-> [r \in Roots |-> NoEntry]]
    /\ updatedNodes = [v \in Versions |-> [r \in Roots |-> NoEntry]]
    \* load() on an empty database: Version and Namespace are set, the
    \* other fields keep their zero values.
    /\ meta = [earliest |-> 0, last |-> 0, hasLast |-> FALSE,
               multipart |-> MultipartNone]
    /\ nodeLog = {}
    /\ multipart = MultipartNone
    /\ up = TRUE
    /\ crashes = 0
    /\ batch = [b \in Batches |-> ClosedBatch]
    /\ commits = 0
    /\ lineage = {}
    /\ restoreBase = [nodes |-> nodes, rootNodes |-> rootNodes, rootsMeta |-> rootsMeta]

-----------------------------------------------------------------------------
(* cleanMultipartLocked(removeNodes).  The batch phase deletes the logged  *)
(* nodes and root markers at the restore version together with the log     *)
(* entries; the metadata phase resets the multipart version.               *)

CleanVersion == IF multipart # MultipartNone THEN multipart ELSE meta.multipart

CleanNodes(removeNodes, v) ==
    IF removeNodes THEN WriteAt(nodes, {h \in Hashes : <<"node", h>> \in nodeLog}, v, "del")
                   ELSE nodes

CleanRootNodes(removeNodes, v) ==
    IF removeNodes THEN WriteAt(rootNodes, {r \in Roots : <<"root", r>> \in nodeLog}, v, "del")
                   ELSE rootNodes

-----------------------------------------------------------------------------
(* A crash stops the process before an operation has run all of its       *)
(* phases; `reached` counts the phases (flushes and metadata commits)     *)
(* that made it to disk.  The in-memory state (batches, d.multipartVersion)*)
(* is lost.                                                                 *)
Halt(reached, full) ==
    IF reached = full THEN UNCHANGED <<up, crashes>>
    ELSE /\ crashes < MaxCrashes
         /\ up' = FALSE
         /\ crashes' = crashes + 1

CrashedBatches == [b \in Batches |-> ClosedBatch]

\* The process dies between two operations: nothing unflushed survives.
Crash ==
    /\ up
    /\ crashes < MaxCrashes
    /\ up' = FALSE
    /\ crashes' = crashes + 1
    /\ batch' = CrashedBatches
    /\ multipart' = MultipartNone
    /\ UNCHANGED <<nodes, rootNodes, writeLogs, rootsMeta, updatedNodes, meta, nodeLog, commits, lineage, restoreBase>>

\* cleanMultipartLocked(removeNodes) at restore version v, up to `reached`
\* of its two phases (batch flush, metadata commit).
CleanMultipart(removeNodes, v, reached) ==
    /\ nodes' = IF reached >= 1 THEN CleanNodes(removeNodes, v) ELSE nodes
    /\ rootNodes' = IF reached >= 1 THEN CleanRootNodes(removeNodes, v) ELSE rootNodes
    /\ nodeLog' = IF reached >= 1 THEN {} ELSE nodeLog
    /\ meta' = IF reached >= 2 THEN [meta EXCEPT !.multipart = MultipartNone] ELSE meta

\* New: load() then cleanMultipartLocked(true) with the persisted version
\* (d.multipartVersion of a fresh process is multipartVersionNone).
Restart(reached) ==
    /\ ~up
    /\ IF meta.multipart = MultipartNone
         THEN /\ reached = 0
              /\ UNCHANGED <<nodes, rootNodes, nodeLog, meta>>
         ELSE /\ reached \in 1..2
              /\ CleanMultipart(TRUE, meta.multipart, reached)
    /\ IF reached = 2 \/ meta.multipart = MultipartNone
         THEN up' = TRUE /\ UNCHANGED crashes
         ELSE crashes < MaxCrashes /\ crashes' = crashes + 1 /\ UNCHANGED up
    /\ multipart' = MultipartNone
    /\ UNCHANGED <<writeLogs, rootsMeta, updatedNodes, batch, commits, lineage, restoreBase>>

\* StartMultipartInsert(version).
StartMultipartInsert(v) ==
    /\ up
    /\ v # MultipartNone
    /\ multipart = MultipartNone
    /\ SerialRestore => \A b \in Batches : ~batch[b].open
    /\ meta' = [meta EXCEPT !.multipart = v]
    /\ multipart' = v
    /\ restoreBase' = [nodes |-> nodes, rootNodes |-> rootNodes, rootsMeta |-> rootsMeta]
    /\ UNCHANGED <<nodes, rootNodes, writeLogs, rootsMeta, updatedNodes,
                   nodeLog, up, crashes, batch, commits, lineage>>

\* AbortMultipartInsert: cleanMultipartLocked(true).
AbortMultipartInsert(reached) ==
    /\ up
    /\ CleanVersion # MultipartNone
    /\ SerialRestore => \A b \in Batches : ~batch[b].open
    /\ reached \in 1..2
    /\ CleanMultipart(TRUE, CleanVersion, reached)
    /\ multipart' = MultipartNone
    /\ Halt(reached, 2)
    /\ batch' = IF reached = 2 THEN batch ELSE CrashedBatches
    /\ UNCHANGED <<writeLogs, rootsMeta, updatedNodes, commits, lineage, restoreBase>>

-----------------------------------------------------------------------------
(* Batches.                                                                *)

\* NewBatch(oldRoot, version, chunk).  The caller holds oldRoot, a root of
\* oldVersion, and commits at the same or the next version (node.Root
\* Follows); it opens batches only for versions not yet finalized, except
\* the restorer, which opens its chunk batches at whatever version it
\* started the restore (NewBatch itself checks no finalized version).  A
\* batch is accepted only if chunk equals "a multipart restore is active",
\* and then only at the multipart version.
NewBatch(b, ov, old, v) ==
    /\ up
    /\ ~batch[b].open
    /\ old \in Present(rootsMeta, ov) \cup {EmptyRoot}
    /\ v \in {ov, ov + 1} \cap Versions
    /\ ~(meta.hasLast /\ v <= meta.last) \/ multipart = v
    /\ multipart = MultipartNone \/ multipart = v
    /\ batch' = [batch EXCEPT ![b] =
                   [ClosedBatch EXCEPT !.open = TRUE, !.oldRoot = old,
                      !.oldVersion = ov, !.version = v,
                      !.chunk = (multipart # MultipartNone),
                      !.logBatch = (multipart # MultipartNone)]]
    /\ UNCHANGED <<nodes, rootNodes, writeLogs, rootsMeta, updatedNodes, meta,
                   nodeLog, multipart, up, crashes, commits, lineage, restoreBase>>

\* The tree layer fills the batch for new root t: RemoveNodes of the
\* replaced nodes, then PutNode of every new node p.  In chunk mode a
\* restore chunk puts part p of the target tree t and removes nothing.
\* PutNode of a multipart batch logs a node its read transaction does not
\* find at the batch version.
PutNodes(b, t, p) ==
    LET bt == batch[b] IN
    /\ up
    /\ bt.open
    /\ bt.newRoot = NoEntry
    /\ IF bt.chunk THEN p # {} /\ p \subseteq t
                   ELSE p = t \ bt.oldRoot
    /\ batch' = [batch EXCEPT ![b].newRoot = t, ![b].put = p,
                   ![b].removed = IF bt.chunk THEN {} ELSE bt.oldRoot \ t,
                   ![b].logged = IF bt.logBatch
                                   THEN {h \in p : ~Visible(nodes, h, bt.version)}
                                   ELSE {}]
    /\ UNCHANGED <<nodes, rootNodes, writeLogs, rootsMeta, updatedNodes, meta,
                   nodeLog, multipart, up, crashes, commits, lineage, restoreBase>>

\* PutWriteLog: refused in chunk mode, a no-op when write logs are
\* discarded.
PutWriteLog(b) ==
    /\ up
    /\ batch[b].open
    /\ ~batch[b].chunk
    /\ ~DiscardWriteLogs
    /\ ~batch[b].writeLog
    /\ batch' = [batch EXCEPT ![b].writeLog = TRUE]
    /\ UNCHANGED <<nodes, rootNodes, writeLogs, rootsMeta, updatedNodes, meta,
                   nodeLog, multipart, up, crashes, commits, lineage, restoreBase>>

\* Reset: cancel the write batches and drop the batch.
Reset(b) ==
    /\ up
    /\ batch[b].open
    /\ batch' = [batch EXCEPT ![b] = ClosedBatch]
    /\ UNCHANGED <<nodes, rootNodes, writeLogs, rootsMeta, updatedNodes, meta,
                   nodeLog, multipart, up, crashes, commits, lineage, restoreBase>>

-----------------------------------------------------------------------------
(* Batch.Commit(root).  Phases: 1 the multipart node log batch is flushed, *)
(* 2 the node batch (nodes, root marker, write log) is flushed, 3 the      *)
(* metadata transaction (roots metadata, updated nodes) is committed.      *)

\* Variant: the not-yet-finalized check of Commit left out.
CommitEnabledUnchecked(bt) ==
    /\ bt.open
    /\ bt.newRoot # NoEntry
    /\ multipart = MultipartNone \/ multipart = bt.version

CommitEnabled(bt) ==
    /\ bt.open
    /\ bt.newRoot # NoEntry
    /\ multipart = MultipartNone \/ multipart = bt.version
    /\ ~(meta.hasLast /\ meta.last >= bt.version)

\* The root is already registered: a non-chunk commit only resets.
CommitIsNoop(bt) == rootsMeta[bt.version][bt.newRoot] # NoEntry /\ ~bt.chunk

\* The old root is linked only if it is registered (it may be the new root
\* itself, just registered in the same transaction) and not pruned.
CommitLinks(bt) ==
    ~bt.chunk /\ bt.oldRoot # EmptyRoot

CommitLinkOK(bt) ==
    CommitLinks(bt) =>
        /\ ~(bt.oldVersion < meta.earliest /\ bt.oldVersion # bt.version)
        /\ \/ bt.oldRoot \in Present(rootsMeta, bt.oldVersion)
           \/ bt.oldVersion = bt.version /\ bt.oldRoot = bt.newRoot

\* Variant: the root logged with the node type (TypedHash of type Invalid).
CommitNodeLogUntyped(bt) ==
    IF bt.logBatch
      THEN nodeLog \cup {<<"node", h>> : h \in bt.logged \cup bt.newRoot}
      ELSE nodeLog

CommitNodeLog(bt) ==
    IF bt.logBatch
      THEN nodeLog \cup {<<"node", h>> : h \in bt.logged} \cup {<<"root", bt.newRoot>>}
      ELSE nodeLog

CommitWriteLogs(bt) ==
    IF ~bt.chunk /\ bt.writeLog
      THEN writeLogs \cup {<<bt.version, bt.newRoot, bt.oldRoot>>}
      ELSE writeLogs

CommitRootsMeta(bt) ==
    LET withNew == [rootsMeta EXCEPT ![bt.version][bt.newRoot] =
                                        IF @ = NoEntry THEN {} ELSE @]
    IN IF CommitLinks(bt)
         THEN [withNew EXCEPT ![bt.oldVersion][bt.oldRoot] = @ \cup {bt.newRoot}]
         ELSE withNew

\* Variant: the record stored under the old root's version.
CommitUpdatedNodesOldVersion(bt) ==
    [updatedNodes EXCEPT ![bt.oldVersion][bt.newRoot] =
        IF bt.chunk THEN [put |-> {}, removed |-> {}]
                    ELSE [put |-> bt.put, removed |-> bt.removed]]

CommitUpdatedNodes(bt) ==
    [updatedNodes EXCEPT ![bt.version][bt.newRoot] =
        IF bt.chunk THEN [put |-> {}, removed |-> {}]
                    ELSE [put |-> bt.put, removed |-> bt.removed]]

\* A chunk restores a tree from scratch: its lineage starts at the empty root.
LineageEdge(bt) ==
    IF bt.chunk THEN <<bt.version, EmptyRoot, bt.version, bt.newRoot>>
                ELSE <<bt.oldVersion, bt.oldRoot, bt.version, bt.newRoot>>

\* Variant: the node batch flushed before the multipart node log.
CommitFlushesNodesFirst == <<"nodes", "nodeLog", "meta">>

\* The order in which Commit flushes its batches and commits the metadata.
CommitFlushes == <<"nodeLog", "nodes", "meta">>

\* Flush f is on disk when a commit stopped after `reached` of them.
Flushed(f, reached) == \E i \in 1..reached : CommitFlushes[i] = f

Commit(b, reached) ==
    LET bt == batch[b] IN
    /\ up
    /\ CommitEnabled(bt)
    /\ IF CommitIsNoop(bt)
         THEN /\ reached = 3
              /\ batch' = [batch EXCEPT ![b] = ClosedBatch]
              /\ UNCHANGED <<nodes, rootNodes, writeLogs, rootsMeta,
                             updatedNodes, nodeLog, up, crashes, commits, lineage>>
         ELSE /\ CommitLinkOK(bt)
              /\ commits < MaxCommits
              /\ commits' = commits + 1
              \* A crash right after flushing an empty node-log batch is Crash.
              /\ reached \in (IF bt.logBatch THEN 1 ELSE 2)..3
              /\ nodeLog' = IF Flushed("nodeLog", reached) THEN CommitNodeLog(bt) ELSE nodeLog
              /\ nodes' = IF Flushed("nodes", reached)
                            THEN WriteAt(nodes, bt.put, bt.version, "put")
                            ELSE nodes
              /\ rootNodes' = IF Flushed("nodes", reached)
                                THEN WriteAt(rootNodes, {bt.newRoot}, bt.version, "put")
                                ELSE rootNodes
              /\ writeLogs' = IF Flushed("nodes", reached) THEN CommitWriteLogs(bt)
                                                            ELSE writeLogs
              /\ rootsMeta' = IF Flushed("meta", reached) THEN CommitRootsMeta(bt)
                                                            ELSE rootsMeta
              /\ updatedNodes' = IF Flushed("meta", reached) THEN CommitUpdatedNodes(bt)
                                                               ELSE updatedNodes
              /\ lineage' = IF reached = 3 THEN lineage \cup {LineageEdge(bt)} ELSE lineage
              /\ Halt(reached, 3)
              /\ batch' = IF reached = 3 THEN [batch EXCEPT ![b] = ClosedBatch]
                                         ELSE CrashedBatches
    /\ multipart' = IF reached = 3 THEN multipart ELSE MultipartNone
    /\ UNCHANGED <<meta, restoreBase>>

-----------------------------------------------------------------------------
(* Finalize(roots) at version v.  Phases: 1 the version batch (lone nodes, *)
(* write logs of dropped roots) is flushed, 2 the metadata transaction is  *)
(* committed, 3 and 4 the two phases of cleanMultipartLocked(false) when a *)
(* multipart restore is being finalized.                                   *)

\* Finalization is transitive upwards: a root with a finalized derived root
\* is finalized.
RECURSIVE FinalizedClosure(_, _, _)
FinalizedClosure(rm, pres, fin) ==
    LET next == fin \cup {p \in pres : rm[p] \cap fin # {}}
    IN IF next = fin THEN fin ELSE FinalizedClosure(rm, pres, next)

FinalizeEnabled(v, fin) ==
    /\ multipart = MultipartNone \/ multipart = v
    /\ ~(multipart = MultipartNone /\ v > 0 /\ meta.hasLast /\ meta.last < v - 1)
    /\ ~(meta.hasLast /\ v <= meta.last)
    /\ \A r \in fin : r \in Present(rootsMeta, v) \/ r = EmptyRoot

\* Nodes put by finalized roots are kept; nodes put by dropped roots and
\* nodes removed by finalized roots are deleted at the version.
\* Variant: nodes of finalized roots not kept out of the deletion.
LoneNodesUnshielded(v, fin) ==
    LET un == updatedNodes[v]
        pres == Present(rootsMeta, v)
    IN UNION {un[r].removed : r \in pres \cap fin} \cup UNION {un[r].put : r \in pres \ fin}

LoneNodes(v, fin) ==
    LET un == updatedNodes[v]
        pres == Present(rootsMeta, v)
        notLone == UNION {un[r].put : r \in pres \cap fin}
        maybeLone == UNION {un[r].removed : r \in pres \cap fin}
                     \cup UNION {un[r].put : r \in pres \ fin}
    IN maybeLone \ notLone

\* Variant: the prefix scan keyed by the old root instead of the new one.
FinalizeWriteLogsByOld(v, dropped) ==
    {w \in writeLogs : ~(w[1] = v /\ w[3] \in dropped)}

\* The prefix scan writeLogKeyFmt.Encode(version, root) of every dropped root.
FinalizeWriteLogs(v, dropped) ==
    {w \in writeLogs : ~(w[1] = v /\ w[2] \in dropped)}

\* Variant: the version after v recorded as the last finalized one.
FinalizeMetaNext(v, reached) ==
    [meta EXCEPT !.last = IF reached >= 2 THEN v + 1 ELSE @,
                 !.hasLast = @ \/ reached >= 2,
                 !.multipart = IF reached = 4 THEN MultipartNone ELSE @]

\* setLastFinalizedVersion in the metadata transaction (phase 2), then the
\* multipart version reset by cleanMultipartLocked(false) (phase 4).
FinalizeMeta(v, reached) ==
    [meta EXCEPT !.last = IF reached >= 2 THEN v ELSE @,
                 !.hasLast = @ \/ reached >= 2,
                 !.multipart = IF reached = 4 THEN MultipartNone ELSE @]

Finalize(v, roots, reached) ==
    LET pres == Present(rootsMeta, v)
        fin == FinalizedClosure(rootsMeta[v], pres, roots)
        dropped == pres \ fin
        full == IF multipart # MultipartNone THEN 4 ELSE 2
    IN
    /\ up
    /\ FinalizeEnabled(v, fin)
    \* Go panics on a registered root without an updated-nodes record.
    /\ \A r \in pres : updatedNodes[v][r] # NoEntry
    /\ reached \in 1..full
    /\ nodes' = WriteAt(nodes, LoneNodes(v, fin), v, "del")
    /\ writeLogs' = IF DiscardWriteLogs THEN writeLogs ELSE FinalizeWriteLogs(v, dropped)
    /\ rootsMeta' = IF reached >= 2
                      THEN [rootsMeta EXCEPT ![v] =
                              [r \in Roots |-> IF r \in dropped THEN NoEntry ELSE @[r]]]
                      ELSE rootsMeta
    /\ updatedNodes' = IF reached >= 2
                         THEN [updatedNodes EXCEPT ![v] =
                                 [r \in Roots |-> IF r \in pres THEN NoEntry ELSE @[r]]]
                         ELSE updatedNodes
    /\ nodeLog' = IF reached >= 3 THEN {} ELSE nodeLog
    /\ meta' = FinalizeMeta(v, reached)
    /\ multipart' = IF reached = 2 /\ full = 2 THEN multipart ELSE MultipartNone
    /\ Halt(reached, full)
    /\ batch' = IF reached = full THEN batch ELSE CrashedBatches
    /\ UNCHANGED <<rootNodes, commits, lineage, restoreBase>>

-----------------------------------------------------------------------------
(* Prune(version).  Lone roots are traversed with api.Visit, which reads   *)
(* through GetNode and fails on a missing root marker or node; nodes whose *)
(* entry was written at the version are deleted.  Phases: 1 the batch is   *)
(* flushed, 2 the metadata transaction is committed.                       *)

LoneRoots(v) == {r \in Present(rootsMeta, v) : rootsMeta[v][r] = {}}

\* api.Visit(ctx, d, root, ...) reaches every node of the root's tree.
VisitOK(r, v) ==
    r # EmptyRoot => /\ Visible(rootNodes, r, v)
                     /\ \A h \in r : Visible(nodes, h, v)

PruneEnabled(v) ==
    /\ multipart = MultipartNone
    /\ meta.hasLast /\ v <= meta.last
    /\ v = meta.earliest
    /\ v # meta.last

Prune(v, reached) ==
    LET lone == LoneRoots(v) IN
    /\ up
    /\ PruneEnabled(v)
    /\ \A r \in lone : VisitOK(r, v)
    /\ reached \in 1..2
    /\ nodes' = WriteAt(nodes, {h \in UNION lone : ItemVersion(nodes, h, v) = v}, v, "del")
    /\ rootNodes' = WriteAt(rootNodes, lone, v, "del")
    /\ writeLogs' = IF DiscardWriteLogs THEN writeLogs
                    ELSE {w \in writeLogs : w[1] # v}
    /\ rootsMeta' = IF reached = 2
                      THEN [rootsMeta EXCEPT ![v] = [r \in Roots |-> NoEntry]]
                      ELSE rootsMeta
    /\ meta' = IF reached = 2 THEN [meta EXCEPT !.earliest = v + 1] ELSE meta
    /\ Halt(reached, 2)
    /\ batch' = IF reached = 2 THEN batch ELSE CrashedBatches
    /\ multipart' = MultipartNone
    /\ UNCHANGED <<updatedNodes, nodeLog, commits, lineage, restoreBase>>

-----------------------------------------------------------------------------
\* Consensus finalizes, at version v, a root whose lineage starts at the
\* empty root or at the tip finalized at v - 1 (the tip of what survived
\* Finalize(v - 1)); before the first Finalize every lineage qualifies.
RECURSIVE Grounded(_, _, _)
Grounded(v, r, depth) ==
    \E e \in lineage :
        /\ e[3] = v /\ e[4] = r
        /\ \/ e[2] = EmptyRoot
           \/ ~meta.hasLast
           \/ e[1] + 1 = v /\ e[2] \in Present(rootsMeta, e[1]) /\ Tip(e[1], e[2])
           \/ e[1] = v /\ depth > 0 /\ Grounded(v, e[2], depth - 1)

\* The checkpoint restorer finalizes the restored root only once its chunks
\* have put every node of the tree at the restore version.
RestoreComplete(v, r) ==
    multipart = v => \A h \in r : nodes[h][v] = "put"

\* Consensus finalizes versions in order from the first version that holds
\* roots; only a checkpoint restore starts finalizing at a later version.
FinalizeInOrder(v) ==
    meta.hasLast \/ multipart = v \/ \A e \in lineage : e[3] >= v

\* Finalize is called with one root of the single tree type, or with the
\* empty root only.
FinalizeInputs(v) ==
    {{r} : r \in {EmptyRoot} \cup {q \in Present(rootsMeta, v) :
                                    Grounded(v, q, MaxCommits) /\ RestoreComplete(v, q)}}

\* The model's bound on versions is reached: every version is finalized.
VersionsExhausted ==
    /\ meta.hasLast /\ meta.last = MaxVersion
    /\ UNCHANGED vars

Next ==
    \/ \E b \in Batches :
          \/ \E ov \in Versions, old \in Roots, v \in Versions : NewBatch(b, ov, old, v)
          \/ \E t \in Roots, p \in SUBSET Hashes : PutNodes(b, t, p)
          \/ PutWriteLog(b)
          \/ Reset(b)
          \/ \E reached \in 1..3 : Commit(b, reached)
    \/ \E v \in Versions, reached \in 1..4 :
          FinalizeInOrder(v) /\ \E roots \in FinalizeInputs(v) : Finalize(v, roots, reached)
    \/ \E v \in Versions, reached \in 1..2 : Prune(v, reached)
    \/ \E v \in RestoreVersions : StartMultipartInsert(v)
    \/ \E reached \in 1..2 : AbortMultipartInsert(reached)
    \/ Crash
    \/ \E reached \in 0..2 : Restart(reached)
    \/ VersionsExhausted

Spec == Init /\ [][Next]_vars

-----------------------------------------------------------------------------
(* Properties.                                                             *)

TypeOK ==
    /\ nodes \in [Hashes -> [Versions -> Writes]]
    /\ rootNodes \in [Roots -> [Versions -> Writes]]
    /\ writeLogs \subseteq Versions \X Roots \X Roots
    /\ rootsMeta \in [Versions -> [Roots -> SUBSET Roots \cup {NoEntry}]]
    /\ updatedNodes \in [Versions -> [Roots -> UpdatedRec \cup {NoEntry}]]
    /\ meta \in [earliest : 0..MaxVersion + 1, last : Versions,
                 hasLast : BOOLEAN, multipart : Versions]
    /\ nodeLog \subseteq LogEntries
    /\ multipart \in Versions
    /\ up \in BOOLEAN
    /\ crashes \in 0..MaxCrashes
    /\ batch \in [Batches -> BatchRec]
    /\ commits \in 0..MaxCommits
    /\ lineage \subseteq Versions \X Roots \X Versions \X Roots



\* Finalize keeps the tree of every finalized root readable (spec section
\* 8, invariant 2): for every version still held (earliest..last
\* finalized), GetNode succeeds at that version for every node of every
\* finalized tip root.  Broken when the lone-node computation of Finalize
\* deletes a node a finalized root still uses.
FinalizedRootsReadable ==
    meta.hasLast =>
        \A v \in meta.earliest..meta.last :
            \A r \in Present(rootsMeta, v) : Tip(v, r) => VisitOK(r, v)

\* A root that HasRoot reports has its root marker, so GetNode on it does
\* not fail with ErrRootNotFound (spec section 3, invariant 3).
HasRootImpliesRootNode ==
    \A v \in Versions :
        v >= meta.earliest =>
            \A r \in Present(rootsMeta, v) \ {EmptyRoot} : Visible(rootNodes, r, v)

\* Finalize panics on a registered root without an updated-nodes record;
\* every root registered in a version not yet finalized has one.
FinalizeNeverPanics ==
    \A v \in Versions :
        ~(meta.hasLast /\ v <= meta.last) =>
            \A r \in Present(rootsMeta, v) : updatedNodes[v][r] # NoEntry

\* The multipart node log is empty whenever no restore is recorded in the
\* metadata of a running database: its entries would otherwise be deleted
\* at the version of some later, unrelated restore.
NodeLogOnlyDuringRestore ==
    up /\ meta.multipart = MultipartNone => nodeLog = {}


\* While a restore that is not yet finalized is recorded, every node and
\* root marker that became visible at the restore version since
\* StartMultipartInsert is in the multipart node log, so that
\* AbortMultipartInsert, or the cleanup in New after a crash, removes it.
\* Depends on the node-log batch being flushed before the node batch and on
\* PutNode's existence check.
RestoreLogCovers ==
    LET v == meta.multipart IN
    v # MultipartNone /\ ~(meta.hasLast /\ meta.last >= v) =>
        /\ \A h \in Hashes :
              Visible(nodes, h, v) /\ ~Visible(restoreBase.nodes, h, v)
                  => <<"node", h>> \in nodeLog
        /\ \A r \in Roots :
              Visible(rootNodes, r, v) /\ ~Visible(restoreBase.rootNodes, r, v)
                  => <<"root", r>> \in nodeLog

\* Spec section 8, invariant 5: a restore that ends without being
\* finalized (AbortMultipartInsert, or the cleanup in New after a crash)
\* leaves the node store as StartMultipartInsert found it: every node is
\* readable at every version exactly as before, no root marker the restore
\* added is left, and every root registered at a version keeps the marker
\* it had.  cleanMultipartLocked(true) deletes what the node log names, and
\* Commit logs a chunk's root marker even when that root was committed
\* before the restore.
AbortRestoresStore ==
    [][meta.multipart # MultipartNone /\ meta'.multipart = MultipartNone
       /\ ~(meta'.hasLast /\ meta'.last >= meta.multipart)
       => \A v \in Versions :
            /\ \A h \in Hashes :
                  Visible(nodes', h, v) = Visible(restoreBase.nodes, h, v)
            /\ \A r \in Roots :
                  /\ Visible(rootNodes', r, v) => Visible(restoreBase.rootNodes, r, v)
                  /\ Visible(restoreBase.rootNodes, r, v) /\ r \in Present(restoreBase.rootsMeta, v)
                       => Visible(rootNodes', r, v)]_vars

\* The metadata never records a multipart restore of an already finalized
\* version together with a non-empty node log: New would then run
\* cleanMultipartLocked(true) and delete the nodes and root markers of the
\* finalized restored version.
FinalizedRestoreNotLogged ==
    meta.multipart # MultipartNone /\ meta.hasLast /\ meta.last >= meta.multipart
        => nodeLog = {}


\* A version from its finalization until Prune advances the earliest
\* version past it is frozen: no step (a batch committed late, a restore
\* cleanup, a Prune of the version before) changes which roots are
\* registered at it, and every registered root whose tree a read at its
\* timestamp finds whole stays whole.
Settled(v) == meta.hasLast /\ meta.earliest <= v /\ v <= meta.last

FinalizedVersionFrozen ==
    [][\A v \in Versions :
          Settled(v) /\ meta'.earliest <= v =>
              /\ Present(rootsMeta', v) = Present(rootsMeta, v)
              /\ \A r \in Present(rootsMeta, v) :
                    VisitOK(r, v) => VisitOK(r, v)']_vars

\* Finalize deletes the write logs of every root it drops, so at a
\* finalized version that is still held every stored write log ends at a
\* root that was finalized.
FinalizedWriteLogsOwned ==
    \A w \in writeLogs :
        Settled(w[1]) => w[2] \in Present(rootsMeta, w[1])

====
