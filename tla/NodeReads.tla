------------------------------ MODULE NodeReads ------------------------------
(***************************************************************************)
(* NodeDB with a reader: badgerNodeDB.GetWriteLog and the iterator it      *)
(* returns, run on the live store while every NodeDB operation goes on.   *)
(*                                                                         *)
(* Readers take no lock.  GetWriteLog reads the earliest version from the *)
(* in-memory metadata, opens a read transaction at the end root's version *)
(* timestamp, checks the end root's marker and searches the write-log keys *)
(* of the version for a path to the start root.  The iterator it returns  *)
(* reads each write log of the path only when the consumer asks for it,   *)
(* and rehydrates the log's leaves with GetNode, which repeats the         *)
(* earliest check and the root check in a transaction of its own.  In     *)
(* managed mode a read at ts(v) sees whatever Finalize and Prune later     *)
(* write at ts(v), so each of these steps sees the store as it is then.    *)
(*                                                                         *)
(* The search returns some shortest chain of at most two write logs; the  *)
(* GetWriteLog module checks that the code's breadth-first search does.   *)
(* The leaves of a write log are the nodes its new root has and its old   *)
(* root lacks, the nodes the batch put.  A root carries no version here,  *)
(* so endRoot.Follows(startRoot) is not modelled.                          *)
(***************************************************************************)
EXTENDS NodeDB, Sequences

VARIABLE
    rd   \* the GetWriteLog call and its iterator

\* At most one hop per log and maxAllowedHops logs per path.
MaxAllowedHops == 2

\* phase: "idle" or "streaming" (the iterator was returned).  A call that
\* returns an error, and an iterator that ends or fails, go back to idle.
\* path holds the logKeys still to stream (index onwards).
ReaderIdle == [phase |-> "idle", v |-> 0, path |-> <<>>]

readVars == <<vars, rd>>

\* writeLogKeyFmt keys of version v: <<v, newRoot, oldRoot>>.
LogsAt(v) == {w \in writeLogs : w[1] = v}

\* logKeys of the item that reaches the start root after n hops, in the
\* order the search collects them: the log into the end root first.
Paths(v, s, e, n) ==
    {p \in [1..n -> LogsAt(v)] :
        /\ p[1][2] = e
        /\ p[n][3] = s
        /\ \A i \in 1..n - 1 : p[i + 1][2] = p[i][3]}

\* Breadth first: the paths of the fewest hops within maxAllowedHops.
SearchResult(v, s, e) ==
    LET n == {k \in 1..MaxAllowedHops : Paths(v, s, e, k) # {}} IN
    IF n = {} THEN {} ELSE Paths(v, s, e, Min(n))

\* The hashed leaves a write log refers to.
Leaves(w) == w[2] \ w[3]

\* GetNode(root, leaf) at version v: earliest check, checkRoot, node Get.
GetNodeOK(r, h, v) ==
    /\ v >= meta.earliest
    /\ Visible(rootNodes, r, v)
    /\ Visible(nodes, h, v)

\* GetWriteLog: with write logs discarded, or below the earliest version
\* read without the lock, it returns ErrWriteLogNotFound; then, in the read
\* transaction at ts(v), checkRoot and the path search.  Every error return
\* changes nothing.  A Prune between the earliest check and the search only
\* turns a found path into an error return, so the two are one step.
GetWriteLog(s, e, v) ==
    /\ up
    /\ rd.phase = "idle"
    /\ ~DiscardWriteLogs
    /\ v >= meta.earliest
    /\ Visible(rootNodes, e, v)
    /\ \E p \in SearchResult(v, s, e) :
          rd' = [ReaderIdle EXCEPT !.phase = "streaming", !.v = v, !.path = p]
    /\ UNCHANGED vars

\* The iterator's tx.Get of the next log key finds it, and GetNode finds
\* every leaf of it at the log's new root.
NextLogReadable ==
    LET w == Head(rd.path) IN
    w \in writeLogs /\ \A h \in Leaves(w) : GetNodeOK(w[2], h, rd.v)

\* The iterator's next call: tx.Get of the log key, then every leaf
\* rehydrated through GetNode at the log's new root;
\* it returns the log, the end of the stream (nil), or the error.
IteratorNext ==
    /\ up
    /\ rd.phase = "streaming"
    /\ IF rd.path # <<>> /\ NextLogReadable
         THEN rd' = [rd EXCEPT !.path = Tail(@)]
         ELSE rd' = ReaderIdle
    /\ UNCHANGED vars

\* The consumer closes the iterator (tx.Discard) before its end; the
\* reader may call again.
ReaderClose ==
    /\ rd.phase = "streaming"
    /\ rd' = ReaderIdle
    /\ UNCHANGED vars

\* The calls enumerated: into a root registered at a finalized version that
\* is still held.  A reader writes nothing, so calls at other versions add
\* no store state, only streams FinalizedStreamsComplete says nothing of.
CallerEnds(v) == IF Settled(v) THEN Present(rootsMeta, v) ELSE {}

\* A NodeDB step; the reader dies with the process.
StoreStep ==
    /\ Next
    /\ rd' = IF up' THEN rd ELSE ReaderIdle

ReadNext ==
    \/ StoreStep
    \/ \E v \in Versions, s \in Roots : \E e \in CallerEnds(v) : GetWriteLog(s, e, v)
    \/ IteratorNext
    \/ ReaderClose

ReadInit == Init /\ rd = ReaderIdle

ReadSpec == ReadInit /\ [][ReadNext]_readVars

-----------------------------------------------------------------------------

\* Spec section 8, invariant 4: GetWriteLog of a root committed with a
\* write log returns the logs whole.  While the version of a stream opened
\* into a finalized root is not pruned, the stream's next write log and
\* every leaf it rehydrates are readable, so the iterator cannot fail
\* part-way: Finalize keeps the logs and the leaves of every root below a
\* finalized one, and no later Commit, restore or Prune of the version
\* before writes at the version.  Once Prune of the version has started,
\* the stream may fail (its deletes are at ts(v), which the stream sees).
FinalizedStreamsComplete ==
    rd.phase = "streaming" /\ rd.v >= meta.earliest /\ rd.path # <<>> => NextLogReadable

====
