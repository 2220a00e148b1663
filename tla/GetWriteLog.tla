---------------------------- MODULE GetWriteLog ----------------------------
(***************************************************************************)
(* The write-log path search of badgerNodeDB.GetWriteLog                   *)
(* (src/unnamed/part_001).  Write logs of one version are keys             *)
(* <<newRoot, oldRoot>> (writeLogKeyFmt with the version fixed); the       *)
(* search starts at the end root and walks keys backwards, breadth first,  *)
(* until a key's old root is the start root, refusing paths longer than    *)
(* maxAllowedHops.  A key's iterator order is the byte order of the old    *)
(* root's hash: here roots are numbers and that order is <.                *)
(*                                                                         *)
(* One Step is one iteration of the outer loop: the head of the queue is   *)
(* taken and every key that ends at it is examined, in iterator order,     *)
(* until one starts at the start root.                                     *)
(***************************************************************************)
EXTENDS Naturals, Sequences, SequencesExt

CONSTANTS
    RootIds,         \* root hashes, ordered as their bytes
    MaxAllowedHops   \* maxAllowedHops

VARIABLES
    logs,       \* write-log keys of the end root's version
    startRoot,
    endRoot,
    queue,      \* the wlItem queue
    result,     \* "searching", "notFound" or "found"
    path        \* logKeys of the item found

vars == <<logs, startRoot, endRoot, queue, result, path>>

\* A write log <<newRoot, oldRoot>>.  Within a version the new root is not
\* yet registered when its log is stored, but an old root of the version
\* before may have the new root's hash (a version that changes nothing).
LogKeys == RootIds \X RootIds

\* tx.NewIterator with prefix writeLogKeyFmt.Encode(version, end).
LogsInto(end) == SetToSortSeq({k \in logs : k[1] = end}, LAMBDA a, b : a[2] < b[2])

\* The wlItem for key k reached from item cur.
NextItem(cur, k) ==
    [depth |-> cur.depth + 1, endRoot |-> k[2], logKeys |-> Append(cur.logKeys, k)]

\* Variant: paths of maxAllowedHops + 1 logs are followed too.
QueuedInclusive(it) == it.depth <= MaxAllowedHops

\* `if nextItem.depth < maxAllowedHops`: the item is searched further.
Queued(it) == it.depth < MaxAllowedHops

Init ==
    /\ logs \in SUBSET LogKeys
    /\ startRoot \in RootIds
    /\ endRoot \in RootIds
    /\ queue = <<[depth |-> 0, endRoot |-> endRoot, logKeys |-> <<>>]>>
    /\ result = "searching"
    /\ path = <<>>

\* One pass of the outer loop: the keys into the head item are examined in
\* order; the first that starts at startRoot ends the search, the others
\* are queued while below maxAllowedHops.
Step ==
    /\ result = "searching"
    /\ queue # <<>>
    /\ LET cur == Head(queue)
           keys == LogsInto(cur.endRoot)
           items == [i \in 1..Len(keys) |-> NextItem(cur, keys[i])]
           hit == {i \in 1..Len(items) : items[i].endRoot = startRoot}
       IN IF hit # {}
            THEN /\ result' = "found"
                 /\ path' = items[CHOOSE i \in hit : \A j \in hit : i <= j].logKeys
                 /\ queue' = Tail(queue)
            ELSE /\ queue' = Tail(queue) \o
                              SelectSeq(items, LAMBDA it : Queued(it))
                 /\ UNCHANGED <<result, path>>
    /\ UNCHANGED <<logs, startRoot, endRoot>>

\* The queue runs dry: api.ErrWriteLogNotFound.
NotFound ==
    /\ result = "searching"
    /\ queue = <<>>
    /\ result' = "notFound"
    /\ UNCHANGED <<logs, startRoot, endRoot, queue, path>>

Next == Step \/ NotFound

\* GetWriteLog returns once result is set; the behaviour then stops.
Spec == Init /\ [][Next]_vars

-----------------------------------------------------------------------------
(* Reference: the chains of write logs, in commit order, that lead from    *)
(* the start root to the end root.                                         *)

\* Sequences of write-log keys of length n in commit order: the first log
\* leaves startRoot, each next log leaves the root the previous one made,
\* the last one makes endRoot.
Chains(n) ==
    {c \in [1..n -> logs] :
        /\ c[1][2] = startRoot
        /\ c[n][1] = endRoot
        /\ \A i \in 1..n - 1 : c[i + 1][2] = c[i][1]}

ShortestHops ==
    {n \in 1..MaxAllowedHops : Chains(n) # {} /\ \A m \in 1..n - 1 : Chains(m) = {}}

\* GetWriteLog finds a path exactly when the start root is within
\* maxAllowedHops write logs of the end root, and the logs it returns,
\* read from the last to the first, are a shortest such chain.
FoundIffChain ==
    result # "searching" =>
        IF ShortestHops = {} THEN result = "notFound"
        ELSE /\ result = "found"
             /\ Len(path) \in ShortestHops
             /\ Reverse(path) \in Chains(Len(path))

\* The write logs are streamed in the order they were committed (spec
\* scenario S3: GetWriteLog(empty, IO) returns W1 then W2), the order in
\* which a consumer applies them to the start root.
ResultInCommitOrder ==
    result = "found" => path \in Chains(Len(path))

====
