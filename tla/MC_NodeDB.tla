------------------------------ MODULE MC_NodeDB ------------------------------
(* Model-checking instance of NodeDB: node hashes and batches are model   *)
(* values; nothing in NodeDB tells two hashes or two batches apart, so     *)
(* both sets are symmetry sets for the safety runs.                        *)
EXTENDS NodeDB, TLC

CONSTANTS h1, h2, h3, b1, b2

Hashes2 == {h1, h2}
Hashes3 == {h1, h2, h3}
OneBatch == {b1}
TwoBatches == {b1, b2}

Symmetry == Permutations(Hashes) \cup Permutations(Batches)

\* A restorer that never aborts: every restore it starts ends in Finalize
\* (or in the cleanup of New after a crash).
NoAbortNext == Next /\ ~\E reached \in 1..2 : AbortMultipartInsert(reached)

NoAbortSpec == Init /\ [][NoAbortNext]_vars
====
