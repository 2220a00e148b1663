----------------------------- MODULE MC_NodeReads -----------------------------
(* Model-checking instance of NodeReads: hashes and batches are model     *)
(* values and symmetry sets, as in MC_NodeDB; the reader's inputs range   *)
(* over every root, so the symmetry is sound for it too.                  *)
EXTENDS NodeReads, TLC

CONSTANTS h1, h2, h3, b1, b2

Hashes2 == {h1, h2}
OneBatch == {b1}

Symmetry == Permutations(Hashes) \cup Permutations(Batches)
====
