----------------------------- MODULE MCDlFlash -----------------------------
(* Instances of DlFlash for TLC. *)
EXTENDS DlFlash, TLC

\* Threads, and partitions, are interchangeable.
Interchangeable == Permutations(Threads) \union Permutations(Partitions)
=============================================================================
