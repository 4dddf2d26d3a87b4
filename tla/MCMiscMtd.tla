----------------------------- MODULE MCMiscMtd -----------------------------
(* Instances of MiscMtd for TLC. *)
EXTENDS MiscMtd

\* Two records in the partition, one of them across a block boundary
TwoRanges == {[first |-> 1, last |-> 1], [first |-> 4, last |-> 5]}
=============================================================================
