------------------------------ MODULE MCMtdScan ------------------------------
(* Instances of MtdScan for TLC. *)
EXTENDS MtdScan

\* A name, one that starts with it, and another one.
SomeNames == {"misc", "misc_b", "boot"}
NamePrefixes == [n \in SomeNames |-> IF n = "misc_b" THEN {"misc", "misc_b"} ELSE {n}]
=============================================================================
