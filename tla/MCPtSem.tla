------------------------------- MODULE MCPtSem -------------------------------
(* Instances of PtSem for TLC. *)
EXTENDS PtSem

\* 50 ms is a valid deadline in the first half of a second only, 1000 ms always,
\* 150 ms never.
SomeWaits == {50, 150, 1000}
SomeClocks == {0, 600000}
=============================================================================
