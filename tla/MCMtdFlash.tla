----------------------------- MODULE MCMtdFlash -----------------------------
(* Instances of MtdFlash for TLC. *)
EXTENDS MtdFlash
=============================================================================
