------------------------------ MODULE MCAbBoot ------------------------------
(* Instances of AbBoot for TLC. *)
EXTENDS AbBoot, Crc32

NoFaults == {}
AllFaults == {"cmdline_open", "cmdline_read"}
=============================================================================
