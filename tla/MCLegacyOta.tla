---------------------------- MODULE MCLegacyOta ----------------------------
(* Instances of LegacyOta for TLC. *)
EXTENDS LegacyOta

OneImage == [q \in Packets |-> {"boot"}]

\* All the partitions, as by default, or another one only
Choices == {{"uboot", "boot", "system"}, {"system"}}

AllFaults == {"unpack", "open", "write", "sync", "readback", "misc_read", "misc_write",
              "blank_misc"}
=============================================================================
