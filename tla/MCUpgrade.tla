----------------------------- MODULE MCUpgrade -----------------------------
(* Instances of Upgrade for TLC. *)
EXTENDS Upgrade, TLC

\* Packets carry one or two of the three images, or only one of them.
BootWithAndWithoutSystem ==
    CHOOSE f \in [Packets -> SUBSET Part] :
        {f[q] : q \in Packets} = {{"boot", "system"}, {"boot"}}
OneImage == [q \in Packets |-> {"boot"}]

\* Threads, and packets that carry the same images, are interchangeable.
Interchangeable == Permutations(Threads) \union Permutations(Packets)

NoFaults == {}

\* Failures the upgrade is expected to survive
StorageFaults == {"unpack_fork", "flash_open", "flash_info", "flash_write"}

\* Everything but the empty read of the command line
AllFaults == StorageFaults \union
             {"cmdline_open", "misc_read", "misc_write", "unpack_partial", "image_open",
              "image_read", "flash_sync"}
=============================================================================
