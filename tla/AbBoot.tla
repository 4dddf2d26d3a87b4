------------------------------- MODULE AbBoot -------------------------------
(***************************************************************************)
(* The life of the A/B metadata over boots, crashes and concurrent callers *)
(* of ab_meta/src/rk_ab_meta.c.                                            *)
(*                                                                         *)
(* misc is the metadata as read(2) returns it; disk is what survives a     *)
(* power cut.  ab_meta_write_data opens, writes and closes without an      *)
(* fsync, so a write changes misc only, and reaches disk when the kernel   *)
(* writes it back or somebody calls sync.  A caller of the library reads   *)
(* the metadata, computes, and writes it back; nothing locks the partition *)
(* between the read and the write, so calls are two steps and interleave.  *)
(*                                                                         *)
(* The images of the two slots are abstracted to works, the set of slots   *)
(* whose software comes up far enough to run the library.  An upgrade is   *)
(* seen here as Install: whatever it does to the slot that is not running. *)
(***************************************************************************)
EXTENDS AbMeta

CONSTANTS Callers,       \* processes and threads that use the library
          Faults         \* which calls to the system may fail

ASSUME FaultsAssumption ==
    Faults \subseteq {"cmdline_open", "cmdline_read"}

VARIABLES
    misc,       \* the metadata in the page cache
    disk,       \* the metadata on the medium
    running,    \* the slot the device runs from, NoSlot while it is down
    works,      \* the slots whose images come up
    call,       \* per caller: idle, or the metadata it is about to write
    promised,   \* history: where a successful switch of this boot leads
    confirmed,  \* history: the slot active_current_slot confirmed in this boot
    attempts    \* history: boots of a slot on a spent try since it was last switched to

vars == <<misc, disk, running, works, call, promised, confirmed, attempts>>

Idle == [op |-> "idle"]

\* A call between its read and its write; slot is the one it was told it runs on.
Pending == [op : {"current", "another"}, slot : Slot, meta : MetaData]

TypeOk ==
    /\ misc \in MetaData
    /\ disk \in MetaData
    /\ running \in Slot \union {NoSlot}
    /\ works \subseteq Slot
    /\ call \in [Callers -> {Idle} \union Pending]
    /\ promised \in Slot \union {NoSlot}
    /\ confirmed \in Slot \union {NoSlot}
    /\ attempts \in [Slot -> Nat]

Init ==
    /\ disk \in FactoryMeta
    /\ misc = disk
    /\ running = NoSlot
    /\ works \in {w \in SUBSET Slot : 0 \in w}
    /\ call = [c \in Callers |-> Idle]
    /\ promised = NoSlot
    /\ confirmed = NoSlot
    /\ attempts = [s \in Slot |-> 0]

-----------------------------------------------------------------------------
\* User space, and with it the library, is up only in a slot that works.
Up == running \in works

\* rk_ab_meta_active_current_slot up to its write
BeginActiveCurrent(c) ==
    /\ Up
    /\ call[c].op = "idle"
    /\ call' = [call EXCEPT ![c] =
                  [op |-> "current", slot |-> running, meta |-> ActiveCurrentSlot(misc)]]
    /\ UNCHANGED <<misc, disk, running, works, promised, confirmed, attempts>>

\* Mutated form of BeginActiveAnother: the slot is selected before the call is
\* through.
SwitchWritesEarly(c) ==
    /\ Up
    /\ call[c].op = "idle"
    /\ misc' = ActiveAnotherSlot(misc, running)
    /\ call' = [call EXCEPT ![c] = [op |-> "another", slot |-> running, meta |-> misc']]
    /\ UNCHANGED <<disk, running, works, promised, confirmed, attempts>>

\* rk_ab_meta_active_another_slot up to its write: it targets the slot the
\* command line does not name, and gives up when no slot is named.
BeginActiveAnother(c) ==
    /\ Up
    /\ call[c].op = "idle"
    /\ \E current_slot \in RunningSlotResults(running, Faults) \ {NoSlot} :
          call' = [call EXCEPT ![c] =
                     [op |-> "another", slot |-> current_slot,
                      meta |-> ActiveAnotherSlot(misc, current_slot)]]
    /\ UNCHANGED <<misc, disk, running, works, promised, confirmed, attempts>>

\* ab_meta_write_data succeeds; the call returns 0.
CommitActiveCurrent(c) ==
    /\ Up
    /\ call[c].op = "current"
    /\ misc' = call[c].meta
    /\ confirmed' = call[c].slot
    /\ call' = [call EXCEPT ![c] = Idle]
    /\ UNCHANGED <<disk, running, works, promised, attempts>>

CommitActiveAnother(c) ==
    /\ Up
    /\ call[c].op = "another"
    /\ misc' = call[c].meta
    /\ promised' = Other(call[c].slot)
    /\ attempts' = [attempts EXCEPT ![Other(call[c].slot)] = 0]
    /\ call' = [call EXCEPT ![c] = Idle]
    /\ UNCHANGED <<disk, running, works, confirmed>>

\* The write of the misc partition fails and the call returns -1, or the
\* process is killed before it: nothing is written.  (A call whose read fails,
\* or that is told no slot, changes nothing either.)
Abandon(gone) ==
    /\ Up
    /\ call' = [c \in Callers |-> IF c \in gone THEN Idle ELSE call[c]]
    /\ UNCHANGED <<misc, disk, running, works, promised, confirmed, attempts>>

-----------------------------------------------------------------------------
\* An upgrade writes images of the other slot: it may break or repair it.
\* The flush of the page cache that puts them on the medium may carry the
\* metadata with it.
Install ==
    /\ Up
    /\ \E now \in SUBSET Slot :
          /\ running \in now
          /\ works' = now
    /\ disk' \in {disk, misc}
    /\ UNCHANGED <<misc, running, call, promised, confirmed, attempts>>

\* Power loss, a watchdog, a panic, or a reboot: what was not written back is
\* lost, and so is every call in progress.
Reset ==
    /\ running # NoSlot
    /\ misc' = disk
    /\ running' = NoSlot
    /\ call' = [c \in Callers |-> Idle]
    /\ promised' = NoSlot
    /\ confirmed' = NoSlot
    /\ UNCHANGED <<disk, works, attempts>>

\* External: the boot loader selects a slot and spends a try on it.
Boot ==
    /\ running = NoSlot
    /\ LET s == GetCurrentSlot(disk) IN
          /\ s \in Slot
          /\ running' = s
          /\ disk' = SpendTry(disk, s)
          /\ attempts' = IF disk' = disk THEN attempts ELSE [attempts EXCEPT ![s] = @ + 1]
    /\ misc' = disk'
    /\ UNCHANGED <<works, call, promised, confirmed>>

Next ==
    \/ \E c \in Callers :
          \/ BeginActiveCurrent(c)
          \/ BeginActiveAnother(c)
          \/ CommitActiveCurrent(c)
          \/ CommitActiveAnother(c)
    \/ \E gone \in SUBSET Callers : Abandon(gone)
    \/ Install
    \/ Reset
    \/ Boot

\* A device that is down is powered up again, and one whose slot does not come
\* up is reset by its watchdog.  Nobody is obliged to call the library.
Fairness == WF_vars(Boot) /\ WF_vars(Reset /\ ~Up)

Spec == Init /\ [][Next]_vars

FairSpec == Spec /\ Fairness

-----------------------------------------------------------------------------
(* Properties *)

\* The checksum in the metadata always covers the content next to it, in the
\* page cache and on the medium: rk_ab_meta.c:303 and :341 compute it after
\* the last field is set, so no crash leaves metadata a boot loader rejects.
CrcCoversContent == CrcValid(misc) /\ CrcValid(disk)

\* A caller about to confirm with a copy that is older than a switch
Stale(c) == call[c].op = "current" /\ call[c].meta.slots # misc.slots

\* After rk_ab_meta_active_another_slot returned 0, the metadata selects the
\* other slot and has it on trial, with the old slot next in line once its tries
\* are spent (rk_ab_meta.c:335-338), for as long as the device stays up and
\* whatever the callers do: switching again, confirming, failing writes.  Only a
\* call of rk_ab_meta_active_current_slot that read the metadata before the
\* switch and writes it back after it can undo this; nothing locks them.
SwitchStands ==
    [][promised' # NoSlot =>
         \/ OnTrial(misc', promised')
         \/ promised' = promised /\ ~OnTrial(misc, promised)
         \/ \E c \in Callers : Stale(c) /\ CommitActiveCurrent(c)]_vars

\* With one caller at a time: the switch holds ...
SwitchHolds == promised # NoSlot => GetCurrentSlot(misc) = promised

\* ... and once the tries of the new slot are spent the boot loader returns to
\* the slot the device switched from, if that one is still bootable.
SwitchFallsBack ==
    LET spent == [misc EXCEPT !.slots[promised].tries_remaining = 0] IN
    (promised # NoSlot /\ Other(promised) \in Bootable(misc))
        => GetCurrentSlot(spent) = Other(promised)

\* However callers, lost writes and resets interleave, one switch to a slot
\* buys it at most MaxTries boots: no copy of the metadata gives spent tries back.
AttemptsBounded == \A s \in Slot : attempts[s] <= MaxTries

\* Until a switch is reported as done, a reset at any moment, in the middle of
\* an upgrade or of the switch itself, brings the device back to the slot it
\* runs from, provided that slot has a try left or is marked successful.
ResetKeepsSlot ==
    (Up /\ promised = NoSlot /\ running \in Bootable(disk)) => GetCurrentSlot(disk) = running

\* While slot a works, the device always gets back to a slot that works, even
\* if a broken image was installed in slot b and selected.
ReturnsToWorkingSlot == []<>(Up \/ 0 \notin works)

\* rk_ab_meta.h:56 calls last_boot the flag of the slot that last booted
\* successfully, 0 for a and 1 for b; rk_ab_meta.h:30 calls successful_boot
\* non-zero if the slot has booted successfully.  By either of them the metadata
\* would tell which slot rk_ab_meta_active_current_slot confirmed in this boot.
ConfirmationIsRecorded ==
    confirmed # NoSlot =>
        misc.last_boot = confirmed \/ misc.slots[confirmed].successful_boot # 0
-----------------------------------------------------------------------------
(* The inductive invariant behind the safety properties *)

\* Nobody is inside the library, and nothing is promised, while the device is down.
DownIsQuiet ==
    running = NoSlot => promised = NoSlot /\ \A c \in Callers : call[c].op = "idle"

\* Every copy of the metadata, those about to be written included, is sealed.
CopiesSealed ==
    /\ CrcValid(misc) /\ CrcValid(disk)
    /\ \A c \in Callers : call[c].op # "idle" => CrcValid(call[c].meta)

\* Tries left in a copy and boots already taken add up to at most MaxTries; a
\* copy that switches to a slot is exempt for that slot, whose count it resets.
Budget(m, s) == m.slots[s].tries_remaining + attempts[s] <= MaxTries

TriesAccounted ==
    \A s \in Slot :
        /\ Budget(misc, s) /\ Budget(disk, s)
        /\ \A c \in Callers :
              \/ call[c].op = "idle"
              \/ call[c].op = "another" /\ call[c].slot # s
              \/ Budget(call[c].meta, s)

\* Before the first switch of a boot nothing disagrees about the slots, and the
\* slot the device came up from is still the choice if it can be booted at all.
Undisturbed ==
    promised = NoSlot =>
        /\ misc.slots = disk.slots
        /\ \A c \in Callers : call[c].op = "current" => call[c].meta.slots = disk.slots
        /\ (running # NoSlot /\ running \in Bootable(disk)) => GetCurrentSlot(disk) = running

IInv == TypeOk /\ DownIsQuiet /\ CopiesSealed /\ TriesAccounted /\ Undisturbed

\* A copy that is about to switch has its target on trial, however old it is.
SwitchesOnTrial ==
    \A c \in Callers : call[c].op = "another" => OnTrial(call[c].meta, Other(call[c].slot))

\* With a single caller its copy is never stale, and a promise keeps its slot
\* on trial until the next boot.
TrialInv ==
    /\ promised # NoSlot => OnTrial(misc, promised)
    /\ \A c \in Callers : call[c].op = "current" => call[c].meta.slots = misc.slots
    /\ SwitchesOnTrial
=============================================================================
