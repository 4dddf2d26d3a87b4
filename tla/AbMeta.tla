------------------------------- MODULE AbMeta -------------------------------
(***************************************************************************)
(* The A/B metadata kept at offset 2048 of the misc partition, and the     *)
(* pure part of ab_meta/src/rk_ab_meta.c: which slot the metadata selects, *)
(* and what rk_ab_meta_active_current_slot and                             *)
(* rk_ab_meta_active_another_slot turn it into.  Everything here is an     *)
(* operator on one metadata record; the modules that add storage, callers, *)
(* boots and crashes extend this one.                                      *)
(*                                                                         *)
(* The checksum is modelled as an ideal digest: crc32 holds the content it *)
(* was computed from, so it is valid exactly while the content has not     *)
(* changed since.  magic, version and the reserved bytes are never written *)
(* by the code and are left out.                                           *)
(***************************************************************************)
EXTENDS Integers

CONSTANTS MaxPriority,   \* AB_META_MAX_PRIORITY, 15 in the source
          MaxTries       \* AB_META_MAX_TRIES_REMAINING, 7 in the source

\* A switch gives the running slot MaxPriority - 1, which must stay above the
\* "not able to boot" value 0, and the new slot at least one try.
ASSUME MaxPriorityAssumption == MaxPriority \in Nat /\ MaxPriority >= 2
ASSUME MaxTriesAssumption == MaxTries \in Nat /\ MaxTries >= 1

Slot == {0, 1}           \* slot a and slot b
NoSlot == -1             \* the -1 returned when no slot is known
Other(s) == 1 - s

SlotData == [priority : 0 .. MaxPriority,
             tries_remaining : 0 .. MaxTries,
             successful_boot : {0, 1}]

Content == [slots : [Slot -> SlotData], last_boot : 0 .. 255]
MetaData == [slots : [Slot -> SlotData], last_boot : 0 .. 255, crc32 : Content]

-----------------------------------------------------------------------------
ContentOf(m) == [slots |-> m.slots, last_boot |-> m.last_boot]

\* ab_meta_calc_crc and the assignment of its result to the crc32 field
Seal(m) == [m EXCEPT !.crc32 = ContentOf(m)]

CrcValid(m) == m.crc32 = ContentOf(m)

SlotIsBootable(d) ==
    /\ d.priority > 0
    /\ d.successful_boot > 0 \/ d.tries_remaining > 0

Bootable(m) == {s \in Slot : SlotIsBootable(m.slots[s])}

\* Both slots bootable: the higher priority, slot a on a tie.  One: that one.
\* None: the last_boot byte, NoSlot when it names no slot.
GetCurrentSlot(m) ==
    IF Bootable(m) = {}
    THEN IF m.last_boot \in Slot THEN m.last_boot ELSE NoSlot
    ELSE IF /\ 1 \in Bootable(m)
            /\ 0 \in Bootable(m) => m.slots[1].priority > m.slots[0].priority
         THEN 1
         ELSE 0

-----------------------------------------------------------------------------
\* What dl_flash_read returns on success.  Both functions below store the
\* return value of the read, not a slot number, in last_boot.
ReadOk == 0

ActiveCurrentSlot(m) == Seal([m EXCEPT !.last_boot = ReadOk])

(* Mutated forms of ActiveAnotherSlot, each with one mistake; they are used *)
(* only to show that the properties notice it.                              *)

\* The running slot is not put below the new one.
SwitchKeepsPriority(m, current_slot) ==
    Seal([m EXCEPT
            !.slots[current_slot].priority = MaxPriority,
            !.slots[Other(current_slot)] =
                [priority |-> MaxPriority, tries_remaining |-> MaxTries, successful_boot |-> 0]])

\* The new slot gets one try too many.
SwitchAddsTry(m, current_slot) ==
    Seal([m EXCEPT
            !.slots[current_slot].priority = MaxPriority - 1,
            !.slots[Other(current_slot)] =
                [priority |-> MaxPriority, tries_remaining |-> MaxTries + 1, successful_boot |-> 0]])

\* The mark of success of the new slot is not cleared.
SwitchKeepsMark(m, current_slot) ==
    Seal([m EXCEPT
            !.slots[current_slot].priority = MaxPriority - 1,
            !.slots[Other(current_slot)].priority = MaxPriority,
            !.slots[Other(current_slot)].tries_remaining = MaxTries])

\* The new slot is marked successful before it ever booted.
SwitchAssumesSuccess(m, current_slot) ==
    Seal([m EXCEPT
            !.slots[current_slot].priority = MaxPriority - 1,
            !.slots[Other(current_slot)] =
                [priority |-> MaxPriority, tries_remaining |-> MaxTries, successful_boot |-> 1]])

\* The checksum is computed before the new slot is filled in.
SwitchSealsFirst(m, current_slot) ==
    [Seal([m EXCEPT !.slots[current_slot].priority = MaxPriority - 1]) EXCEPT
        !.slots[Other(current_slot)] =
            [priority |-> MaxPriority, tries_remaining |-> MaxTries, successful_boot |-> 0]]

ActiveAnotherSlot(m, current_slot) ==
    Seal([m EXCEPT
            !.slots[current_slot].priority = MaxPriority - 1,
            !.slots[Other(current_slot)] =
                [priority |-> MaxPriority, tries_remaining |-> MaxTries, successful_boot |-> 0],
            !.last_boot = ReadOk])

\* The metadata in which slot s is on trial: what a switch to s leaves behind
OnTrial(m, s) ==
    /\ m.slots[s] = [priority |-> MaxPriority, tries_remaining |-> MaxTries, successful_boot |-> 0]
    /\ m.slots[Other(s)].priority = MaxPriority - 1

\* rk_ab_meta_get_running_slot.  The kernel command line names the slot the
\* device runs from; "open" is a failed fopen of /proc/cmdline, "read" an empty
\* read of it, which the code answers with slot 0.
RunningSlotResults(running, faults) ==
    {running} \union (IF "cmdline_open" \in faults THEN {NoSlot} ELSE {})
              \union (IF "cmdline_read" \in faults THEN {0} ELSE {})

-----------------------------------------------------------------------------
(***************************************************************************)
(* External: the boot loader.  It is not in this repository; it is         *)
(* modelled from the fields src/ keeps for it.  It selects a slot from the *)
(* metadata as get_current_slot does (the comments of rk_ab_meta.h give    *)
(* the meaning of the fields), spends one of the remaining tries of a slot *)
(* that is not marked successful, and writes the metadata back.            *)
(***************************************************************************)
SpendTry(m, s) ==
    IF m.slots[s].successful_boot = 0 /\ m.slots[s].tries_remaining > 0
    THEN Seal([m EXCEPT !.slots[s].tries_remaining = @ - 1])
    ELSE m

\* External: the metadata a device leaves the factory with.  Slot a is the
\* default; it may be marked successful by the factory.  Slot b is either
\* empty or a second copy that was never booted.
FactoryA == {[priority |-> MaxPriority, tries_remaining |-> MaxTries, successful_boot |-> ok] :
                ok \in {0, 1}}
FactoryB == {[priority |-> p, tries_remaining |-> MaxTries, successful_boot |-> 0] :
                p \in {0, MaxPriority - 1}}
FactoryContent == {[slots |-> [s \in Slot |-> IF s = 0 THEN a ELSE b], last_boot |-> 0] :
                      a \in FactoryA, b \in FactoryB}
FactoryMeta == {[slots |-> c.slots, last_boot |-> c.last_boot, crc32 |-> c] : c \in FactoryContent}
=============================================================================
