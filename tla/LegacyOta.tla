----------------------------- MODULE LegacyOta -----------------------------
(***************************************************************************)
(* ota/src/bootloader.c: the three commands of the legacy tool,            *)
(*   --misc=now     setSlotSucceed                                         *)
(*   --misc=other   setSlotActivity                                        *)
(*   --misc=update  miscUpdate: unpack, write the images, setSlotActivity  *)
(* Unlike the library in ab_meta, it takes the slot the metadata selects   *)
(* for the slot the device runs from, and reads it back for every step.    *)
(*                                                                         *)
(* cache and misc are what the processes see, flash and disk what survives *)
(* a power cut.  A partition or an image holds the packet it came from, or *)
(* Damaged.  On a raw NAND device (mtd) partitions are written by          *)
(* flash_erase and nandwrite, and the metadata in place, without a page    *)
(* cache; MiscMtd has the misc partition of such a device in detail.       *)
(*                                                                         *)
(* Faults names the calls that may fail:                                   *)
(*   "unpack"      tar, leaving files old, new or cut short                *)
(*   "open", "write", "sync"  of a target partition                        *)
(*   "readback"    reading an image or a partition for its MD5             *)
(*   "misc_read", "misc_write"  of the misc partition                      *)
(*   "blank_misc"  a misc partition that was never initialised             *)
(***************************************************************************)
EXTENDS AbMeta, Sequences

CONSTANTS Procs,         \* processes that run the tool
          Packets,
          Images,        \* Images[q]: the partitions packet q has an image for
          Selections,    \* what --partition and --extra_part can name
          Devices,       \* the kinds of device: what isMtdDevice may answer
          Factory, Damaged, Absent,
          Faults

\* The order of flash_write; the fourth is the extra partition of the caller.
PartName == <<"uboot", "boot", "system", "extra">>
Part == {PartName[i] : i \in DOMAIN PartName}

ASSUME ImagesAssumption == Images \in [Packets -> SUBSET Part] /\ Selections \subseteq SUBSET Part
ASSUME DevicesAssumption == Devices \subseteq BOOLEAN
ASSUME ContentAssumption ==
    /\ Factory \notin Packets /\ Damaged \notin Packets /\ Absent \notin Packets
    /\ Factory # Damaged /\ Factory # Absent /\ Damaged # Absent

VARIABLES
    mtd,         \* isMtdDevice: the partitions are on raw NAND
    running,     \* the slot the device runs from, NoSlot while it is down
    misc, disk,  \* the metadata: page cache and medium
    magic,       \* the metadata carries its magic number
    cache, flash,\* partition contents: page cache and medium
    temp,        \* image files in the save directory
    call,        \* per process, where it is
    result,      \* per process, how its last call ended
    switched,    \* history: the metadata was switched since the device booted
    confirmed    \* history: the slot that was confirmed while it ran undisturbed

vars == <<mtd, running, misc, disk, magic, cache, flash, temp, call, result, switched, confirmed>>
meta == <<misc, disk, magic, switched, confirmed>>
parts == <<cache, flash>>
world == <<mtd, running>>

\* A call that only switches or confirms has no packet.  Of the partitions in
\* overlooked, a failure went unnoticed.
NoPacket == Absent
NoCall == [pc |-> "idle", meta |-> Absent, packet |-> NoPacket, chosen |-> {}, slot |-> 0,
           part |-> 1, overlooked |-> {}]
Calls == [pc : {"idle", "succeed_write", "switch_write", "unpack", "select", "part", "write",
                "fsync", "compare", "switch"},
          meta : MetaData \union {Absent}, packet : Packets \union {NoPacket},
          chosen : Selections \union {{}}, slot : Slot, part : DOMAIN PartName,
          overlooked : SUBSET Part]

\* What the save directory can hold; a partition without an image has no file.
Files == {f \in [Part -> Packets \union {Damaged, Absent}] :
             \A p \in Part : f[p] # Absent => \E q \in Packets : p \in Images[q]}

TypeOk ==
    /\ mtd \in BOOLEAN /\ running \in Slot \union {NoSlot}
    /\ misc \in MetaData /\ disk \in MetaData /\ magic \in BOOLEAN
    /\ cache \in [Slot -> [Part -> Packets \union {Factory, Damaged}]]
    /\ flash \in [Slot -> [Part -> Packets \union {Factory, Damaged}]]
    /\ temp \in Files
    /\ call \in [Procs -> Calls]
    /\ result \in [Procs -> {"none", "ok", "error"}]
    /\ switched \in BOOLEAN /\ confirmed \in Slot \union {NoSlot}

\* External: slot a is programmed in the factory, slot b may be left blank.
Init ==
    /\ mtd \in Devices
    /\ running = NoSlot
    /\ disk \in FactoryMeta /\ misc = disk
    /\ magic \in {TRUE, "blank_misc" \notin Faults}
    /\ flash \in {[s \in Slot |-> [p \in Part |-> IF s = 0 THEN Factory ELSE b]] :
                     b \in {Factory, Damaged}}
    /\ cache = flash
    /\ temp = [p \in Part |-> Absent]
    /\ call = [c \in Procs |-> NoCall]
    /\ result = [c \in Procs |-> "none"]
    /\ switched = FALSE /\ confirmed = NoSlot

Works == {s \in Slot : \A p \in Part : flash[s][p] # Damaged}
Up == running \in Works

At(c, pc) == Up /\ call[c].pc = pc
Goto(c, to) == call' = [call EXCEPT ![c] = to]
Enter(c, to) == Goto(c, to) /\ result' = [result EXCEPT ![c] = "none"]
Finish(c, how) == Goto(c, NoCall) /\ result' = [result EXCEPT ![c] = how]

-----------------------------------------------------------------------------
(* setSlotSucceed *)

\* The tool has the decision of the library, line for line, and its checksum.
get_current_slot(m) == GetCurrentSlot(m)
UpdateCrc(m) == Seal(m)

\* Mutated form of SlotSucceed: last_boot gets the result of the read.
SlotSucceedReadOk(m) ==
    UpdateCrc([m EXCEPT !.slots[get_current_slot(m)].priority = MaxPriority, !.last_boot = ReadOk])

\* In this build neither SUCCESSFUL_BOOT nor RETRY_BOOT is defined.
SlotSucceed(m) ==
    UpdateCrc([m EXCEPT !.slots[get_current_slot(m)].priority = MaxPriority,
                   !.last_boot = get_current_slot(m)])

\* The read of the misc partition fails, or no slot is current.
MiscReadFails == "misc_read" \in Faults \/ get_current_slot(misc) = NoSlot

\* writeABMisc
SaveMeta(m) == misc' = m /\ disk' = IF mtd THEN m ELSE disk

SucceedRead(c) ==
    /\ At(c, "idle") /\ get_current_slot(misc) # NoSlot /\ magic
    /\ Enter(c, [NoCall EXCEPT !.pc = "succeed_write", !.meta = SlotSucceed(misc)])
    /\ UNCHANGED <<world, meta, parts, temp>>

\* The magic number is wrong: the code returns false, which is 0.
SucceedUnmarked(c) ==
    /\ At(c, "idle") /\ get_current_slot(misc) # NoSlot /\ ~magic
    /\ Finish(c, "ok")
    /\ UNCHANGED <<world, meta, parts, temp>>

CommandFails(c) ==
    /\ At(c, "idle") /\ MiscReadFails
    /\ Finish(c, "error")
    /\ UNCHANGED <<world, meta, parts, temp>>

SucceedWrite(c) ==
    /\ At(c, "succeed_write")
    /\ SaveMeta(call[c].meta)
    /\ confirmed' = IF switched \/ running \notin Bootable(misc) THEN NoSlot ELSE running
    /\ Finish(c, "ok")
    /\ UNCHANGED <<world, magic, switched, parts, temp>>

-----------------------------------------------------------------------------
(* setSlotActivity *)

\* Mutated form of SlotActivity: the priorities are exchanged by mistake.
SlotActivityKeeps(m) ==
    LET now_slot == get_current_slot(m) IN
    UpdateCrc([m EXCEPT !.slots[now_slot].priority = MaxPriority,
                   !.slots[Other(now_slot)].priority = MaxPriority - 1])

\* As ActiveAnotherSlot, but for the slot the metadata selects; last_boot stays.
SlotActivity(m) ==
    LET now_slot == get_current_slot(m) IN
    UpdateCrc([m EXCEPT
            !.slots[now_slot].priority = MaxPriority - 1,
            !.slots[Other(now_slot)] =
                [priority |-> MaxPriority, tries_remaining |-> MaxTries, successful_boot |-> 0]])

\* From the command line, or as the end of an update
ActivityRead(c) ==
    /\ get_current_slot(misc) # NoSlot
    /\ Enter(c, [call[c] EXCEPT !.pc = "switch_write", !.meta = SlotActivity(misc)])
    /\ UNCHANGED <<world, meta, parts, temp>>

OtherRead(c) == At(c, "idle") /\ ActivityRead(c)
SwitchRead(c) == At(c, "switch") /\ ActivityRead(c)

SwitchReadFails(c) ==
    /\ At(c, "switch") /\ MiscReadFails
    /\ Finish(c, "error")
    /\ UNCHANGED <<world, meta, parts, temp>>

SwitchWrite(c) ==
    /\ At(c, "switch_write")
    /\ SaveMeta(call[c].meta)
    /\ switched' = TRUE
    /\ Finish(c, "ok")
    /\ UNCHANGED <<world, magic, confirmed, parts, temp>>

\* writeABMisc fails: both commands return -1.
MiscWriteFails(c) ==
    /\ Up /\ call[c].pc \in {"succeed_write", "switch_write"} /\ "misc_write" \in Faults
    /\ Finish(c, "error")
    /\ UNCHANGED <<world, meta, parts, temp>>

-----------------------------------------------------------------------------
(* miscUpdate and flash_write *)

Start(c, q, chosen) ==
    /\ At(c, "idle")
    /\ Enter(c, [NoCall EXCEPT !.pc = "unpack", !.packet = q, !.chosen = chosen])
    /\ UNCHANGED <<world, meta, parts, temp>>

Unpack(c) ==
    /\ At(c, "unpack")
    /\ temp' = [p \in Part |-> IF p \in Images[call[c].packet] THEN call[c].packet ELSE temp[p]]
    /\ Goto(c, [call[c] EXCEPT !.pc = "select"])
    /\ UNCHANGED <<world, meta, parts, result>>

\* Mutated form of UnpackFails: the exit status of tar is not looked at.
UnpackFailureIgnored(c) ==
    /\ At(c, "unpack") /\ "unpack" \in Faults
    /\ temp' = [p \in Part |-> IF p \in Images[call[c].packet] THEN Damaged ELSE temp[p]]
    /\ Goto(c, [call[c] EXCEPT !.pc = "select"])
    /\ UNCHANGED <<world, meta, parts, result>>

UnpackFails(c) ==
    /\ At(c, "unpack") /\ "unpack" \in Faults
    /\ temp' \in {f \in Files : \A p \in Part :
                      f[p] = temp[p] \/ (p \in Images[call[c].packet] /\ f[p] \in {call[c].packet, Damaged})}
    /\ Finish(c, "error")
    /\ UNCHANGED <<world, meta, parts>>

Select(c) ==
    /\ At(c, "select") /\ get_current_slot(misc) # NoSlot
    /\ Goto(c, [call[c] EXCEPT !.pc = "part", !.slot = get_current_slot(misc)])
    /\ UNCHANGED <<world, meta, parts, temp, result>>

SelectFails(c) ==
    /\ At(c, "select") /\ MiscReadFails
    /\ Finish(c, "error")
    /\ UNCHANGED <<world, meta, parts, temp>>

\* Mutated form of Target: the images go to the selected slot.
TargetCurrent(c) == call[c].slot

Target(c) == Other(call[c].slot)
PartOf(c) == PartName[call[c].part]
\* Mutated form of NextPart: one entry too many.
NextPartOverruns(x) == [x EXCEPT !.pc = IF x.part <= Len(PartName) THEN "part" ELSE "switch",
                                 !.part = @ + 1]

NextPart(x) == IF x.part < Len(PartName) THEN [x EXCEPT !.pc = "part", !.part = @ + 1]
                                         ELSE [x EXCEPT !.pc = "switch"]

\* A partition nobody asked for, or without an image in the save directory
SkipPart(c) ==
    /\ At(c, "part")
    /\ PartOf(c) \notin call[c].chosen \/ temp[PartOf(c)] = Absent
    /\ Goto(c, NextPart(call[c]))
    /\ UNCHANGED <<world, meta, parts, temp, result>>

\* What a partition holds after a write that goes to the page cache, or on a raw
\* NAND device straight to the medium
Put(c, content) ==
    /\ cache' = [cache EXCEPT ![Target(c)][PartOf(c)] = content]
    /\ flash' = IF mtd THEN [flash EXCEPT ![Target(c)][PartOf(c)] = content] ELSE flash

\* flash_write_partition is called: the partition is asked for and has an image.
AtImage(c) == At(c, "part") /\ PartOf(c) \in call[c].chosen /\ temp[PartOf(c)] # Absent

\* Opened, or erased, and written in part
OpenPart(c) ==
    /\ AtImage(c)
    /\ Put(c, Damaged)
    /\ Goto(c, [call[c] EXCEPT !.pc = "write"])
    /\ UNCHANGED <<world, meta, temp, result>>

OpenPartFails(c) ==
    /\ AtImage(c) /\ "open" \in Faults
    /\ Finish(c, "error")
    /\ UNCHANGED <<world, meta, parts, temp>>

\* The image may have been removed by another process: the open file remains.
WritePart(c) ==
    /\ At(c, "write")
    /\ Put(c, IF temp[PartOf(c)] = Absent THEN call[c].packet ELSE temp[PartOf(c)])
    /\ Goto(c, [call[c] EXCEPT !.pc = IF mtd THEN "compare" ELSE "fsync"])
    /\ UNCHANGED <<world, meta, temp, result>>

\* The results of flash_erase and nandwrite are ignored.
WriteFails(c) ==
    /\ At(c, "write") /\ "write" \in Faults
    /\ IF mtd THEN Goto(c, [call[c] EXCEPT !.pc = "compare"]) /\ UNCHANGED result
              ELSE Finish(c, "error")
    /\ UNCHANGED <<world, meta, parts, temp>>

\* Mutated form of Fsync: there is none.
FsyncDropped(c) ==
    /\ At(c, "fsync")
    /\ Goto(c, [call[c] EXCEPT !.pc = "compare"])
    /\ UNCHANGED <<world, meta, parts, temp, result>>

Fsync(c) ==
    /\ At(c, "fsync")
    /\ flash' = [flash EXCEPT ![Target(c)][PartOf(c)] = cache[Target(c)][PartOf(c)]]
    /\ Goto(c, [call[c] EXCEPT !.pc = "compare"])
    /\ UNCHANGED <<world, meta, cache, temp, result>>

\* The result of fsync is ignored.
FsyncFails(c) ==
    /\ At(c, "fsync") /\ "sync" \in Faults
    /\ flash' = [flash EXCEPT ![Target(c)][PartOf(c)] = Damaged]
    /\ Goto(c, [call[c] EXCEPT !.pc = "compare", !.overlooked = @ \union {PartOf(c)}])
    /\ UNCHANGED <<world, meta, cache, temp, result>>

\* What comparefile can answer.  Two damaged contents may be the same.
Same(c) ==
    IF temp[PartOf(c)] \in {Absent, Damaged} /\ cache[Target(c)][PartOf(c)] = Damaged
    THEN BOOLEAN
    ELSE {temp[PartOf(c)] = cache[Target(c)][PartOf(c)]}

\* Mutated form of CompareOk: nothing is compared.
CompareSkipped(c) ==
    /\ At(c, "compare")
    /\ temp' = [temp EXCEPT ![PartOf(c)] = Absent]
    /\ Goto(c, NextPart(call[c]))
    /\ UNCHANGED <<world, meta, parts, result>>

CompareOk(c) ==
    /\ At(c, "compare") /\ TRUE \in Same(c)
    /\ temp' = [temp EXCEPT ![PartOf(c)] = Absent]
    /\ Goto(c, NextPart(call[c]))
    /\ UNCHANGED <<world, meta, parts, result>>

\* A file that cannot be read leaves its digest uninitialised: what the stack
\* holds may be the digest of the partition before.
CompareUnread(c) ==
    /\ At(c, "compare") /\ "readback" \in Faults
    /\ temp' = [temp EXCEPT ![PartOf(c)] = Absent]
    /\ Goto(c, NextPart([call[c] EXCEPT !.overlooked = @ \union {PartOf(c)}]))
    /\ UNCHANGED <<world, meta, parts, result>>

CompareFails(c) ==
    /\ At(c, "compare") /\ (FALSE \in Same(c) \/ "readback" \in Faults)
    /\ Finish(c, "error")
    /\ UNCHANGED <<world, meta, parts, temp>>

-----------------------------------------------------------------------------
(* External: write-back, death of processes, power cuts, the boot loader *)

WritebackMisc ==
    /\ running # NoSlot
    /\ disk' = misc
    /\ UNCHANGED <<world, misc, magic, switched, confirmed, parts, temp, call, result>>

\* The kernel writes a dirty partition back, completely or in part.
WritebackPart ==
    /\ running # NoSlot
    /\ \E s \in Slot, p \in Part :
         /\ cache[s][p] # flash[s][p]
         /\ \E content \in {cache[s][p], Damaged} :
               flash' = [flash EXCEPT ![s][p] = content]
    /\ UNCHANGED <<world, meta, cache, temp, call, result>>

Kill(c) ==
    /\ Up
    /\ Goto(c, NoCall)
    /\ UNCHANGED <<world, meta, parts, temp, result>>

\* Of the images, which nothing flushes, any may be lost or cut short.
Reset ==
    /\ running # NoSlot
    /\ running' = NoSlot
    /\ misc' = disk
    /\ cache' = flash
    /\ temp' \in {f \in Files : \A p \in Part : f[p] \in {temp[p], Damaged, Absent}
                                            /\ (temp[p] = Absent => f[p] = Absent)}
    /\ call' = [c \in Procs |-> NoCall] /\ result' = [c \in Procs |-> "none"]
    /\ switched' = FALSE /\ confirmed' = NoSlot
    /\ UNCHANGED <<mtd, disk, magic, flash>>

\* As in AbBoot; without its magic number the metadata is not used.
Boot ==
    /\ running = NoSlot
    /\ LET s == IF magic THEN GetCurrentSlot(disk) ELSE 0 IN
         /\ s \in Slot
         /\ running' = s
         /\ disk' = IF magic THEN SpendTry(disk, s) ELSE disk
    /\ misc' = disk'
    /\ UNCHANGED <<mtd, magic, parts, temp, call, result, switched, confirmed>>

Step(c) ==
    \/ SucceedWrite(c) \/ SwitchWrite(c) \/ MiscWriteFails(c)
    \/ Unpack(c) \/ UnpackFails(c) \/ Select(c) \/ SelectFails(c)
    \/ SkipPart(c) \/ OpenPart(c) \/ OpenPartFails(c) \/ WritePart(c) \/ WriteFails(c)
    \/ Fsync(c) \/ FsyncFails(c) \/ CompareOk(c) \/ CompareUnread(c) \/ CompareFails(c)
    \/ SwitchRead(c) \/ SwitchReadFails(c)

Command(c) ==
    \/ SucceedRead(c) \/ SucceedUnmarked(c) \/ CommandFails(c)
    \/ OtherRead(c)
    \/ \E q \in Packets, chosen \in Selections : Start(c, q, chosen)

Next ==
    \/ \E c \in Procs : Command(c) \/ Step(c) \/ Kill(c)
    \/ WritebackMisc \/ WritebackPart \/ Reset \/ Boot

Spec == Init /\ [][Next]_vars

-----------------------------------------------------------------------------
(* Properties *)

\* When an update gets to the switch, every image it was asked to install is
\* complete on the medium: the fsync and the comparison of the MD5 sums come
\* first (bootloader.c:472 and :681), failures of nandwrite included.  The only
\* exceptions are partitions of which fsync or the reading of the comparison
\* failed, whose results the code does not look at.
UpdateIsDurable ==
    \A c \in Procs :
        (call[c].pc \in {"switch", "switch_write"} /\ call[c].packet # NoPacket) =>
            \A p \in (Images[call[c].packet] \intersect call[c].chosen) \ call[c].overlooked :
                flash[Target(c)][p] = call[c].packet

\* An update switches to the slot it wrote, although setSlotActivity reads the
\* current slot afresh (bootloader.c:635 and :713).  (Another process that
\* switches in between breaks this.)
SwitchNamesTarget ==
    \A c \in Procs :
        (call[c].pc = "switch_write" /\ call[c].packet # NoPacket) =>
            GetCurrentSlot(call[c].meta) = Target(c)

\* The slot the device runs from is never written, unless the metadata was
\* already switched since the last boot, or this boot took the last try of the
\* slot: in both cases the metadata names the other slot as the current one.  So
\* it may without its magic number, which only setSlotSucceed looks at.
RunningSlotSpared ==
    [][(running # NoSlot /\ magic /\ ~switched /\ running \in Bootable(misc)) =>
         cache'[running] = cache[running] /\ flash'[running] = flash[running]]_vars

\* A slot that was confirmed while it ran undisturbed stays recorded in last_boot
\* for as long as the device is up, whatever is switched or updated afterwards.
ConfirmIsRecorded == confirmed # NoSlot => misc.last_boot = confirmed

-----------------------------------------------------------------------------
(* The inductive invariants behind them.  The first two hold for any number of *)
(* processes, the others for one at a time.                                    *)

\* A process that writes metadata has some, and one that updates has a packet.
\* A device that is down has no processes and no page cache; raw NAND never has.
Consistent ==
    /\ \A c \in Procs :
          /\ call[c].pc = "idle" => call[c] = NoCall
          /\ call[c].pc \in {"succeed_write", "switch_write"} => call[c].meta \in MetaData
          /\ call[c].pc = "succeed_write" => magic
          /\ call[c].pc = "fsync" => ~mtd
          /\ call[c].pc \notin {"idle", "succeed_write", "switch_write"} => call[c].packet \in Packets
    /\ running = NoSlot => /\ cache = flash /\ ~switched /\ confirmed = NoSlot
                           /\ \A c \in Procs : call[c] = NoCall
    /\ mtd => cache = flash

\* Program counters at which call[c].slot is set
Targeting == {"part", "write", "fsync", "compare", "switch"}

\* Until the first switch after a boot, the metadata selects the running slot and
\* nobody is about to write it, or the boot took its last try and it is no
\* choice any more.
RunsFromSelected ==
    (running # NoSlot /\ magic /\ ~switched) =>
        IF get_current_slot(misc) = running
        THEN /\ cache[running] = flash[running]
             /\ \A c \in Procs :
                   /\ call[c].pc \in Targeting => call[c].slot = running
                   /\ call[c].pc = "succeed_write" =>
                         get_current_slot(call[c].meta) = running /\ call[c].meta.last_boot = running
        ELSE /\ running \notin Bootable(misc)
             /\ \A c \in Procs : call[c].pc = "succeed_write" =>
                   get_current_slot(call[c].meta) # running /\ running \notin Bootable(call[c].meta)

\* What the one process is about to write has the last_boot of the metadata.
LastBootKept ==
    /\ ConfirmIsRecorded
    /\ \A c \in Procs : call[c].pc = "switch_write" => call[c].meta.last_boot = misc.last_boot

\* The metadata still selects the slot that the update took for the running one.
TargetIsOther ==
    /\ SwitchNamesTarget
    /\ \A c \in Procs : call[c].pc \in Targeting => call[c].slot = get_current_slot(misc)

\* The images of the partitions the update has come to are on the medium, those of
\* the others still in the save directory.  What is compared is what was synced,
\* unless fsync failed.
Behind(c) == IF call[c].pc \in {"switch", "switch_write"} THEN DOMAIN PartName
             ELSE 1 .. call[c].part - 1

Carried(c) ==
    /\ \A i \in Behind(c) :
          PartName[i] \in (Images[call[c].packet] \intersect call[c].chosen) \ call[c].overlooked =>
              /\ cache[Target(c)][PartName[i]] = call[c].packet
              /\ flash[Target(c)][PartName[i]] = call[c].packet
    /\ \A i \in DOMAIN PartName \ Behind(c) :
          PartName[i] \in Images[call[c].packet] => temp[PartName[i]] = call[c].packet
    /\ call[c].pc = "compare" =>
          \/ PartOf(c) \in call[c].overlooked
          \/ flash[Target(c)][PartOf(c)] = cache[Target(c)][PartOf(c)]

ImagesCarried ==
    \A c \in Procs :
        /\ call[c].pc \in {"unpack", "select"} => call[c].part = 1
        /\ (call[c].pc \in {"select", "switch_write"} \union Targeting /\ call[c].packet # NoPacket) =>
               Carried(c)
=============================================================================
