------------------------------ MODULE Upgrade ------------------------------
(***************************************************************************)
(* rk_upgrade_packet of upgrade/src/dl_upgrade.c on an eMMC device: a      *)
(* packet is unpacked into the temporary directory, its images are written *)
(* to the partitions of the slot that is not running, and the metadata is  *)
(* switched to that slot.  One action per step of the code between two     *)
(* calls that another thread, a failing call or a power cut can separate.  *)
(*                                                                         *)
(* Storage is two-level: cache and temp are what the processes see, flash  *)
(* and tempDisk what survives a power cut; likewise misc and disk for the  *)
(* metadata.  The content of a partition or of an image file is the packet *)
(* it came from, or Damaged when it is a mixture of old and new blocks, a  *)
(* truncated file, or empty.                                               *)
(*                                                                         *)
(* Faults names the calls that may fail:                                   *)
(*   "cmdline_open", "cmdline_read"  reading /proc/cmdline                 *)
(*   "unpack_fork"     system() cannot run tar                             *)
(*   "unpack_partial"  tar fails, leaving some files old, new or cut short *)
(*   "image_open"      fopen of an image that exists                       *)
(*   "image_read"      fread of an image                                   *)
(*   "flash_open", "flash_info", "flash_write", "flash_sync"  the target   *)
(*                     partition                                           *)
(*   "misc_read", "misc_write"       the misc partition                    *)
(***************************************************************************)
EXTENDS AbMeta, Sequences

CONSTANTS Threads,       \* threads of the process that call rk_upgrade_packet
          Packets,       \* update packets
          Images,        \* Images[q]: the partitions packet q has an image for
          Factory,       \* content: the software the device was built with
          Damaged,       \* content: no complete image
          Absent,        \* no such file
          Faults

\* rk_upgrade_packet writes these in this order.
PartName == <<"uboot", "boot", "system">>
Part == {PartName[i] : i \in DOMAIN PartName}

ASSUME ImagesAssumption == Images \in [Packets -> SUBSET Part]
ASSUME ContentAssumption ==
    /\ Factory \notin Packets /\ Damaged \notin Packets /\ Absent \notin Packets
    /\ Factory # Damaged /\ Factory # Absent /\ Damaged # Absent

Image == Packets \union {Damaged}            \* what an image file can hold
PartContent == Packets \union {Factory, Damaged}

VARIABLES
    running,    \* the slot the device runs from, NoSlot while it is down
    misc, disk, \* the metadata: page cache and medium
    cache,      \* partition contents as read back: cache[slot][part]
    flash,      \* partition contents on the medium
    temp,       \* image files in the temporary directory
    tempDisk,   \* what of them survives a power cut
    isInit,     \* g_upgrade_ctrl.is_init
    call,       \* per thread, where it is in rk_upgrade_packet
    result,     \* per thread, the event its last call published
    promised,   \* history: where a successful switch of this boot leads
    attempts,   \* history: boots of a slot on a spent try since it was last switched to
    installed   \* history: the packet a slot was switched to for, until it is written again

vars == <<running, misc, disk, cache, flash, temp, tempDisk, isInit, call, result,
          promised, attempts, installed>>

meta == <<misc, disk, promised, attempts>>
files == <<temp, tempDisk>>
parts == <<cache, flash, installed>>

-----------------------------------------------------------------------------
Idle == [pc |-> "idle"]

\* Between the check of the arguments and the switch.  slot is the slot the
\* call was told it runs from, part the index into PartName, img the image
\* being written, blk 1, 2 or 3 (the third block or a later one), ret the value
\* the code carries, broke whether the packet was refused or a flash call failed.
Working ==
    {c \in [pc : {"unpack", "sync", "part", "write", "fsync", "close", "switch"},
            packet : Packets, slot : Slot, part : DOMAIN PartName, img : Image \union {Absent},
            blk : 1 .. 3, ret : {0, -1}, broke : BOOLEAN] :
        c.pc = "write" => c.img # Absent}

\* rk_ab_meta_active_another_slot between its read and its write
Switching == [pc : {"switch_write"}, packet : Packets, slot : Slot, told : Slot, meta : MetaData]

Publishing == [pc : {"publish"}, event : {"success", "failure"}, slot : Slot]

TypeOk ==
    /\ running \in Slot \union {NoSlot}
    /\ misc \in MetaData /\ disk \in MetaData
    /\ cache \in [Slot -> [Part -> PartContent]]
    /\ flash \in [Slot -> [Part -> PartContent]]
    /\ temp \in [Part -> Image \union {Absent}]
    /\ tempDisk \in [Part -> Image \union {Absent}]
    /\ isInit \in BOOLEAN
    /\ call \in [Threads -> {Idle} \union Working \union Switching \union Publishing]
    /\ result \in [Threads -> {"none", "success", "failure"}]
    /\ promised \in Slot \union {NoSlot}
    /\ attempts \in [Slot -> Nat]
    /\ installed \in [Slot -> Packets \union {Absent}]

\* Slots whose partitions are all complete on the medium
Works == {s \in Slot : \A p \in Part : flash[s][p] # Damaged}

Up == running \in Works

\* External: slot a is programmed in the factory, slot b may be left blank.
Init ==
    /\ running = NoSlot
    /\ disk \in FactoryMeta
    /\ misc = disk
    /\ flash \in {[s \in Slot |-> [p \in Part |-> IF s = 0 THEN Factory ELSE b]] :
                     b \in {Factory, Damaged}}
    /\ cache = flash
    /\ temp = [p \in Part |-> Absent]
    /\ tempDisk = temp
    /\ isInit = FALSE
    /\ call = [t \in Threads |-> Idle]
    /\ result = [t \in Threads |-> "none"]
    /\ promised = NoSlot
    /\ attempts = [s \in Slot |-> 0]
    /\ installed = [s \in Slot |-> Absent]

-----------------------------------------------------------------------------
(* Helpers of the actions *)

At(t, pc) == Up /\ call[t].pc = pc
Goto(t, c) == call' = [call EXCEPT ![t] = c]

\* Mutated form of Target: the images go to the slot the device runs from.
TargetRunning(t) == call[t].slot

Target(t) == Other(call[t].slot)
PartOf(t) == PartName[call[t].part]

\* Mutated form of NextPart: the loop does not advance.
NextPartStays(c) == [c EXCEPT !.pc = "part", !.img = Absent, !.blk = 1]

\* The loop of rk_upgrade_packet: on to the next partition, or to the switch.
NextPart(c) ==
    IF c.part < Len(PartName)
    THEN [c EXCEPT !.pc = "part", !.part = @ + 1, !.img = Absent, !.blk = 1]
    ELSE [c EXCEPT !.pc = "switch", !.img = Absent, !.blk = 1]

Publish(c, e) == [pc |-> "publish", event |-> e, slot |-> c.slot]

\* rk_upgrade_init; called again it returns 0 and changes nothing.  A path that
\* does not resolve makes it return -1 and changes nothing either.
UpgradeInit ==
    /\ Up
    /\ ~isInit
    /\ isInit' = TRUE
    /\ UNCHANGED <<running, meta, parts, files, call, result>>

\* The arguments are checked and the running slot is read.  Without
\* rk_upgrade_init, or without a slot, the call returns -1 and changes nothing.
Start(t, q) ==
    /\ At(t, "idle")
    /\ isInit
    /\ \E slot \in RunningSlotResults(running, Faults) \ {NoSlot} :
          Goto(t, [pc |-> "unpack", packet |-> q, slot |-> slot, part |-> 1, img |-> Absent,
                   blk |-> 1, ret |-> 0, broke |-> FALSE])
    /\ result' = [result EXCEPT ![t] = "none"]
    /\ UNCHANGED <<running, meta, parts, files, isInit>>

\* system("tar -xf ..."): only a failure of system() itself is noticed; the
\* exit status of tar is not.  The directory is not emptied first.
Unpack(t) ==
    /\ At(t, "unpack")
    /\ \/ /\ temp' = [p \in Part |-> IF p \in Images[call[t].packet] THEN call[t].packet ELSE temp[p]]
          /\ Goto(t, [call[t] EXCEPT !.pc = "sync"])
       \/ /\ "unpack_partial" \in Faults
          /\ \E f \in [Images[call[t].packet] -> {"old", "new", "cut"}] :
                temp' = [p \in Part |->
                           IF p \notin Images[call[t].packet] \/ f[p] = "old" THEN temp[p]
                           ELSE IF f[p] = "new" THEN call[t].packet ELSE Damaged]
          /\ Goto(t, [call[t] EXCEPT !.pc = "sync"])
       \/ /\ "unpack_fork" \in Faults
          /\ Goto(t, Publish(call[t], "failure"))
          /\ UNCHANGED temp
    /\ UNCHANGED <<running, meta, parts, tempDisk, isInit, result>>

\* sync() flushes everything that is dirty, whoever wrote it.
Sync(t) ==
    /\ At(t, "sync")
    /\ tempDisk' = temp
    /\ flash' = cache
    /\ disk' = misc
    /\ Goto(t, [call[t] EXCEPT !.pc = "part"])
    /\ UNCHANGED <<running, misc, cache, temp, isInit, result, promised, attempts, installed>>

-----------------------------------------------------------------------------
(* upgrade_partition, upgrade_write_partition and upgrade_do_write *)

\* No image for this partition, or it cannot be opened: both count as done.
SkipPart(t) ==
    /\ At(t, "part")
    /\ temp[PartOf(t)] = Absent \/ "image_open" \in Faults
    /\ Goto(t, NextPart(call[t]))
    /\ UNCHANGED <<running, meta, parts, files, isInit, result>>

OpenPart(t) ==
    /\ At(t, "part")
    /\ temp[PartOf(t)] # Absent
    /\ Goto(t, [call[t] EXCEPT !.pc = "write", !.img = temp[PartOf(t)]])
    /\ UNCHANGED <<running, meta, parts, files, isInit, result>>

\* The partition cannot be opened: -1 without removing the image.
OpenPartFails(t) ==
    /\ At(t, "part")
    /\ temp[PartOf(t)] # Absent
    /\ "flash_open" \in Faults
    /\ Goto(t, Publish(call[t], "failure"))
    /\ UNCHANGED <<running, meta, parts, files, isInit, result>>

\* An empty image file, or a partition whose geometry cannot be read, makes the
\* code give up before anything is written.
RejectImage(t) ==
    /\ At(t, "write")
    /\ call[t].blk = 1
    /\ call[t].img = Damaged \/ "flash_info" \in Faults
    /\ Goto(t, [call[t] EXCEPT !.pc = "close", !.ret = -1, !.broke = TRUE])
    /\ UNCHANGED <<running, meta, parts, files, isInit, result>>

\* Threads that have already written blocks of another image to the same
\* partition end with a mixture once thread t writes there.
Mixed(t) ==
    {u \in Threads \ {t} :
        /\ call[u].pc = "write"
        /\ Target(u) = Target(t) /\ call[u].part = call[t].part
        /\ call[u].blk > 1 /\ call[u].img # call[t].img}

AfterWrite(t, c) ==
    call' = [u \in Threads |-> IF u = t THEN c
                               ELSE IF u \in Mixed(t) THEN [call[u] EXCEPT !.img = Damaged]
                               ELSE call[u]]

Store(t, content) ==
    /\ cache' = [cache EXCEPT ![Target(t)][PartOf(t)] = content]
    /\ installed' = [installed EXCEPT ![Target(t)] = Absent]

\* A block that is not the last one
WriteBlock(t) ==
    /\ At(t, "write")
    /\ Store(t, Damaged)
    /\ AfterWrite(t, [call[t] EXCEPT !.blk = IF @ < 3 THEN @ + 1 ELSE 3])
    /\ UNCHANGED <<running, meta, flash, files, isInit, result>>

\* The last block; a read error may have cut it short without being noticed.
WriteLastBlock(t) ==
    /\ At(t, "write")
    /\ \E content \in {call[t].img} \union (IF "image_read" \in Faults THEN {Damaged} ELSE {}) :
          Store(t, content)
    /\ AfterWrite(t, [call[t] EXCEPT !.pc = "fsync"])
    /\ UNCHANGED <<running, meta, flash, files, isInit, result>>

\* dl_flash_erase or dl_flash_write fails, possibly after part of the block.
WriteFails(t) ==
    /\ At(t, "write")
    /\ "flash_write" \in Faults
    /\ Store(t, Damaged) \/ UNCHANGED <<cache, installed>>
    /\ AfterWrite(t, [call[t] EXCEPT !.pc = "fsync", !.ret = -1, !.broke = TRUE])
    /\ UNCHANGED <<running, meta, flash, files, isInit, result>>

\* fread returns nothing.  The test "offset != block_size" makes this an error
\* at every block except the second, where the loop ends with success.
ReadFails(t) ==
    /\ At(t, "write")
    /\ "image_read" \in Faults
    /\ Goto(t, [call[t] EXCEPT !.pc = "fsync", !.ret = IF call[t].blk = 2 THEN @ ELSE -1])
    /\ UNCHANGED <<running, meta, parts, files, isInit, result>>

\* Mutated form of Fsync: the partition is closed without it.
FsyncDropped(t) ==
    /\ At(t, "fsync")
    /\ Goto(t, [call[t] EXCEPT !.pc = "close"])
    /\ UNCHANGED <<running, meta, parts, files, isInit, result>>

\* fsync of the partition; its return value is ignored.
Fsync(t) ==
    /\ At(t, "fsync")
    /\ \/ flash' = [flash EXCEPT ![Target(t)][PartOf(t)] = cache[Target(t)][PartOf(t)]]
       \/ "flash_sync" \in Faults /\ UNCHANGED flash
    /\ Goto(t, [call[t] EXCEPT !.pc = "close"])
    /\ UNCHANGED <<running, meta, cache, files, isInit, result, installed>>

\* Mutated forms of Close: the loop goes on after an error, and the image of a
\* partition that was written is kept.
CloseContinues(t) ==
    /\ At(t, "close")
    /\ temp' = [temp EXCEPT ![PartOf(t)] = Absent]
    /\ Goto(t, NextPart(call[t]))
    /\ UNCHANGED <<running, meta, parts, tempDisk, isInit, result>>
CloseKeepsImage(t) ==
    /\ At(t, "close")
    /\ IF call[t].ret < 0
       THEN Goto(t, Publish(call[t], "failure"))
       ELSE Goto(t, NextPart(call[t]))
    /\ UNCHANGED <<running, meta, parts, files, isInit, result>>

\* The image is removed whatever happened; the loop ends on the first error.
Close(t) ==
    /\ At(t, "close")
    /\ temp' = [temp EXCEPT ![PartOf(t)] = Absent]
    /\ IF call[t].ret < 0
       THEN Goto(t, Publish(call[t], "failure"))
       ELSE Goto(t, NextPart(call[t]))
    /\ UNCHANGED <<running, meta, parts, tempDisk, isInit, result>>

-----------------------------------------------------------------------------
(* rk_ab_meta_active_another_slot and the event; its result is ignored. *)

SwitchRead(t) ==
    /\ At(t, "switch")
    /\ \E told \in RunningSlotResults(running, Faults) \ {NoSlot} :
          Goto(t, [pc |-> "switch_write", packet |-> call[t].packet, slot |-> call[t].slot,
                   told |-> told, meta |-> ActiveAnotherSlot(misc, told)])
    /\ UNCHANGED <<running, meta, parts, files, isInit, result>>

SwitchReadFails(t) ==
    /\ At(t, "switch")
    /\ "misc_read" \in Faults \/ "cmdline_open" \in Faults
    /\ Goto(t, Publish(call[t], "success"))
    /\ UNCHANGED <<running, meta, parts, files, isInit, result>>

SwitchWrite(t) ==
    /\ At(t, "switch_write")
    /\ LET to == Other(call[t].told) IN
          /\ misc' = call[t].meta
          /\ promised' = to
          /\ attempts' = [attempts EXCEPT ![to] = 0]
          /\ installed' = [installed EXCEPT ![to] = call[t].packet]
    /\ Goto(t, Publish(call[t], "success"))
    /\ UNCHANGED <<running, disk, cache, flash, files, isInit, result>>

\* Mutated form of SwitchWriteFails: the failed write selects the slot all the same.
FailedSwitchSelects(t) ==
    /\ At(t, "switch_write")
    /\ "misc_write" \in Faults
    /\ misc' = call[t].meta
    /\ Goto(t, Publish(call[t], "success"))
    /\ UNCHANGED <<running, disk, promised, attempts, parts, files, isInit, result>>

SwitchWriteFails(t) ==
    /\ At(t, "switch_write")
    /\ "misc_write" \in Faults
    /\ Goto(t, Publish(call[t], "success"))
    /\ UNCHANGED <<running, meta, parts, files, isInit, result>>

Return(t) ==
    /\ At(t, "publish")
    /\ result' = [result EXCEPT ![t] = call[t].event]
    /\ Goto(t, Idle)
    /\ UNCHANGED <<running, meta, parts, files, isInit>>

-----------------------------------------------------------------------------
(* The environment: write-back, process death, power cuts, the boot loader *)

\* The kernel writes a dirty partition back, completely or in part.
WritebackPart ==
    /\ running # NoSlot
    /\ \E s \in Slot, p \in Part :
          /\ cache[s][p] # flash[s][p]
          /\ \E content \in {cache[s][p], Damaged} :
                flash' = [flash EXCEPT ![s][p] = content]
    /\ UNCHANGED <<running, meta, cache, files, isInit, call, result, installed>>

WritebackFile ==
    /\ running # NoSlot
    /\ \E p \in Part :
          /\ temp[p] # tempDisk[p]
          /\ \E content \in {temp[p]} \union (IF temp[p] = Absent THEN {} ELSE {Damaged}) :
                tempDisk' = [tempDisk EXCEPT ![p] = content]
    /\ UNCHANGED <<running, meta, parts, temp, isInit, call, result>>

WritebackMisc ==
    /\ running # NoSlot
    /\ disk' = misc
    /\ UNCHANGED <<running, misc, parts, files, isInit, call, result, promised, attempts>>

\* The process dies: its calls vanish, what it wrote stays in the page cache.
Kill ==
    /\ Up
    /\ isInit' = FALSE
    /\ call' = [t \in Threads |-> Idle]
    /\ UNCHANGED <<running, meta, parts, files, result>>

\* Power loss, watchdog or reboot: everything not written back is lost.
Reset ==
    /\ running # NoSlot
    /\ running' = NoSlot
    /\ misc' = disk
    /\ cache' = flash
    /\ temp' = tempDisk
    /\ isInit' = FALSE
    /\ call' = [t \in Threads |-> Idle]
    /\ promised' = NoSlot
    /\ UNCHANGED <<disk, flash, tempDisk, result, attempts, installed>>

\* External: the boot loader, as in AbBoot
Boot ==
    /\ running = NoSlot
    /\ LET s == GetCurrentSlot(disk) IN
          /\ s \in Slot
          /\ running' = s
          /\ disk' = SpendTry(disk, s)
          /\ attempts' = IF disk' = disk THEN attempts ELSE [attempts EXCEPT ![s] = @ + 1]
    /\ misc' = disk'
    /\ UNCHANGED <<parts, files, isInit, call, result, promised>>

Step(t) ==
    \/ Unpack(t) \/ Sync(t)
    \/ SkipPart(t) \/ OpenPart(t) \/ OpenPartFails(t)
    \/ RejectImage(t) \/ WriteBlock(t) \/ WriteLastBlock(t) \/ WriteFails(t) \/ ReadFails(t)
    \/ Fsync(t) \/ Close(t)
    \/ SwitchRead(t) \/ SwitchReadFails(t) \/ SwitchWrite(t) \/ SwitchWriteFails(t)
    \/ Return(t)

Next ==
    \/ UpgradeInit
    \/ \E t \in Threads, q \in Packets : Start(t, q)
    \/ \E t \in Threads : Step(t)
    \/ WritebackPart \/ WritebackFile \/ WritebackMisc
    \/ Kill \/ Reset \/ Boot

\* A call that is running goes on (no call of it waits for another thread), a
\* device that is down is powered up, and one that does not come up is reset.
Fairness ==
    /\ \A t \in Threads : WF_vars(Step(t))
    /\ WF_vars(Boot)
    /\ WF_vars(Reset /\ ~Up)

Spec == Init /\ [][Next]_vars

FairSpec == Spec /\ Fairness
-----------------------------------------------------------------------------
(* Properties *)

\* An upgrade never touches the slot the device runs from, neither in the page
\* cache nor on the medium, whatever fails and however many calls overlap: the
\* target is !slot of the command line (dl_upgrade.c:271 and :309).  An empty
\* read of /proc/cmdline, which the code answers with slot a, breaks this.
RunningSlotUntouched ==
    [][running # NoSlot => /\ cache'[running] = cache[running]
                           /\ flash'[running] = flash[running]]_vars

\* When an image is refused, or an erase or a write of any partition fails, the
\* packet never gets to the switch, even if later images would have been written
\* well: the result survives the fsync, the close and the removal of the image
\* (dl_upgrade.c:171-218), and the loop breaks on it (:311-314).
FailureBlocksSwitch ==
    \A t \in Threads : call[t].pc = "switch" => ~call[t].broke

\* Once the metadata was switched to a slot for a packet, every image of that
\* packet is complete on the medium, not only in the page cache, and stays so
\* until the slot is written again: a power cut at any moment after the switch
\* boots what the packet carried (fsync at dl_upgrade.c:171 before :319).
SwitchIsDurable ==
    \A s \in Slot : installed[s] \in Packets =>
        \A p \in Images[installed[s]] : flash[s][p] = installed[s]

\* A packet that gets to the switch leaves no image behind for a later packet to
\* install by mistake: neither its own nor those that failed packets, kills or
\* power cuts left before it, which it has written as well (dl_upgrade.c:216 on
\* the way of every image that was opened; the returns at :201 and :311 before it
\* leave images, but not on the way to the switch).
SwitchLeavesNoImage ==
    \A t \in Threads :
        call[t].pc \in {"switch", "switch_write"} => \A p \in Part : temp[p] = Absent

\* The SUCCESS event is published only when the metadata selects the new slot
\* (dl_upgrade.c:316-323; true only while neither the misc partition nor the
\* command line fails, because the result of rk_ab_meta_active_another_slot is
\* dropped).
SuccessIsSwitched ==
    \A t \in Threads :
        (call[t].pc = "publish" /\ call[t].event = "success")
            => GetCurrentSlot(misc) = Other(call[t].slot)

\* Every call of rk_upgrade_packet comes to an end, with whatever faults.
CallReturns == \A t \in Threads : call[t].pc # "idle" ~> call[t].pc = "idle"

-----------------------------------------------------------------------------
(* The inductive invariants behind the safety properties *)

\* While the command line is read correctly every call knows the slot it runs
\* from, and there is nothing dirty to write back to that slot.
RunsFrom ==
    /\ running = NoSlot => /\ cache = flash
                           /\ \A t \in Threads : call[t].pc = "idle"
    /\ running # NoSlot => /\ cache[running] = flash[running]
                           /\ \A t \in Threads : call[t].pc # "idle" => call[t].slot = running

\* A call that was refused or in which a flash call failed carries ret = -1 to
\* the end of the partition, where it leaves the loop.
BrokeReturns ==
    \A t \in Threads :
        (call[t].pc \in {"unpack", "sync", "part", "write", "fsync", "close", "switch"} /\ call[t].broke)
            => call[t].pc \in {"fsync", "close"} /\ call[t].ret = -1

\* A call that is about to switch leads away from the slot it runs from.
LeadsAway ==
    \A t \in Threads :
        call[t].pc = "switch_write" => /\ call[t].told = call[t].slot
                                       /\ GetCurrentSlot(call[t].meta) = Other(call[t].slot)

\* Calls that have unpacked their packet, and the place they have come to in the
\* row of partitions: 0 before the first one, past the last one at the switch
Unpacked(c) ==
    c.pc \in {"sync", "part", "write", "fsync", "close", "switch", "switch_write"}
Place(c) ==
    IF c.pc = "sync" THEN 0
    ELSE IF c.pc \in {"switch", "switch_write"} THEN Len(PartName) + 1
    ELSE c.part

\* The loop starts at the first partition.
StartsAtFirst == \A t \in Threads : call[t].pc \in {"unpack", "sync"} => call[t].part = 1

\* With one call at a time: no image is left of the partitions it is done with ...
NoImageBehind ==
    \A t \in Threads : Unpacked(call[t]) =>
        \A i \in DOMAIN PartName : i < Place(call[t]) => temp[PartName[i]] = Absent

\* ... its own images are still there for the others ...
ImagesAhead ==
    \A t \in Threads : Unpacked(call[t]) =>
        \A i \in DOMAIN PartName :
            i >= Place(call[t]) /\ PartName[i] \in Images[call[t].packet]
                => temp[PartName[i]] = call[t].packet

\* ... and what it carries reaches the page cache, and from there the medium.
Stored(c, p) == cache[Other(c.slot)][p] = c.packet
Durable(c, p) == Stored(c, p) /\ flash[Other(c.slot)][p] = c.packet
Carried(c, p) ==
    /\ c.pc = "write" => c.img = c.packet
    /\ c.pc = "fsync" /\ c.ret = 0 => Stored(c, p)
    /\ c.pc = "close" /\ c.ret = 0 => Durable(c, p)
ReachesMedium ==
    \A t \in Threads : Unpacked(call[t]) =>
        \A i \in DOMAIN PartName : PartName[i] \in Images[call[t].packet] =>
            /\ i < Place(call[t]) => Durable(call[t], PartName[i])
            /\ i = Place(call[t]) => Carried(call[t], PartName[i])

\* A slot that was switched to for a packet has its images clean in the cache.
InstalledIsClean ==
    \A s \in Slot : installed[s] \in Packets =>
        \A p \in Images[installed[s]] : cache[s][p] = installed[s] /\ flash[s][p] = installed[s]

\* A device that did not come up has nothing to write back and runs no call.
DownIsClean ==
    ~Up => cache = flash /\ misc = disk /\ \A t \in Threads : call[t].pc = "idle"

-----------------------------------------------------------------------------
\* The packet upgrade seen as the life of the metadata: only the switch is a
\* call of rk_ab_meta, and everything the upgrade does to partitions is an
\* Install of the slot that is not running.
Boots == INSTANCE AbBoot
         WITH Callers <- Threads,
              Faults <- Faults \intersect {"cmdline_open", "cmdline_read"},
              works <- Works,
              confirmed <- NoSlot,
              call <- [t \in Threads |->
                         IF call[t].pc = "switch_write"
                         THEN [op |-> "another", slot |-> call[t].told, meta |-> call[t].meta]
                         ELSE [op |-> "idle"]]

\* The detailed upgrade implements AbBoot, its fairness included, so a device
\* in the middle of an upgrade still gets back to a slot that works.
ImplementsAbBoot == Boots!FairSpec
=============================================================================
