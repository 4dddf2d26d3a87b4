# A/B updates of linux_ota, specified

This directory holds TLA+ models of the A/B update library in this repository,
of the flash code below it and of the older OTA tool, the TLC configurations that
check them on small instances, and proofs of the main properties that TLAPS
checks for every value of the constants.

## The system

A device has two copies of its software, slot a and slot b. The misc partition
holds a small record, the A/B metadata, from which the boot loader chooses the
slot to boot. An update writes the slot that is not running and then switches
the metadata to it.

| part | source | state it keeps | operations that matter |
|---|---|---|---|
| A/B metadata | `ab_meta/src/rk_ab_meta.c` | misc partition, offset 2048: two slot records, `last_boot`, CRC | `rk_ab_meta_active_current_slot`, `rk_ab_meta_active_another_slot`, `rk_ab_meta_get_current_slot`, `rk_ab_meta_get_running_slot` |
| packet upgrade | `upgrade/src/dl_upgrade.c` | `g_upgrade_ctrl` (initialised flag, directories, unused mutex), files in the temporary directory | `rk_upgrade_init`, `rk_upgrade_packet` |
| flash dispatch | `flash/src/dl_flash.c` | `g_flash_ctrl`: initialised flag, table of operations, geometry | init, deinit, open, read, write, erase, close, get_info |
| eMMC, NAND, NOR back ends | `flash/src/{emmc,nand,nor}_flash.c` | descriptors of block devices; NAND and NOR are stubs | as above |
| MTD access | `flash/src/mtd_flash.c` | partition table, per-handle position, bad-block offsets | scan and look-up by name, read and write skipping bad blocks, erase |
| legacy OTA tool | `ota/src/bootloader.c`, `ota/src/md5sum.c` | misc partition, images in the save directory | `setSlotSucceed`, `setSlotActivity`, `miscUpdate`, `readMisc_mtd`, `writeMisc_mtd` |
| command line tool | `test/main.c` | none | one library call per invocation |
| utilities | `test/utils`, `test/app_log` | semaphore, pipe, list | wait and signal, put and get |
| event hub, OpenSSL | `test/eventhub`, `test/openssl` | prebuilt or vendored | publish an event; MD5 |

How they interact. The tool calls `rk_upgrade_packet`. It runs `tar`, calls
`sync`, and writes `uboot`, `boot` and `system` through the flash dispatch to
the eMMC block devices of the other slot, with an `fsync` each. Then it calls
`rk_ab_meta_active_another_slot`, which reads the metadata through the same
dispatch, changes it and writes it back, without `fsync`. The result is
published on the event hub. The boot loader, which is not in this repository,
reads the metadata at every boot.

The legacy tool has the same metadata at the same place. On block devices it
reads and writes it directly; on raw NAND it goes through `mtd_flash.c`, which
skips bad blocks, and writes partitions with `flash_erase` and `nandwrite`. Only
the tests call the utilities. `main.c` has two versions of `main`; the one that is
compiled calls the library, the other one the legacy tool.

What is hard. Any step can be the last one before a power cut, and the page
cache decides what of it survives. Several invocations of the tool, or threads
of an application, may be inside the library at once: nothing takes the mutex
that `g_upgrade_ctrl` declares. Most calls can fail, and several of the failures
are answered with success. `PROJECT.json` lists each hazard with its line and
the properties that cover it.

What makes each part correct.

- Metadata: always sealed by a valid checksum; a switch selects the new slot, can
  be undone by the boot loader, and gives the new slot a bounded number of tries;
  before the switch a reset returns to the running slot; a device with a working
  slot a always comes back.
- Upgrade: the running slot is never written; nothing is switched to unless it is
  completely on the medium; a failure prevents the switch; success means switched.
- Flash dispatch: no thread sees half a table, descriptors are neither lost nor
  confused, nothing lands where it was not sent, and what cannot be stored is an
  error.
- MTD access: a name leads to the partition that carries it now, what is read back
  is what was written, marked blocks are never touched, and a write fails only for
  want of blocks.
- Legacy tool: an update is on the medium before the switch, the switch goes to
  the slot that was written, the running slot is spared, other records of the
  misc partition survive a write to it.
- Utilities: no post of the semaphore is served twice or left lying, and a wait
  with a deadline ends.

## The modules

| module | models |
|---|---|
| `AbMeta` | pure part of `rk_ab_meta.c`: which slot a metadata record selects and what the two updates turn it into |
| `AbBoot` | EXTENDS `AbMeta`; the record over boots, crashes and concurrent callers; the abstract specification of an update |
| `Upgrade` | EXTENDS `AbMeta`; `rk_upgrade_packet` step by step, with its storage; implements `AbBoot` |
| `DlFlash` | `dl_flash.c` and its three back ends, used by several threads |
| `Crc32` | EXTENDS `AbMeta`; the checksum as computed, and assumptions that justify the ideal one of `AbMeta` |
| `MtdFlash` | `mtd_flash.c`: reading, writing and erasing around bad blocks |
| `MtdScan` | `mtd_flash.c`: the table of partitions, its scan and the look-up by name |
| `MiscMtd` | EXTENDS `MtdFlash`; `readMisc_mtd` and `writeMisc_mtd` on top of it, with power cuts |
| `LegacyOta` | EXTENDS `AbMeta`; the three commands of the legacy tool |
| `PtSem` | `pt_semaphoer.c`: the counting semaphore and its waits |
| `MC...` | values of the constants for TLC |
| `AbMetaProofs` | lemmas about the operators of `AbMeta` |
| `AbBootProofs`, `UpgradeProofs`, `DlFlashProofs`, `MtdFlashProofs`, `MtdScanProofs`, `LegacyOtaProofs`, `PtSemProofs` | theorems about the state machines; those of `MtdFlashProofs` are about `MtdFlash` and `MiscMtd` |

### AbMeta

A slot record has `priority`, `tries_remaining` and `successful_boot`. The
checksum is an ideal digest: the field holds the content it was computed from.
This keeps what matters, whether it was computed after the last change, and
leaves out the CRC polynomial, which `Crc32` adds. `magic`, versions and reserved bytes are never
written by the code. `last_boot` is set to the return value of the read in both
updates (`ReadOk`, which is 0), as in the source.

### Crc32

`Crc` is `ab_meta_crc32` with its table, a word being four bytes. Three
assumptions, which TLC evaluates in run `boot`, tie it to the rest: each entry of
the table is the remainder of the polynomial it stands for; the checksum of
"123456789" is the one CRC-32 is known by; and no two of the 9216 metadata
contents that the library, the legacy tool and a boot loader can make have the
same checksum. The last is what `AbMeta` relies on when it keeps the content in
place of the checksum.

### AbBoot

`misc` is the metadata as a process reads it, `disk` what survives a power cut.
A call is two steps, `Begin...` up to the write and `Commit...` from it, because
another process can run between the read and the write; `Abandon` is a failed
write or a killed process. `Install` stands for whatever an upgrade does to the
slot that is not running. `Reset` drops all that was not written back; `Boot` is
the boot loader. `works` is the set of slots whose software comes up.

The boot loader is external: it is modelled from the fields `rk_ab_meta.h`
documents. It chooses as `get_current_slot` does and spends one try of a slot
that is not marked successful.

`promised`, `confirmed` and `attempts` are history variables: where a switch of
this boot leads, which slot was confirmed, and how many boots a slot had since it
was last switched to. `SwitchStands` follows `promised`: with overlapping callers only
a confirmation that read the metadata before a switch and writes it back after it
(`Stale`) takes the new slot off trial.

### Upgrade

One action per step of `rk_upgrade_packet` between two calls that another thread,
a failure or a power cut can separate: `Start` (argument checks, running slot),
`Unpack`, `Sync`, then per partition `SkipPart`, `OpenPart`, `WriteBlock`,
`WriteLastBlock`, `Fsync`, `Close`, and at last `SwitchRead`, `SwitchWrite`,
`Return`. The error paths are actions of their own, enabled by the members of the
constant `Faults`. `cache` and `temp` are what processes see, `flash` and
`tempDisk` what survives. A partition or an image holds the packet it came from,
or `Damaged` when it is a mixture, cut short or empty. An image that stays in the
temporary directory after a failure is there for the next packet, which installs
it if it lacks one of its own. Blocks are counted as
first, second and later, because the code treats end of file at the second block
differently (`dl_upgrade.c:154`).

`Boots == INSTANCE AbBoot WITH ...` is the refinement mapping: a partition write
is an `Install`, the switch is the one call of the metadata library, and a slot
works while all of its partitions are complete on the medium.

### DlFlash

`isInit`, `ops` and `blockSize` are the fields of `g_flash_ctrl`. `Fill` is one
store of `dl_flash_init` at a time, because nothing keeps another thread from
looking in between. A thread that uses the library does what
`upgrade_write_partition` (an `image`) or `ab_meta_read_data` and
`ab_meta_write_data` (a `load` or `store`) do: `Open`, `Info`, then `Seek` and
`Transfer` per block, `Close`. `GiveUp` is the close in `upgrade_do_write` that
comes before the one of its caller. `file` and `pos` are the descriptor table of
the process, which hands out the lowest free number; `done` records the places a
call has really read or written. Offsets count blocks, and `HalfRange` is the one
at which the result of `lseek64` turns negative as an `int`.

### MtdFlash

`writer` and `reader` are the two contexts of the library with the step their
owner has come to: `write_data`, `erase_blocks` and `write_block` are the loops of
`mtd_write_data`, `mtd_erase_blocks` and `write_block`, likewise for the reader,
and an action is one turn of one loop. `fd` is the file position of the context,
`stored` its block buffer, `rest` what is left of the caller's data. The units
handed over are numbered, so a lost, repeated or misplaced one shows. `device` is
the flash: `bad` blocks are marked, `weak` ones may fail to be written, `decayed`
ones can no longer be read (`Decay` makes more of them between calls), `query` and
`counts` say whether the driver answers the bad-block query and whether it counts
a read that failed as an ECC failure. `FindWriteStart` is `mtd_find_write_start`:
`Scan` gives the position after each entry of the list of bad blocks, and whether
the loop has returned. `stream` and `placed` (writer), `got` and
`seen` (reader) are history: what was handed over, the blocks that hold it, what
was read back and from which blocks.

### MtdScan

`listing` is `/proc/mtd`, a name per number, and `Relist` changes it at any
time. `ScanReset` empties the table, `ScanRead` takes what fits in the buffer, in
which the last line may be lost or cut, `ScanLine` stores one line; each can fail,
and `Find` answers whatever the scan returned, as `readMisc_mtd` and
`writeMisc_mtd` let it. `strings` counts the names allocated and not freed, `seen`
is what the last scan read, and `Ascending` lists the numbers the way the kernel
does.

### MiscMtd

`tool` is a call of `readMisc_mtd` or `writeMisc_mtd`, whose own steps are one
library call each; all steps of the library run in between. The writer reads the
partition, replaces a range, and writes the whole partition back in place.
`PowerCut` ends everything between any two steps and leaves the block in work as
it was, erased, torn or written.

### LegacyOta

`SucceedRead` and `SucceedWrite` are `setSlotSucceed`; `OtherRead`, `SwitchRead`
and `SwitchWrite` are `setSlotActivity`, called for itself or at the end of
`miscUpdate`; the rest is `miscUpdate`. A partition goes through `OpenPart`,
`WritePart`, `Fsync` and one of the three outcomes of the comparison. On NAND
(`mtd`) it goes straight to the medium, and no result of a write is looked at.
`overlooked` lists the partitions of which a failure went unnoticed. Two things
differ from the library: the slot the metadata selects is taken for the running
one, and each step reads it afresh.

### PtSem

What `pt_semaphoer.c` does between lock and unlock is one action. `thread` says
whether a thread sleeps on the condition or is on its way back to the mutex, and
what the timed wait last returned. `Post` is `pt_sem_signal`, which wakes any one
sleeper, and `pt_sem_broadcast`; `Expire`, `TimeOut` and `Spurious` are the clock
and the thread library. `Nsec8` computes the deadline as the code does, a factor
of ten too large and cut to 32 bits: if it is no valid time, the loop of the timed
wait spins with the mutex held (`Spin`). `misspent` counts the posts whose wake-up
went to `pt_sem_wait`, which returns without looking at the counter.

## The runs

| run | instance | checks | distinct states |
|---|---|---|---|
| `boot` | 2 callers, priority 15 and 7 tries as in the source, the command line may be unreadable or misread | `AttemptsBounded`, `ResetKeepsSlot`, `SwitchStands`, inductive invariant `IInv`, liveness `ReturnsToWorkingSlot`; the assumptions of `Crc32` | 545 thousand |
| `boot_confirm` | 1 caller | violated: `ConfirmationIsRecorded` | |
| `upgrade_durable` | 1 thread, 2 packets, one of which lacks an image of the other, storage faults | `SwitchIsDurable`, `FailureBlocksSwitch`, `SwitchLeavesNoImage` | 1.3 million |
| `upgrade_returns` | 1 thread, 1 packet with 1 image, all faults but a misread command line | liveness `CallReturns`, refinement `ImplementsAbBoot` with fairness | 102 thousand |
| `upgrade_threads` | 2 threads, 2 packets | `SuccessIsSwitched`, `RunningSlotUntouched` | 1.1 million |
| `flash_threads` | 2 threads, 2 partitions, every kind of flash, images up to 3 blocks, an `int` that holds 2 | `TableFitsDevice`, `DescriptorKept`, `NothingAstray`, `SuccessIsComplete`, `NothingLeaks` | 1.3 million |
| `mtd_stream` | 3 blocks of 2 units, up to 2 of them faulty, calls of up to 4 units, 5 in all | types, `WrittenInOrder`, `FindsWriteStart`, `FailsOnlyWhenFull`, `RoundTrip`, `StraysOnlyGivenUp`, `ReadFailsOnlyAtEnd`, `BadBlocksSpared`, `SkipsAreJustified` | 5.5 million |
| `mtd_scan` | 3 numbers, 3 names of which one starts with another, a buffer for 2 lines | `FoundIsCurrent`, `MissedIsAbsent`, `NamesAccounted` | 67 thousand |
| `misc_patch` | the same flash, 2 writes of 2 records, power cuts | `ReadsWhatWasWritten`, `OthersKept`, liveness `ToolReturns` | 505 thousand |
| `misc_pages` | the same, 1 faulty block | violated: `TwentyPagesSuffice` | |
| `legacy_update` | 1 process, block device and NAND, packet with 1 image, all or one partition selected, all faults, 2 tries | types, `UpdateIsDurable`, `SwitchNamesTarget`, `ConfirmIsRecorded`, `RunningSlotSpared` | 1.1 million |
| `sem` | 3 threads, 3 posts, deadlines that are always, at times and never valid | `PostsServeOnce`, `NoStrandedPost`, liveness `TimedWaitReturns` | 24 thousand |

Why the bounds are enough.

- Slots are two in the code. In the `AbBoot` runs the two constants have the
  values of the source, and nothing else is bounded: the state space is finite.
- In `Upgrade` the number of tries is 1, in `LegacyOta` 2; the code only
  compares it with 0 and the boot loader counts it down, and how it is counted is
  checked with 7 in the `AbBoot` runs. The number of blocks is not bounded in
  `Upgrade` (the third stands for all later ones). A packet can be installed any
  number of times, and over the boots both slots become targets. With two packets,
  {boot, system} and {boot}, the second may find the `system` the first left. Two
  threads are the smallest number that overlaps; the proofs cover any number.
- In `DlFlash` two threads are enough for one to get a descriptor that the other
  has closed; images of 1, 2 and 3 blocks are shorter than, as long as and longer
  than what an `int` can address.
- In `MtdFlash` a block has two units, so that calls are shorter than, as long as
  and longer than a block, and the buffer is empty, half full and full. Of three
  blocks none, one or two adjacent or separate ones are faulty, which leaves too
  few, just enough or more than enough of them. `MaxUnits` lets the last block be
  partial.
- In `MtdScan` the order of the lines, gaps in the numbers, equal names and a
  buffer that is too small all occur with three numbers; a second scan after any
  end of the first shows what it leaves behind.
- In `PtSem` three threads are needed for a thread to take the post another one was
  woken for; the proofs cover any number of threads and posts.
- `LegacyOta` has one process: with two, `SwitchNamesTarget` is false. Two images
  on both kinds of device take longer than a run should, and the loop does the
  same for each.

Two properties are violated. They are what comments of the code say:

- `ConfirmationIsRecorded`: `last_boot` is "the flag of the slot that last booted
  successfully" and `successful_boot` is "non-zero if this slot has booted
  successfully" (`rk_ab_meta.h`). `rk_ab_meta_active_current_slot` stores in the
  first the return value of the read, always 0, and does not set the second, nor
  does any other function. So a healthy slot spends a try at each boot, and when
  every try is spent the fallback is slot a, even on a device whose only working
  slot is b.
- `TwentyPagesSuffice`: "Reads 20 pages, 24k" (`bootloader.c:228`, `:273`). The
  whole partition is read, and one bad block makes every read and write of misc
  fail from then on.

`ReturnsToWorkingSlot` is therefore stated for devices whose slot a works.

Fairness. In `AbBoot` and `Upgrade`, `Boot` and `Reset` of a device that is not up
are weakly fair: power comes back, and a slot that does not come up is reset by
its watchdog. In `Upgrade` every started call goes on: no step of it waits for
another thread. In `MiscMtd` the steps of the library and those of the tool are
weakly fair: it is one thread that runs through both. In `PtSem` time passes, and
a thread that was woken gets the mutex when nobody keeps it; the mutex of the code
is held for a few statements only, but for the spinning wait. Nobody has to start
a call or to post, and no fault has to happen or to stop happening. The other
modules assume no fairness and state no liveness.

## What is proved

The theorems hold for every value of the constants that the named assumptions of
the modules allow:

- `AbBoot`, `Upgrade`, `LegacyOta`: any set of callers, threads or processes, any
  packets, images and faults, `MaxPriority >= 2`, `MaxTries >= 1`;
- `DlFlash`: any threads, any set of partitions, any set of descriptors other than
  0, images of any length, an `int` of any range. A partition is not the marker
  for none (`PartitionAssumption`);
- `MtdScan`: any numbers and names and a buffer of any size. The marker for no
  partition is not a line of the table;
- `MtdFlash`: at least one block of at least one unit, calls of any size, any
  number of faulty blocks;
- `MiscMtd`: the same flash, any ranges within the partition, any number of calls
  and power cuts. The bound on the units of a call is at least the partition's size,
  and the bound on versions leaves room for the first one (`PagesAssumption`,
  `UnitAssumption`);
- `PtSem`: any finite set of threads, any number of posts, any deadlines.

| theorem | states |
|---|---|
| `AbBootProofs!TypeCorrect` | `TypeOk` |
| `AbBootProofs!Inductive` | `IInv` |
| `AbBootProofs!ChecksumCorrect` | `CrcCoversContent` |
| `AbBootProofs!TrialIsBounded` | `AttemptsBounded` |
| `AbBootProofs!ResetIsSafe` | `ResetKeepsSlot` |
| `AbBootProofs!SwitchIsUndoneOnlyByStaleCopies` | `SwitchStands` |
| `AbBootProofs!SwitchIsKept` | `SwitchHolds`, for one caller at a time |
| `AbBootProofs!SwitchIsOnTrial` | `SwitchFallsBack`, for one caller at a time |
| `UpgradeProofs!TypeCorrect` | `TypeOk` |
| `UpgradeProofs!RunningSlotIsSafe` | `RunningSlotUntouched`, if the command line is not misread |
| `UpgradeProofs!FailureIsFinal` | `FailureBlocksSwitch` |
| `UpgradeProofs!SuccessIsTrue` | `SuccessIsSwitched`, if neither the command line nor misc fails |
| `UpgradeProofs!SwitchIsTidy` | `SwitchLeavesNoImage`, for one call at a time, if images can be opened |
| `UpgradeProofs!SwitchIsSafe` | `SwitchIsDurable`, for one call at a time, without the five faults the code takes for success |
| `UpgradeProofs!UpgradeBoots` | `Boots!Spec`: the upgrade implements `AbBoot`, fairness apart, if the command line is not misread |
| `UpgradeProofs!UpgradeInherits` | `CrcCoversContent`, `AttemptsBounded` and `ResetKeepsSlot` of `AbBoot`, for the upgrade |
| `DlFlashProofs!TypeCorrect` | `TypeOk` |
| `DlFlashProofs!TableIsComplete` | `TableFitsDevice` |
| `DlFlashProofs!UseInductive` | `UseInv` |
| `DlFlashProofs!DescriptorStays` | `DescriptorKept` |
| `DlFlashProofs!NothingIsAstray` | `NothingAstray` |
| `DlFlashProofs!SuccessMeansComplete` | `SuccessIsComplete` |
| `DlFlashProofs!NothingIsLeaked` | `NothingLeaks` |
| `MtdScanProofs!TypeCorrect` | `TypeOk` |
| `MtdScanProofs!ScanInductive` | `ScanInv` |
| `MtdScanProofs!NamesAreAccounted` | `NamesAccounted` |
| `MtdScanProofs!FoundMeansCurrent` | `FoundIsCurrent` |
| `MtdScanProofs!MissedMeansAbsent` | `MissedIsAbsent` |
| `MtdFlashProofs!TypeCorrect` | `TypeOk` |
| `MtdFlashProofs!BaseInductive` | `TypeOk`, `OneContext` and `WriterShape` |
| `MtdFlashProofs!NothingIsLostOrMoved` | `WrittenInOrder` |
| `MtdFlashProofs!WriteFailsWhenFull` | `FailsOnlyWhenFull` |
| `MtdFlashProofs!FailsOnlyAtEnd` | `ReadFailsOnlyAtEnd` |
| `MtdFlashProofs!BadBlocksAreSpared` | `BadBlocksSpared` |
| `MtdFlashProofs!SkipsJustified` | `SkipsAreJustified` |
| `MtdFlashProofs!LibInductive` | `LibInv`: all of the above with `ListInOrder`, `ClosedKept` and `ReadInOrder` |
| `MtdFlashProofs!StreamRoundTrip` | `RoundTrip` |
| `MtdFlashProofs!StraysAreGivenUp` | `StraysOnlyGivenUp` |
| `MtdFlashProofs!WriteStartFound` | `FindsWriteStart` |
| `MtdFlashProofs!MiscInductive` | `LibInv` and `MiscInv`, of `MiscSpec` |
| `MtdFlashProofs!MiscTypeCorrect` | `TypeOk` and `MiscTypeOk`, of `MiscSpec` |
| `MtdFlashProofs!MiscReadsBack` | `ReadsWhatWasWritten` |
| `MtdFlashProofs!MiscKeepsOthers` | `OthersKept` |
| `LegacyOtaProofs!TypeCorrect` | `TypeOk` |
| `LegacyOtaProofs!RunningSlotIsSpared` | `RunningSlotSpared` |
| `LegacyOtaProofs!ConfirmStays` | `ConfirmIsRecorded`, for one process at a time |
| `LegacyOtaProofs!SwitchIsToTarget` | `SwitchNamesTarget`, for one process at a time |
| `LegacyOtaProofs!UpdateIsSafe` | `UpdateIsDurable`, for one process at a time |
| `PtSemProofs!TypeCorrect` | `TypeOk` |
| `PtSemProofs!PostsAreServedOnce` | `PostsServeOnce` |
| `PtSemProofs!NoPostIsStranded` | `NoStrandedPost` |

"One at a time" is `Alone`: the set of callers has at most one member. It may
call any number of times, over any number of boots, and be killed at any step.
The restriction is the system's own: the library takes no lock, and two calls at
once mix their images in one temporary directory and one slot, or write back
metadata the other has changed.

The type invariants of `AbBoot`, `Upgrade`, `DlFlash`, `MtdScan`, `MiscMtd` and `PtSem`,
`CrcCoversContent`, `SwitchHolds` and `SwitchFallsBack` are proved and are part of
no run, except that `IInv` contains the first. The other inductive invariants were
model-checked before they were proved; they are named below and stand in the
module they are about, or in its proofs.

The arguments.

`AbBoot`. None of its safety properties is inductive: a caller may hold a copy of
the metadata from long ago. `IInv` says of every copy, the ones in callers' hands
included, that it is sealed (`CopiesSealed`) and that its remaining tries and the
boots already taken add up to at most `MaxTries` (`TriesAccounted`; a copy that is
about to switch to a slot is exempt for that slot, because the switch starts its
count anew). Before the first switch of a boot no copy differs from the medium in
its slots (`Undisturbed`). With a single caller its copy is not stale, and
`TrialInv` keeps the promised slot on trial. `SwitchStands` needs
`SwitchesOnTrial`: a copy that is about to switch has its target on trial however
old it is, so that the only write that can take a slot off trial is a stale
confirmation.

`Upgrade`. `RunsFrom` says that every call knows the slot the device runs from and
that nothing of this slot is dirty, so that neither a write-back nor a reset
changes it. `BrokeReturns` says that a call in which something failed carries
`ret = -1` out of the partition it was writing. `LeadsAway` says that every copy
of the metadata a call has switched selects the other slot, which no overlapping
switch undoes: all calls switch the same way. `StartsAtFirst` says that a call
that has not come to its partitions yet begins with the first one;
`NoImageBehind`, that the image of each partition a call has passed is gone.
`ImagesAhead` and `ReachesMedium` follow a packet to the medium: what is not
installed yet is still in the temporary directory, what was written is complete in
the page cache, and what was synced is on the medium; `InstalledIsClean` keeps it
there after the switch. For `UpgradeBoots` every
action is mapped: a partition write is an `Install`, unpacking is a stutter, the
two halves of the switch are those of `AbBoot`, and `DownIsClean` says that a
device that is down has no call under way. `UpgradeInherits` applies the theorems
of `AbBootProofs` to the mapped state.

`DlFlash`. `TableInv` says of a thread that is filling the table that all its
earlier stores are still in place: `dl_flash_deinit` clears only the flag, and
another `dl_flash_init` stores the same values. `UseInv` gives each open
descriptor one owner: a thread between its open and its last close has a
descriptor no other thread has, open on its own partition (`HoldsOwn`), and what it
has moved so far is exactly the blocks before its position (`KeepsToPart`).

`MtdScan`. `ScanInv` says that a named entry is under its own number and comes from
a line of the last read, that the lines which are not stored yet have higher
numbers than those which are, and that `strings` counts the named entries.

`MtdFlash`. `WriterShape` says what the buffer and the rest of the caller's data
can look like at each place, and decides between the direct and the buffered
write; it is why padding never comes between data. `WriterAhead`: the blocks that
hold data are behind the descriptor, so that no erase and no failed write hits
them. With both, `WrittenInOrder` is inductive. `PassedAccounted` puts every block
the writer has passed into `placed` or into its list of bad blocks;
`SeenAccounted` does so for the reader, and `LagJustified` ties a lagging ECC
count to the failed read before it.

What is read back rests on three more invariants. `ListInOrder`: while nothing has
failed, the list of bad blocks is sorted, behind the loop, and apart from the
blocks with data. `ClosedKept`: the stream of a closed context stays where it was
written, and the blocks between its own are marked or were given up. `ReadInOrder`:
what a reader has got, with its buffer behind it, is what the blocks it has seen
hold, in their order. With `SeenAccounted` this makes the reader's blocks and those
of the stream two increasing sequences, each of which holds all elements of the
other that lie below one of its own; `TwoEnumerations` shows that such sequences
agree as far as both go, and `SameStream` carries this from blocks to units, which
is `RoundTrip`. The lemma is an induction over positions. The library's induction
theorems cannot be instantiated here, so it is done by the least counterexample:
`Least` comes from `WFMin` and the order of the naturals, and `AllNumbers` is
induction for a set of numbers. The same lemmas carry `FindsWriteStart`: `ScanTurns`
shows what the recursive function `Scan` is after each entry, `SearchTurn` that one
turn of the loop keeps the position the first block not in the part of the list
that was looked at, and `FindWriteStartFacts` adds that the list is sorted.

`MiscMtd`. Every step of the tool but the power cut is a `Step` of the library, on
behalf of another caller, so `LibInv` carries over; a power cut closes both
contexts, and closed contexts are in order (`ClosedInOrder`). `MiscInv` adds where the
library is in each part of a call. Because whole partitions are moved, a read has
the rest of the partition still to come (`ReadsAll`), the buffer of a write stays
empty (`WritesAll`), and a list of blocks that is as long as the partition is all
of it: this is `Dense` in the invariants of `MtdFlash`. So a read that succeeds has
read every block, none of which is marked (`WholeRead`), and a write that returns
0 has written every block (`WholeWritten`): the tool's copy is the partition, which
is `ReadsWhatWasWritten`. Without weak blocks nothing is skipped, each unit goes back
to where it was read (`WritesOn`), and outside of its range the tool writes what was
there; a power cut reaches only the block at the writer's position (`OutsideKept`).

`LegacyOta`. `Consistent` and `Targeting` say what a process at each step has
decided. `RunsFromSelected` makes `RunningSlotSpared` inductive for any number of
processes: until something is switched, whoever has chosen a slot to write chose
the one that does not run, and nobody holds metadata that selects another.
`LastBootKept` and `TargetIsOther` say the same of the copy of the metadata the one
process holds. `ImagesCarried` follows each chosen image through its partition up
to the switch, as in `Upgrade`.

`PtSem`. `NoStrandedPost` is inductive together with the counters (`Counted`): each
step that adds a post or puts a thread to sleep also moves one between the sets of
threads that are asleep and awake.

Only model-checked:

- all liveness (`ReturnsToWorkingSlot`, `CallReturns`, `ToolReturns`,
  `TimedWaitReturns`) and the fairness part of the refinement `ImplementsAbBoot`:
  fairness and ENABLED are out of the prover's reach;
- what `Crc32` computes: its assumptions are evaluated, not proved;
- the two violated properties, which a counterexample refutes.

The properties that need a restriction say so:

- `SwitchHolds` is false for callers that overlap; `SwitchStands` says which.
- `RunningSlotUntouched` is false when an empty read of `/proc/cmdline` is
  answered with slot a (`rk_ab_meta.c:244`).
- `SuccessIsSwitched` is false when the misc partition or the command line fails,
  because the result of the switch is dropped (`dl_upgrade.c:319`).
- `SwitchIsDurable` is false for two packets at once, or when the failure of
  `tar`, `fopen`, `fread` or `fsync` is taken for success.
- `DescriptorKept`, `NothingAstray`, `SuccessIsComplete` and `NothingLeaks` are
  stated for a library that is not shut down while it is in use, as `main` does:
  otherwise a close is refused and the descriptor is lost, or the second close of
  `upgrade_do_write` hits the descriptor of another thread.
- `SuccessIsComplete` is about images. The NAND and NOR stubs accept a metadata
  record and store it nowhere.
- `SwitchLeavesNoImage` is about the packet that switches: one that fails, or a
  power cut, leaves images behind, and the next packet that lacks them installs
  them. An image that cannot be opened is passed over like one that is not there
  (`dl_upgrade.c:189`), and stays.
- `FoundIsCurrent` leaves out the line at the end of the buffer: cut short, its name
  passes for another one (`mtd_flash.c:100`).
- `NoStrandedPost` leaves out posts whose wake-up went to `pt_sem_wait`: that call
  sleeps once even if a post is there, and takes none when it wakes.
- `TimedWaitReturns` leaves out a thread that spins on an invalid deadline.
- `RoundTrip` leaves out blocks the writer gave up, which nothing marks, and
  drivers that count failed reads; `StraysOnlyGivenUp` says what is read then.
- `OthersKept` is stated for flash without weak blocks.
- `UpdateIsDurable` leaves out partitions whose `fsync` or read-back failed.
- `RunningSlotSpared` leaves out a second update after a switch in the same boot
  and a boot on the last try: in both, the metadata names the other slot.
- `ConfirmIsRecorded` is about a slot confirmed before anything was switched:
  after a switch `setSlotSucceed` records a slot that never ran
  (`bootloader.c:616`).

## Mutants

The modules hold a few mutated forms of definitions, named for their mistake
(`SwitchKeepsMark`, `FsyncDropped`, ...). No specification uses them. For every
checked property `PROJECT.json` names one that breaks it.

## What is not modelled, and the plan

Left out: logging; the event hub and OpenSSL; MD5 itself; `mtd_read_skip_to`, the
mount, the info queries and two open contexts in `mtd_flash.c`, where also sizes
are not cut to an `int` and `ECCGETSTATS` does not fail; `isMtdDevice`, which
searches a buffer it has not filled with anything if `/proc/cmdline` cannot be
read (`bootloader.c:152`), and whose answer the models take as given; the wrappers
of System V semaphores, message queues and fifos, the list macros; `miscDisplay`, the wipe and recovery messages and the
path buffers of the legacy tool; `main`, which only chooses a call; conversions and
CPU helpers. `upgrade_report_progress` and `compareMd5sum` have no caller.

The next steps, in this order: `mtd_read_skip_to` and a second open context in
`MtdFlash`; the wrappers of the message queues and fifos; a proof that the table of
`Crc32` is that of its polynomial, for which the induction of `MtdFlashProofs` would
do.
