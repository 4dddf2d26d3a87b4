------------------------------ MODULE DlFlash ------------------------------
(***************************************************************************)
(* The flash dispatch, flash/src/dl_flash.c, with its three back ends, used *)
(* by several threads the way the library itself uses it: to write an      *)
(* image to a partition (upgrade_write_partition), and to load and store a *)
(* record (ab_meta_read_data, ab_meta_write_data).  Nothing in it is locked. *)
(*                                                                         *)
(* What is written does not matter here; it is the place that does.        *)
(* Offsets count blocks of BLOCK_WRITE_LEN bytes.  Any open, read or write *)
(* may fail; the file an image is read from does not (see Upgrade).        *)
(***************************************************************************)
EXTENDS Integers, Sequences

CONSTANTS Threads,
          Partitions,
          Descriptors,  \* numbers open() may return; 0 is taken
          MaxBlocks,    \* blocks of the longest image
          HalfRange     \* offset that no longer fits an int, in blocks

ASSUME DescriptorAssumption == Descriptors \subseteq Nat \ {0}
ASSUME BlockAssumption == MaxBlocks \in Nat \ {0} /\ HalfRange \in Nat \ {0}

\* What the kernel command line says of the flash
Device == {"emmc", "nand", "nor", "other"}

\* The members of flash_ops_t, in the order dl_flash_init stores them
OpOrder == <<"open", "read", "write", "erase", "close">>
Op == {"open", "read", "write", "erase", "close"}

\* The back ends.  Those for NAND and NOR are stubs: open returns descriptor 0,
\* everything else returns 0 and does nothing.
NandDriver == "nand"
NorDriver == "nor"
Driver == [emmc |-> "block", nand |-> NandDriver, nor |-> NorDriver, other |-> "none"]
StubDescriptor == 0

Closed == "closed"
ASSUME PartitionAssumption == Closed \notin Partitions

VARIABLES
    device,     \* the flash of this device
    isInit,     \* g_flash_ctrl.is_init
    ops,        \* g_flash_ctrl.ops
    blockSize,  \* g_flash_ctrl.info.block_size, in blocks: 0 until it is set
    file,       \* the partition an open descriptor stands for
    pos,        \* its file position
    call,       \* per thread, the call it is in
    raced       \* history: the library was shut down while a thread was using it

vars == <<device, isInit, ops, blockSize, file, pos, call, raced>>
ctrl == <<isInit, ops, blockSize>>
table == <<file, pos>>

-----------------------------------------------------------------------------
Use == {"image", "load", "store"}
Block == 0 .. (MaxBlocks - 1)

\* use is what the thread does, to blocks 0 .. last of partition part; at is the
\* block it has come to; done the places it has read or written (history).
Idle == [pc |-> "idle"]
Initialising == [pc : {"init"}] \union [pc : {"fill"}, at : 1 .. Len(OpOrder) + 2]
Using == [pc : {"open", "info", "giveup", "seek", "transfer", "close", "return"}, use : Use,
          part : Partitions, last : Block, at : Block, fd : Descriptors \union {StubDescriptor},
          ret : {0, -1}, done : SUBSET (Partitions \X Nat)]

TypeOk ==
    /\ device \in Device
    /\ isInit \in BOOLEAN
    /\ ops \in [Op -> {"none", "block", "nand", "nor"}]
    /\ blockSize \in {0, 1}
    /\ file \in [Descriptors -> Partitions \union {Closed}]
    /\ pos \in [Descriptors -> Nat]
    /\ call \in [Threads -> {Idle} \union Initialising \union Using]
    /\ raced \in BOOLEAN

Init ==
    /\ device \in Device
    /\ isInit = FALSE
    /\ ops = [o \in Op |-> "none"]
    /\ blockSize = 0
    /\ file = [d \in Descriptors |-> Closed]
    /\ pos = [d \in Descriptors |-> 0]
    /\ call = [t \in Threads |-> Idle]
    /\ raced = FALSE

Goto(t, c) == call' = [call EXCEPT ![t] = c]

-----------------------------------------------------------------------------
(* dl_flash_init and dl_flash_deinit *)

InitStart(t) ==
    /\ call[t].pc = "idle"
    /\ Goto(t, [pc |-> "init"])
    /\ UNCHANGED <<device, ctrl, table, raced>>

\* The command line is read first, and the flag only then.  A line that cannot
\* be read and a flash that is not known both make the call return -1.
InitCheck(t) ==
    /\ call[t].pc = "init"
    /\ \/ Goto(t, Idle)
       \/ ~isInit /\ device # "other" /\ Goto(t, [pc |-> "fill", at |-> 1])
    /\ UNCHANGED <<device, ctrl, table, raced>>

AfterStore(c) == IF c.at < Len(OpOrder) + 2 THEN [c EXCEPT !.at = @ + 1] ELSE Idle

\* Mutated form of Fill: the flag is raised before the table is filled.
FlagFirst(t) ==
    /\ call[t].pc = "fill"
    /\ LET k == call[t].at IN
          /\ isInit' = TRUE
          /\ ops' = IF k \in DOMAIN OpOrder THEN [ops EXCEPT ![OpOrder[k]] = Driver[device]] ELSE ops
          /\ blockSize' = IF k = Len(OpOrder) + 1 /\ device = "emmc" THEN 1 ELSE blockSize
          /\ Goto(t, AfterStore(call[t]))
    /\ UNCHANGED <<device, table, raced>>

\* Mutated form of Fill: the geometry is left to the back end.
GeometryUnset(t) ==
    /\ call[t].pc = "fill"
    /\ LET k == call[t].at IN
          /\ ops' = IF k \in DOMAIN OpOrder THEN [ops EXCEPT ![OpOrder[k]] = Driver[device]] ELSE ops
          /\ isInit' = (isInit \/ k = Len(OpOrder) + 2)
          /\ Goto(t, AfterStore(call[t]))
    /\ UNCHANGED <<device, blockSize, table, raced>>

\* One store each: the five operations, the geometry (on eMMC only), the flag.
Fill(t) ==
    /\ call[t].pc = "fill"
    /\ LET k == call[t].at IN
          /\ ops' = IF k \in DOMAIN OpOrder THEN [ops EXCEPT ![OpOrder[k]] = Driver[device]] ELSE ops
          /\ blockSize' = IF k = Len(OpOrder) + 1 /\ device = "emmc" THEN 1 ELSE blockSize
          /\ isInit' = (isInit \/ k = Len(OpOrder) + 2)
          /\ Goto(t, AfterStore(call[t]))
    /\ UNCHANGED <<device, table, raced>>

\* Only the flag is cleared: the table and the geometry stay.
Deinit(t) ==
    /\ call[t].pc = "idle"
    /\ isInit' = FALSE
    /\ raced' = (raced \/ \E u \in Threads : call[u].pc \notin {"idle", "init", "fill"})
    /\ UNCHANGED <<device, ops, blockSize, table, call>>

-----------------------------------------------------------------------------
(* Using the library *)

\* The checks every call of dl_flash.c begins with
Refused(o) == ~isInit \/ ops[o] = "none"

Begin(t, use, part, last) ==
    /\ call[t].pc = "idle"
    /\ use # "image" => last = 0
    /\ Goto(t, [pc |-> "open", use |-> use, part |-> part, last |-> last, at |-> 0,
                fd |-> StubDescriptor, ret |-> -1, done |-> {}])
    /\ UNCHANGED <<device, ctrl, table, raced>>

\* rk_block_open: the kernel hands out the lowest descriptor that is free.
BlockOpen(part, d) ==
    /\ file[d] = Closed
    /\ \A e \in Descriptors : file[e] = Closed => d <= e
    /\ file' = [file EXCEPT ![d] = part]
    /\ pos' = [pos EXCEPT ![d] = 0]

\* dl_flash_open_by_name
Open(t) ==
    /\ call[t].pc = "open"
    /\ LET opened(d) == [call[t] EXCEPT !.fd = d, !.pc = IF call[t].use = "image" THEN "info" ELSE "seek"]
       IN \/ /\ Refused("open") \/ ops["open"] = "block"
             /\ Goto(t, [call[t] EXCEPT !.pc = "return"])
             /\ UNCHANGED table
          \/ /\ ~Refused("open") /\ ops["open"] # "block"
             /\ Goto(t, opened(StubDescriptor))
             /\ UNCHANGED table
          \/ /\ ~Refused("open") /\ ops["open"] = "block"
             /\ \E d \in Descriptors : BlockOpen(call[t].part, d) /\ Goto(t, opened(d))
    /\ UNCHANGED <<device, ctrl, raced>>

\* dl_flash_get_info in upgrade_do_write; a geometry of 0 counts as a failure.
Info(t) ==
    /\ call[t].pc = "info"
    /\ Goto(t, [call[t] EXCEPT !.pc = IF isInit /\ blockSize # 0 THEN "seek" ELSE "giveup"])
    /\ UNCHANGED <<device, ctrl, table, raced>>

\* The offset lseek64 returns is kept in an int and tested for its sign.
IsNegative(block) == (block \div HalfRange) % 2 = 1

Ends(c, r) == [c EXCEPT !.pc = "close", !.ret = r]

\* The next turn of the loop in upgrade_do_write; a record has one block only.
NextBlock(c) == IF c.at < c.last THEN [c EXCEPT !.pc = "seek", !.at = @ + 1] ELSE Ends(c, 0)

Verb(c) == IF c.use = "load" THEN "read" ELSE "write"
Dispatched(c) == ~Refused(Verb(c)) /\ (c.use = "image" => ~Refused("erase"))
IsOpen(d) == d \in Descriptors /\ file[d] # Closed

\* dl_flash_erase, which erases nothing, and dl_flash_read or dl_flash_write as
\* far as the seek of rk_block_read or rk_block_write.  A stub is done at once.
Seek(t) ==
    /\ call[t].pc = "seek"
    /\ LET c == call[t] IN
       \/ /\ ~Dispatched(c)
          /\ Goto(t, Ends(c, -1))
          /\ UNCHANGED pos
       \/ /\ Dispatched(c) /\ ops[Verb(c)] # "block"
          /\ Goto(t, NextBlock(c))
          /\ UNCHANGED pos
       \/ /\ Dispatched(c) /\ ops[Verb(c)] = "block" /\ ~IsOpen(c.fd)
          /\ Goto(t, Ends(c, -1))
          /\ UNCHANGED pos
       \/ /\ Dispatched(c) /\ ops[Verb(c)] = "block" /\ IsOpen(c.fd)
          /\ pos' = [pos EXCEPT ![c.fd] = c.at]
          /\ Goto(t, IF IsNegative(c.at) THEN Ends(c, -1) ELSE [c EXCEPT !.pc = "transfer"])
    /\ UNCHANGED <<device, ctrl, file, raced>>

\* Mutated form of Transfer: a short write counts as a write.
TransferIgnoresShort(t) ==
    /\ call[t].pc = "transfer"
    /\ LET c == call[t] IN
       \/ Goto(t, NextBlock(c)) /\ UNCHANGED pos
       \/ /\ IsOpen(c.fd)
          /\ pos' = [pos EXCEPT ![c.fd] = @ + 1]
          /\ Goto(t, NextBlock([c EXCEPT !.done = @ \union {<<file[c.fd], pos[c.fd]>>}]))
    /\ UNCHANGED <<device, ctrl, file, raced>>

\* The read or write of rk_block_read and rk_block_write, at the position the
\* descriptor has by now; when it fails or comes short, the loop ends.
Transfer(t) ==
    /\ call[t].pc = "transfer"
    /\ LET c == call[t] IN
       \/ Goto(t, Ends(c, -1)) /\ UNCHANGED pos
       \/ /\ IsOpen(c.fd)
          /\ pos' = [pos EXCEPT ![c.fd] = @ + 1]
          /\ Goto(t, NextBlock([c EXCEPT !.done = @ \union {<<file[c.fd], pos[c.fd]>>}]))
    /\ UNCHANGED <<device, ctrl, file, raced>>

\* rk_block_close: the number is free from then on, whoever uses it.
BlockClose(d) == file' = IF IsOpen(d) THEN [file EXCEPT ![d] = Closed] ELSE file

\* dl_flash_close
CloseDescriptor(d) ==
    IF ~Refused("close") /\ ops["close"] = "block" THEN BlockClose(d) ELSE UNCHANGED file

\* upgrade_do_write closes the descriptor of its caller when it has no geometry.
GiveUp(t) ==
    /\ call[t].pc = "giveup"
    /\ CloseDescriptor(call[t].fd)
    /\ Goto(t, Ends(call[t], -1))
    /\ UNCHANGED <<device, ctrl, pos, raced>>

\* Mutated form of Close: only a call that went well closes its descriptor.
CloseOnSuccess(t) ==
    /\ call[t].pc = "close"
    /\ IF call[t].ret = 0 THEN CloseDescriptor(call[t].fd) ELSE UNCHANGED file
    /\ Goto(t, [call[t] EXCEPT !.pc = "return"])
    /\ UNCHANGED <<device, ctrl, pos, raced>>

\* Its result is ignored.
Close(t) ==
    /\ call[t].pc = "close"
    /\ CloseDescriptor(call[t].fd)
    /\ Goto(t, [call[t] EXCEPT !.pc = "return"])
    /\ UNCHANGED <<device, ctrl, pos, raced>>

Return(t) ==
    /\ call[t].pc = "return"
    /\ Goto(t, Idle)
    /\ UNCHANGED <<device, ctrl, table, raced>>

-----------------------------------------------------------------------------
Next ==
    \E t \in Threads :
       \/ InitStart(t) \/ InitCheck(t) \/ Fill(t) \/ Deinit(t)
       \/ \E use \in Use, part \in Partitions, last \in Block : Begin(t, use, part, last)
       \/ Open(t) \/ Info(t) \/ Seek(t) \/ Transfer(t)
       \/ GiveUp(t) \/ Close(t) \/ Return(t)

Spec == Init /\ [][Next]_vars

-----------------------------------------------------------------------------
(* Properties *)

\* Whoever sees the library initialised sees the whole table of the device's own
\* back end, and the geometry on eMMC, although nothing is locked and another
\* thread may be filling it or shutting it down (dl_flash_init raises the flag
\* last, and fills in the same values each time).
TableFitsDevice ==
    isInit => /\ device # "other"
              /\ \A o \in Op : ops[o] = Driver[device]
              /\ device = "emmc" => blockSize # 0

\* A thread that has opened a partition keeps its descriptor until it closes it,
\* and no two threads share one, unless the library was shut down meanwhile: the
\* second close after upgrade_do_write has given up (dl_upgrade.c:140 and :213)
\* never closes the descriptor of another thread.
DescriptorKept ==
    ~raced /\ device = "emmc" =>
        \A t \in Threads : call[t].pc \in {"info", "giveup", "seek", "transfer", "close"} =>
            /\ IsOpen(call[t].fd) /\ file[call[t].fd] = call[t].part
            /\ \A u \in Threads \ {t} :
                  call[u].pc \in {"info", "giveup", "seek", "transfer", "close"}
                      => call[u].fd # call[t].fd

\* Nothing is read from or written to a place that was not asked for, offsets
\* beyond the range of an int included (emmc_flash.c:42-48, :69-75).
NothingAstray ==
    ~raced => \A t \in Threads : call[t].pc \in {"seek", "transfer", "close", "return"} =>
                  call[t].done \subseteq {call[t].part} \X (0 .. call[t].last)

\* An image that was written without an error was written to its last block, on
\* every device: what cannot be stored, on a stub or beyond the range of an int,
\* is an error and not a silent success (dl_upgrade.c:138, emmc_flash.c:43).  A
\* record has no such promise: the stubs accept it and store nothing.
SuccessIsComplete ==
    ~raced => \A t \in Threads :
        (call[t].pc = "return" /\ call[t].use = "image" /\ call[t].ret = 0)
            => {call[t].part} \X (0 .. call[t].last) \subseteq call[t].done

\* Every path through the library, error paths included, closes what it opened.
NothingLeaks ==
    (~raced /\ \A t \in Threads : call[t].pc \in {"idle", "init", "fill", "open", "return"})
        => \A d \in Descriptors : file[d] = Closed

\* The inductive invariant behind TableFitsDevice: a thread that fills the table
\* finds every earlier store of its own still in place.
TableInv ==
    /\ TableFitsDevice
    /\ \A t \in Threads : call[t].pc = "fill" =>
          /\ device # "other"
          /\ \A k \in 1 .. Len(OpOrder) : k < call[t].at => ops[OpOrder[k]] = Driver[device]
          /\ call[t].at = Len(OpOrder) + 2 /\ device = "emmc" => blockSize # 0

\* The inductive invariant behind the others, while the library is not shut down
\* under its users.  Who has opened a partition finds the library initialised; on
\* eMMC it has a descriptor of its own, on a stub none, and gets no further with
\* an image.
Holding(c) == c.pc \in {"info", "giveup", "seek", "transfer", "close"}

HoldsOwn(c) ==
    Holding(c) =>
        /\ isInit
        /\ device = "emmc" => c.pc # "giveup" /\ IsOpen(c.fd) /\ file[c.fd] = c.part
        /\ device # "emmc" => /\ c.pc # "transfer" /\ c.fd \notin Descriptors
                              /\ c.pc = "seek" => c.use # "image"

\* What it has done so far is the part it was asked for, up to the block it is at.
KeepsToPart(c) ==
    c.pc \notin {"idle", "init", "fill"} =>
        /\ c.at <= c.last /\ c.done \subseteq {c.part} \X (0 .. c.last)
        /\ c.pc \notin {"close", "return"} => c.ret = -1
        /\ c.pc \in {"open", "info"} => c.at = 0
        /\ c.pc = "transfer" => pos[c.fd] = c.at
        /\ c.pc \in {"seek", "transfer"} /\ device = "emmc" =>
              {c.part} \X (0 .. (c.at - 1)) \subseteq c.done
        /\ c.pc \in {"close", "return"} /\ c.use = "image" /\ c.ret = 0 =>
              {c.part} \X (0 .. c.last) \subseteq c.done

UseInv ==
    ~raced =>
        /\ \A t \in Threads : HoldsOwn(call[t]) /\ KeepsToPart(call[t])
        /\ \A t, u \in Threads :
              t # u /\ device = "emmc" /\ Holding(call[t]) /\ Holding(call[u])
                  => call[t].fd # call[u].fd
        /\ \A d \in Descriptors :
              file[d] # Closed => \E t \in Threads : Holding(call[t]) /\ call[t].fd = d

\* A stub has no geometry.
GeometryIsOfBlocks == device # "emmc" => blockSize = 0
=============================================================================
