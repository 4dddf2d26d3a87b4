------------------------------ MODULE MiscMtd ------------------------------
(***************************************************************************)
(* readMisc_mtd and writeMisc_mtd of ota/src/bootloader.c: how the legacy  *)
(* tool reads and writes the misc partition of a raw NAND device.  Both    *)
(* read the whole partition; the writer replaces a range of it and writes  *)
(* the whole partition back in place.  The library below is MtdFlash, with *)
(* every step of it; a power cut can come between any two.                 *)
(*                                                                         *)
(* The units of the partition are versions of its fields: 1 for what was   *)
(* there, a fresh number for every range that is written.                  *)
(***************************************************************************)
EXTENDS MtdFlash

CONSTANTS Ranges,        \* ranges [first, last] of units the callers use
          Pages          \* units in the 20 pages, 24k, of the comments

Size == N * E            \* total_size, and the number of units read and written

ASSUME RangeAssumption ==
    /\ Ranges \subseteq [first : 1 .. Size, last : 1 .. Size]
    /\ \A r \in Ranges : r.first <= r.last
ASSUME PagesAssumption == Pages \in 1 .. Size /\ Size <= MaxCall
ASSUME UnitAssumption == MaxUnits > 0      \* for the units that were there

VARIABLES tool,      \* the call of readMisc_mtd or writeMisc_mtd
          before,    \* history: the partition as the last write found it, and its range
          known,     \* history: what a read must give, <<>> when nothing is promised
          cut        \* history: the power failed during the last write

toolVars == <<tool, before, known, cut>>
allVars == <<vars, tool, before, known, cut>>

NoRange == [first |-> 0, last |-> 0]
NoTool == [pc |-> "idle", op |-> "read", range |-> NoRange, data |-> <<>>, ret |-> 0]

\* External: a partition that was programmed in the factory, faults and all
MiscInit ==
    /\ device \in {d \in Device : /\ d.decayed \intersect (d.bad \union d.weak) = {}
                                  /\ d.bad \intersect d.weak = {}
                                  /\ Cardinality(d.bad \union d.weak \union d.decayed) <= MaxFaults
                                  /\ d.query}
    /\ content = [b \in Block |-> Fill(1)]
    /\ taken = 1
    /\ writer = NoWriter /\ reader = NoReader /\ closed = NoStream
    /\ tool = NoTool /\ cut = FALSE
    /\ known = [i \in 1 .. Size |-> 1]
    /\ before \in [data : {known}, range : Ranges]

Tool == [pc : {"idle", "opened", "reading", "write", "patch", "writing", "closing"},
         op : {"read", "write"}, range : Ranges \union {NoRange}, data : Seq(Unit), ret : {0, -1}]

MiscTypeOk ==
    /\ tool \in Tool
    /\ known \in Seq(Unit) /\ (known = <<>> \/ Len(known) = Size)
    /\ before \in [data : [1 .. Size -> Unit], range : Ranges]
    /\ cut \in BOOLEAN

-----------------------------------------------------------------------------
(* The calls.  The library's own steps run in between. *)

At(pc) == tool.pc = pc
Return(op, ret) == [NoTool EXCEPT !.op = op, !.ret = ret, !.data = reader.got]

Begin(op, range) ==
    /\ At("idle") /\ OpenRead
    /\ op = "write" => taken < MaxUnits
    /\ tool' = [NoTool EXCEPT !.pc = "opened", !.op = op, !.range = range]
    /\ UNCHANGED <<before, known, cut>>

ReadAll ==
    /\ At("opened") /\ ReadData(Size)
    /\ tool' = [tool EXCEPT !.pc = "reading"]
    /\ UNCHANGED <<before, known, cut>>

\* Fewer bytes than the partition has, or the end of a read
ReadEnds ==
    /\ At("reading") /\ ReadClose
    /\ reader.failed \/ tool.op = "read"
    /\ tool' = Return(tool.op, IF reader.failed THEN -1 ELSE 0)
    /\ UNCHANGED <<before, known, cut>>

ReadForWrite ==
    /\ At("reading") /\ ReadClose
    /\ ~reader.failed /\ tool.op = "write"
    /\ tool' = [tool EXCEPT !.pc = "write", !.data = reader.got]
    /\ UNCHANGED <<before, known, cut>>

BeginWrite ==
    /\ At("write") /\ OpenWrite
    /\ tool' = [tool EXCEPT !.pc = "patch"]
    /\ before' = [data |-> tool.data, range |-> tool.range]
    /\ known' = <<>> /\ cut' = FALSE

\* Mutated form of Patched: the range begins one unit early.
PatchedEarly ==
    [i \in 1 .. Size |-> IF tool.range.first - 1 <= i /\ i <= tool.range.last THEN taken + 1 ELSE tool.data[i]]

\* memcpy into the copy of the partition
Patched ==
    [i \in 1 .. Size |-> IF tool.range.first <= i /\ i <= tool.range.last THEN taken + 1 ELSE tool.data[i]]

WriteAll ==
    /\ At("patch")
    /\ taken' = taken + 1
    /\ HandOver(Patched)
    /\ tool' = [tool EXCEPT !.pc = "writing", !.data = Patched]
    /\ UNCHANGED <<before, known, cut>>

\* mtd_write_close follows, and its result counts only if the write succeeded.
WriteEnds ==
    /\ At("writing") /\ WriteClose
    /\ tool' = [tool EXCEPT !.pc = "closing", !.ret = IF writer.failed THEN -1 ELSE 0]
    /\ UNCHANGED <<before, known, cut>>

\* Mutated form of Finish: the error of the write is forgotten.
FinishIgnoresError ==
    /\ At("closing") /\ writer.at = "closed"
    /\ tool' = [NoTool EXCEPT !.op = "write"]
    /\ known' = tool.data
    /\ UNCHANGED <<vars, before, cut>>

Finish ==
    /\ At("closing") /\ writer.at = "closed"
    /\ LET ret == IF tool.ret = 0 /\ closed.valid THEN 0 ELSE -1 IN
       /\ tool' = [NoTool EXCEPT !.op = "write", !.ret = ret]
       /\ known' = IF ret = 0 THEN tool.data ELSE <<>>
    /\ UNCHANGED <<vars, before, cut>>

\* External.  The process is gone, and so is the block that was being written:
\* as it was, erased, written in part or completely written.
PowerCut ==
    /\ ~At("idle")
    /\ IF writer.at = "write_block" /\ writer.pos \in Block \ device.bad
       THEN \E u \in {content[writer.pos], Fill(Erased), Fill(Torn), BlockData(writer)} :
              content' = [content EXCEPT ![writer.pos] = u]
       ELSE UNCHANGED content
    /\ writer' = NoWriter /\ reader' = NoReader /\ closed' = NoStream
    /\ tool' = NoTool /\ cut' = TRUE
    /\ UNCHANGED <<device, taken, before, known>>

Library == (WriterSteps \/ ReaderSteps) /\ UNCHANGED toolVars

ToolSteps ==
    \/ ReadAll \/ ReadEnds \/ ReadForWrite \/ BeginWrite \/ WriteAll \/ WriteEnds \/ Finish

MiscNext ==
    \/ Library \/ ToolSteps \/ PowerCut
    \/ Begin("read", NoRange) \/ \E r \in Ranges : Begin("write", r)

MiscSpec == MiscInit /\ [][MiscNext]_allVars /\ WF_allVars(Library) /\ WF_allVars(ToolSteps)

-----------------------------------------------------------------------------
(* Properties *)

\* After a write that returned 0, a read that returns 0 gives what was written
\* and, around it, what was there: on every device, with bad, weak and decayed
\* blocks, because whole partitions are moved and any block left out is an error.
ReadsWhatWasWritten ==
    (At("idle") /\ tool.op = "read" /\ tool.ret = 0 /\ tool.data # <<>> /\ known # <<>>) =>
        tool.data = known

\* A unit that is not the caller's range: the other tool's record in the partition
Outside(r) == {i \in 1 .. Size : i < r.first \/ r.last < i}
BlockOf(i) == (i - 1) \div E
Partition == [i \in 1 .. Size |-> content[BlockOf(i)][((i - 1) % E) + 1]]

\* On flash without weak blocks a write leaves everything outside its range as it
\* was at all times, but for the one block a power cut can destroy.  The record
\* the boot loader needs shares the partition with the other messages.
OthersKept ==
    device.weak = {} =>
        Cardinality({BlockOf(i) : i \in {j \in Outside(before.range) :
                                            Partition[j] # before.data[j]}})
            <= IF cut THEN 1 ELSE 0

\* "Reads 20 pages, 24k" (comment at bootloader.c:228 and :273): a read succeeds
\* as long as the good blocks hold that much.
TwentyPagesSuffice ==
    (At("idle") /\ tool.op = "read" /\ tool.ret = -1) =>
        Cardinality(Block \ (device.bad \union device.decayed)) * E < Pages

\* Every call of the tool returns, or the power fails.
ToolReturns == ~At("idle") ~> At("idle")

-----------------------------------------------------------------------------
(* The inductive invariant behind them *)

\* Whole partitions are moved: a read has the rest of it to come, and the block
\* buffer of a write stays empty.
ReadsAll ==
    /\ reader.at # "closed"
    /\ IF reader.failed THEN reader.at = "open"
       ELSE Len(reader.got) + reader.want = Size /\ (reader.at = "open" => reader.want = 0)
WritesAll == writer.stored = <<>> /\ writer.stream = tool.data

\* Where the library is during each part of a call.
CallState ==
    /\ tool.pc \in {"idle", "opened", "reading", "write"} => writer = NoWriter
    /\ tool.pc \notin {"opened", "reading"} => reader = NoReader
    /\ At("opened") => reader = [NoReader EXCEPT !.at = "open"]
    /\ At("reading") => ReadsAll
    /\ At("patch") => writer = [NoWriter EXCEPT !.at = "open"] /\ taken < MaxUnits
    /\ At("writing") => WritesAll /\ writer.at \in {"open", "write_data", "write_block"} /\ ~writer.closing
    /\ At("closing") => \/ writer = NoWriter
                        \/ WritesAll /\ writer.at = "erase_blocks" /\ writer.closing /\ writer.blocks = 0
    /\ At("closing") /\ closed.valid => closed.stream = tool.data

\* What the tool holds of the partition.  It writes only what it has read as a whole,
\* and that is possible only without bad blocks.
Writing == tool.pc \in {"write", "patch", "writing", "closing"}
DataState ==
    /\ device.query
    /\ known # <<>> => known = Partition /\ tool.pc \in {"idle", "opened", "reading", "write"}
    /\ (At("idle") /\ tool.op = "read" /\ tool.ret = 0 /\ tool.data # <<>>) => tool.data = Partition
    /\ Writing => device.bad = {} /\ tool.data \in [1 .. Size -> Unit] /\ tool.op = "write"
    /\ At("write") \/ At("patch") => tool.data = Partition
    /\ At("patch") => before.data = tool.data /\ before.range = tool.range
    /\ At("writing") \/ At("closing") =>
          \A i \in Outside(before.range) : tool.data[i] = before.data[i]
    /\ tool.op = "write" /\ ~At("idle") => tool.range \in Ranges

\* Without weak blocks nothing is skipped: every unit goes back to where it was.
OutsideKept ==
    /\ tool.pc \in {"patch", "writing", "closing"} => ~cut
    /\ device.weak = {} =>
          /\ At("writing") => Len(writer.placed) = Position
          /\ \E b \in Block : \A i \in Outside(before.range) :
                (~cut \/ BlockOf(i) # b) => Partition[i] = before.data[i]

MiscInv == MiscTypeOk /\ CallState /\ DataState /\ OutsideKept
=============================================================================
