------------------------------ MODULE MtdFlash ------------------------------
(***************************************************************************)
(* flash/src/mtd_flash.c: reading, writing and erasing a raw NAND          *)
(* partition around its bad blocks, one context at a time, as the misc     *)
(* partition is used.  One action per turn of the loops of mtd_read_data,  *)
(* mtd_write_data and of read_block and write_block below them.            *)
(*                                                                         *)
(* A partition has N blocks of E units.  The units of the data are         *)
(* numbered 1, 2, ... in the order in which the callers hand them over, so *)
(* that every misplaced, lost or repeated unit shows.  Positions count     *)
(* blocks: the code only uses multiples of the erase size.  The            *)
(* consumed and stored counters of the contexts are the lengths of the     *)
(* unread rest and of the filled part of the block buffer.                 *)
(***************************************************************************)
EXTENDS Integers, FiniteSets, SequencesExt

CONSTANTS N, E,
          MaxUnits,      \* bound: units handed over in all
          MaxCall,       \* bound: units of one call
          MaxFaults      \* bound: blocks that are bad, weak or decayed

ASSUME SizeAssumption == N \in Nat \ {0} /\ E \in Nat \ {0}
ASSUME BoundAssumption == MaxUnits \in Nat /\ MaxCall \in Nat /\ MaxFaults \in Nat

Block == 0 .. N - 1

\* Units that are no caller's data: padding, erased flash, a failed write.
Zero == 0
Erased == -1
Torn == -2
Unit == Torn .. MaxUnits
Fill(u) == [i \in 1 .. E |-> u]

VARIABLES
    device,     \* the flash: its faulty blocks and what its driver does
    content,    \* content[b]: the units of block b
    taken,      \* units handed over so far
    writer,     \* MtdWriteContext and where its owner is in the library
    reader,     \* MtdReadContext, likewise
    closed      \* history: the stream of the last context that was closed without error

vars == <<device, content, taken, writer, reader, closed>>

\* bad are marked blocks; weak ones may fail a write twice; decayed ones hold
\* data that ECC cannot correct.  query: MEMGETBADBLOCK is supported.  counts:
\* a read that fails may raise the count of ECC failures too.
Device == [bad : SUBSET Block, weak : SUBSET Block, decayed : SUBSET Block,
           query : BOOLEAN, counts : BOOLEAN]

NoWriter == [at |-> "closed", then |-> "write_data", fd |-> 0, pos |-> 0, stored |-> <<>>,
             bad_block_offsets |-> <<>>, rest |-> <<>>, blocks |-> 0, closing |-> FALSE,
             failed |-> FALSE, stream |-> <<>>, placed |-> <<>>]
NoReader == [at |-> "closed", fd |-> 0, lag |-> FALSE, buffer |-> <<>>, want |-> 0,
             failed |-> FALSE, got |-> <<>>, seen |-> <<>>]
NoStream == [valid |-> FALSE, stream |-> <<>>, placed |-> <<>>, given |-> {}]

Writer == [at : {"closed", "open", "write_data", "erase_blocks", "write_block"},
           then : {"write_data", "erase_blocks"}, fd : 0 .. N, pos : 0 .. N,
           stored : Seq(Unit), bad_block_offsets : Seq(Block), rest : Seq(Unit), blocks : -1 .. N,
           closing : BOOLEAN, failed : BOOLEAN, stream : Seq(Unit), placed : Seq(Block)]
Reader == [at : {"closed", "open", "read_data", "read_block"}, fd : 0 .. N, lag : BOOLEAN,
           buffer : Seq(Unit), want : 0 .. MaxCall, failed : BOOLEAN, got : Seq(Unit), seen : Seq(Block)]

TypeOk ==
    /\ device \in Device
    /\ content \in [Block -> [1 .. E -> Unit]]
    /\ taken \in 0 .. MaxUnits
    /\ writer \in Writer /\ Len(writer.stored) <= E
    /\ reader \in Reader /\ Len(reader.buffer) <= E

Init ==
    /\ device \in {d \in Device : /\ d.decayed = {} /\ d.bad \intersect d.weak = {}
                                  /\ Cardinality(d.bad \union d.weak) <= MaxFaults
                                  /\ ~d.query => d.bad = {}}
    /\ content = [b \in Block |-> IF b \in device.bad THEN Fill(Torn) ELSE Fill(Erased)]
    /\ taken = 0
    /\ writer = NoWriter /\ reader = NoReader /\ closed = NoStream

-----------------------------------------------------------------------------
(* Writing *)

WriterStep(at) == writer.at = at /\ UNCHANGED <<reader>>

\* mtd_write_partition.  The contents of an earlier stream are up for change.
OpenWrite ==
    /\ WriterStep("closed") /\ reader.at = "closed" /\ taken < MaxUnits
    /\ writer' = [NoWriter EXCEPT !.at = "open"]
    /\ closed' = NoStream
    /\ UNCHANGED <<device, content, taken>>

\* Entry of mtd_write_data.  After an error the callers only close the context.
HandOver(units) ==
    /\ WriterStep("open") /\ ~writer.failed
    /\ writer' = [writer EXCEPT !.at = "write_data", !.rest = units, !.stream = @ \o units]
    /\ UNCHANGED <<device, content, closed>>

WriteData(n) ==
    /\ taken + n <= MaxUnits
    /\ taken' = taken + n
    /\ HandOver([i \in 1 .. n |-> taken + i])

\* Partial blocks are collected in the buffer.
Coalesce ==
    /\ WriterStep("write_data")
    /\ writer.rest # <<>> /\ Len(writer.stored) < E
    /\ writer.stored # <<>> \/ Len(writer.rest) < E
    /\ LET n == Min({Len(writer.rest), E - Len(writer.stored)}) IN
       writer' = [writer EXCEPT !.stored = @ \o SubSeq(writer.rest, 1, n),
                                !.rest = SubSeq(@, n + 1, Len(@))]
    /\ UNCHANGED <<device, content, taken, closed>>

EnterWriteBlock(then) ==
    /\ writer' = [writer EXCEPT !.at = "write_block", !.then = then, !.pos = writer.fd]
    /\ UNCHANGED <<device, content, taken, closed>>

FlushBuffer == WriterStep("write_data") /\ Len(writer.stored) = E /\ EnterWriteBlock("write_data")

\* Complete blocks are written from the caller's buffer.
WriteDirect ==
    /\ WriterStep("write_data")
    /\ writer.stored = <<>> /\ Len(writer.rest) >= E
    /\ EnterWriteBlock("write_data")

WriteReturns ==
    /\ WriterStep("write_data")
    /\ writer.rest = <<>> /\ Len(writer.stored) < E
    /\ writer' = [writer EXCEPT !.at = "open"]
    /\ UNCHANGED <<device, content, taken, closed>>

\* Entry of mtd_erase_blocks, from a caller or from mtd_write_close.
EraseBlocks(n) ==
    /\ WriterStep("open") /\ ~writer.failed
    /\ writer' = [writer EXCEPT !.at = "erase_blocks", !.blocks = n]
    /\ UNCHANGED <<device, content, taken, closed>>

WriteClose ==
    /\ WriterStep("open")
    /\ writer' = [writer EXCEPT !.at = "erase_blocks", !.blocks = 0, !.closing = TRUE]
    /\ UNCHANGED <<device, content, taken, closed>>

PadAndFlush ==
    /\ WriterStep("erase_blocks")
    /\ writer.stored # <<>>
    /\ EnterWriteBlock("erase_blocks")

\* Where a context goes that leaves mtd_erase_blocks; an error of an earlier
\* write is known to the owner.
GivenUp(w) == Range(w.bad_block_offsets) \ device.bad
LeaveErase(w) ==
    IF w.closing
    THEN /\ writer' = NoWriter
         /\ closed' = IF w.failed THEN NoStream
                      ELSE [valid |-> TRUE, stream |-> w.stream, placed |-> w.placed,
                            given |-> GivenUp(w)]
    ELSE writer' = [w EXCEPT !.at = "open", !.blocks = 0] /\ UNCHANGED closed

\* Mutated forms of EraseTargets: marked blocks included; counted from the start.
EraseTargetsAll(w) ==
    {b \in Block : w.fd <= b /\ (w.blocks < 0 \/ b < w.fd + w.blocks)}
EraseTargetsFromStart(w) ==
    {b \in Block : w.blocks < 0 \/ b < w.blocks} \ device.bad

\* Bad blocks are counted but left alone.
EraseTargets(w) ==
    {b \in Block : w.fd <= b /\ (w.blocks < 0 \/ b < w.fd + w.blocks)} \ device.bad

\* A failed erase is not reported, and the descriptor stays where it was.
EraseRange ==
    /\ WriterStep("erase_blocks")
    /\ writer.stored = <<>> /\ writer.blocks <= N - writer.fd
    /\ \E failing \in SUBSET (EraseTargets(writer) \intersect device.weak) :
         LET erased == EraseTargets(writer) \ failing IN
         /\ content' = [b \in Block |-> IF b \in erased THEN Fill(Erased) ELSE content[b]]
         /\ device' = [device EXCEPT !.decayed = @ \ erased]
    /\ LeaveErase(writer)
    /\ UNCHANGED taken

EraseTooMany ==
    /\ WriterStep("erase_blocks")
    /\ writer.stored = <<>> /\ writer.blocks > N - writer.fd
    /\ LeaveErase(writer)
    /\ UNCHANGED <<device, content, taken>>

-----------------------------------------------------------------------------
(* write_block: the loop over the blocks from the descriptor's position *)

\* Mutated form of Padding: a whole block of it.
PadsWholeBlock(w) == IF w.then = "erase_blocks" THEN Fill(Zero) ELSE <<>>

Padding(w) == IF w.then = "erase_blocks" THEN [i \in 1 .. E - Len(w.stored) |-> Zero] ELSE <<>>

\* Mutated form of Direct: what the buffer holds is not looked at.
DirectIgnoresBuffer(w) == w.then = "write_data" /\ Len(w.rest) >= E

Direct(w) == w.stored = <<>>
BlockData(w) == IF Direct(w) THEN SubSeq(w.rest, 1, E) ELSE w.stored \o Padding(w)

\* Mutated forms of Skip: the block is not remembered; the loop stays.
SkipForgets(w) == [w EXCEPT !.pos = @ + 1]
SkipStays(w) == [w EXCEPT !.bad_block_offsets = <<w.pos>>]

\* add_bad_block_offset, and on to the next block
Skip(w) == [w EXCEPT !.pos = @ + 1, !.bad_block_offsets = Append(@, w.pos)]

WriteMarked == writer.pos \in device.bad
AtBlock == WriterStep("write_block") /\ writer.pos < N

SkipMarked ==
    /\ AtBlock /\ WriteMarked
    /\ writer' = Skip(writer)
    /\ UNCHANGED <<device, content, taken, closed>>

\* Erased, written and verified in one of two tries; the descriptor is behind it.
BlockWritten ==
    /\ AtBlock /\ ~WriteMarked
    /\ content' = [content EXCEPT ![writer.pos] = BlockData(writer)]
    /\ device' = [device EXCEPT !.decayed = @ \ {writer.pos}]
    /\ writer' = [writer EXCEPT
                    !.at = writer.then, !.fd = writer.pos + 1,
                    !.stored = <<>>,
                    !.rest = IF Direct(writer) THEN SubSeq(@, E + 1, Len(@)) ELSE @,
                    !.stream = @ \o Padding(writer),
                    !.placed = Append(@, writer.pos)]
    /\ UNCHANGED <<taken, closed>>

\* Both tries failed.  The block is erased once more, whatever comes of it, and
\* left out; nothing on the device tells the next reader.
GiveUpBlock ==
    /\ AtBlock /\ ~WriteMarked /\ writer.pos \in device.weak
    /\ \E residue \in {content[writer.pos], Fill(Erased), Fill(Torn), BlockData(writer)} :
         content' = [content EXCEPT ![writer.pos] = residue]
    /\ writer' = Skip(writer)
    /\ UNCHANGED <<device, taken, closed>>

\* ENOSPC.  The descriptor is wherever the last failed try left it.
OutOfSpace ==
    /\ WriterStep("write_block") /\ writer.pos = N
    /\ \E fd \in writer.fd .. N :
         LET w == [writer EXCEPT !.fd = fd, !.failed = TRUE] IN
         IF w.then = "erase_blocks"
         THEN LeaveErase(w)
         ELSE writer' = [w EXCEPT !.at = "open"] /\ UNCHANGED closed
    /\ UNCHANGED <<device, content, taken>>

-----------------------------------------------------------------------------
(* Reading *)

ReaderStep(at) == reader.at = at /\ UNCHANGED <<device, content, taken, writer, closed>>

\* mtd_read_partition
OpenRead ==
    /\ ReaderStep("closed") /\ writer.at = "closed"
    /\ reader' = [NoReader EXCEPT !.at = "open"]

\* Entry of mtd_read_data
ReadData(n) ==
    /\ ReaderStep("open") /\ ~reader.failed
    /\ reader' = [reader EXCEPT !.at = "read_data", !.want = n]

CopyBuffered ==
    /\ ReaderStep("read_data") /\ reader.want > 0 /\ reader.buffer # <<>>
    /\ LET n == Min({reader.want, Len(reader.buffer)}) IN
       reader' = [reader EXCEPT !.got = @ \o SubSeq(reader.buffer, 1, n),
                                !.buffer = SubSeq(@, n + 1, Len(@)), !.want = @ - n]

\* A whole block goes to the caller, a block of which only part is wanted to the
\* buffer.  read_block takes the count of ECC failures afresh.
EnterReadBlock ==
    /\ ReaderStep("read_data") /\ reader.want > 0 /\ reader.buffer = <<>>
    /\ reader' = [reader EXCEPT !.at = "read_block", !.lag = FALSE]

ReadReturns ==
    /\ ReaderStep("read_data") /\ reader.want = 0
    /\ reader' = [reader EXCEPT !.at = "open"]

InReadBlock == ReaderStep("read_block") /\ reader.fd < N
Unreadable == reader.fd \in device.decayed \union device.bad

\* Mutated form of ReadMarked: the marks are not asked for.
ReadMarkedNever == ~device.query

ReadMarked == reader.fd \in device.bad \/ ~device.query

\* The read fails: on to the next block, without a look at the ECC counts.
ReadError ==
    /\ InReadBlock /\ Unreadable
    /\ \E counted \in {FALSE, device.counts} :
         reader' = [reader EXCEPT !.fd = @ + 1, !.lag = @ \/ counted]

\* Mutated form of EccFailure: the count to compare with is not brought up to date.
EccKeepsBaseline ==
    /\ InReadBlock
    /\ Unreadable \/ reader.lag
    /\ reader' = [reader EXCEPT !.fd = @ + 1, !.lag = TRUE]

\* The count of ECC failures is not what it was: on to the next block.
EccFailure ==
    /\ InReadBlock
    /\ Unreadable \/ reader.lag
    /\ reader' = [reader EXCEPT !.fd = @ + 1, !.lag = FALSE]

\* Mutated form of ReadSkipsMarked: a marked block ends the read.
ReadStopsAtMarked ==
    /\ InReadBlock /\ reader.fd \notin device.decayed /\ ~reader.lag /\ ReadMarked
    /\ reader' = [reader EXCEPT !.fd = N]

\* Unlike the writer, the reader takes an unsupported query for a bad block.
ReadSkipsMarked ==
    /\ InReadBlock /\ reader.fd \notin device.decayed /\ ~reader.lag /\ ReadMarked
    /\ reader' = [reader EXCEPT !.fd = @ + 1]

BlockRead ==
    /\ InReadBlock /\ reader.fd \notin device.decayed /\ ~reader.lag /\ ~ReadMarked
    /\ reader' = [reader EXCEPT
                    !.at = "read_data", !.fd = @ + 1,
                    !.got = IF reader.want < E THEN @ ELSE @ \o content[reader.fd],
                    !.buffer = IF reader.want < E THEN content[reader.fd] ELSE @,
                    !.want = IF reader.want < E THEN @ ELSE @ - E,
                    !.seen = Append(@, reader.fd)]

ReadFails ==
    /\ ReaderStep("read_block") /\ reader.fd = N
    /\ reader' = [reader EXCEPT !.at = "open", !.failed = TRUE]

\* mtd_read_close
ReadClose == ReaderStep("open") /\ reader' = NoReader

\* External: data that nobody uses decays.
Decay(b) ==
    /\ writer.at = "closed" /\ reader.at = "closed" /\ b \notin device.bad
    /\ Cardinality(device.bad \union device.weak \union device.decayed \union {b}) <= MaxFaults
    /\ device' = [device EXCEPT !.decayed = @ \union {b}]
    /\ UNCHANGED <<content, taken, writer, reader, closed>>

WriterSteps ==
    \/ Coalesce \/ FlushBuffer \/ WriteDirect \/ WriteReturns
    \/ PadAndFlush \/ EraseRange \/ EraseTooMany
    \/ SkipMarked \/ BlockWritten \/ GiveUpBlock \/ OutOfSpace

ReaderSteps ==
    \/ CopyBuffered \/ EnterReadBlock \/ ReadReturns
    \/ ReadError \/ EccFailure \/ ReadSkipsMarked \/ BlockRead \/ ReadFails

Calls ==
    \/ OpenWrite \/ WriteClose \/ OpenRead \/ ReadClose
    \/ \E n \in 1 .. MaxCall : WriteData(n) \/ ReadData(n)
    \/ \E n \in -1 .. N : EraseBlocks(n)

Next == WriterSteps \/ ReaderSteps \/ Calls \/ \E b \in Block : Decay(b)

Spec == Init /\ [][Next]_vars

-----------------------------------------------------------------------------
\* mtd_find_write_start: one pass over the offsets, in the order of their discovery.
\* scan[n] is the position after n of them, found that the loop has returned it.
Scan(bads, pos) ==
    LET scan[n \in 0 .. Len(bads)] ==
          IF n = 0 THEN [pos |-> pos, found |-> FALSE]
          ELSE LET at == scan[n - 1] IN
               [pos |-> IF ~at.found /\ bads[n] = at.pos THEN at.pos + 1 ELSE at.pos,
                found |-> at.found \/ bads[n] > at.pos]
    IN scan
FindWriteStart(bads, pos) == Scan(bads, pos)[Len(bads)].pos

-----------------------------------------------------------------------------
(* Properties *)

Agree(s, t) == IsPrefix(s, t) \/ IsPrefix(t, s)

\* The writer's blocks, its buffer and the rest of the caller's data are together
\* the stream it was given, in order and without loss, and it only moves forward:
\* over short and long calls, bad blocks, blocks given up, and padding.
WrittenInOrder ==
    /\ writer.at # "closed" =>
          LET written == E * Len(writer.placed) IN
          /\ Len(writer.stream) = written + Len(writer.stored) + Len(writer.rest)
          /\ \A k \in DOMAIN writer.placed, u \in 1 .. E :
                content[writer.placed[k]][u] = writer.stream[E * (k - 1) + u]
          /\ \A u \in DOMAIN writer.stored : writer.stored[u] = writer.stream[written + u]
          /\ \A u \in DOMAIN writer.rest :
                writer.rest[u] = writer.stream[written + Len(writer.stored) + u]
    /\ \A i, j \in DOMAIN writer.placed : i < j => writer.placed[i] < writer.placed[j]

\* Behind the writer every block either holds its data or is in its list of bad
\* blocks, and the list is sorted: what mtd_find_write_start needs to answer
\* with the first block that holds data, for every block behind the writer.
FindsWriteStart ==
    (writer.at = "open" /\ ~writer.failed) =>
        \A p \in 0 .. writer.fd - 1 :
            FindWriteStart(writer.bad_block_offsets, p) =
                Min({b \in p .. N : b = writer.fd \/ b \in Range(writer.placed)})

\* A write fails only when every block holds data of its stream or was found bad
\* or given up: "skips bad blocks as best we can" (mtd_flash.h:38).
FailsOnlyWhenFull ==
    writer.failed =>
        Block = Range(writer.placed) \union Range(writer.bad_block_offsets)

\* On a device whose driver answers the bad-block query, and as long as no block
\* was given up or decayed, what a reader gets is the stream that was closed:
\* whatever the sizes of the calls on both sides.
RoundTrip ==
    (/\ closed.valid /\ closed.given = {}
     /\ device.decayed = {} /\ ~device.counts) => Agree(reader.got, closed.stream)

\* With blocks given up a reader gets them too, as blocks of the stream; nothing
\* else comes between, no block of the stream is passed over, and all come in order.
StraysOnlyGivenUp ==
    (closed.valid /\ device.decayed = {} /\ ~device.counts) =>
        /\ \A b \in Range(reader.seen), last \in Range(closed.placed) :
              b < last => b \in Range(closed.placed) \union closed.given
        /\ device.query => \A b \in Range(closed.placed) : b < reader.fd => b \in Range(reader.seen)
        /\ \A i, j \in DOMAIN reader.seen : i < j => reader.seen[i] < reader.seen[j]

\* The partition fails to be read to the end only for want of readable blocks.
ReadFailsOnlyAtEnd ==
    (reader.failed /\ device.query /\ ~device.counts) =>
        Block = Range(reader.seen) \union device.bad \union device.decayed

\* No step of the library touches a block that is marked bad.
BadBlocksSpared == [][\A b \in device.bad : content'[b] = content[b]]_vars

\* A reader passes over a good block only right after a read that failed: the
\* ECC count it compares with is then older than that read.
SkipsAreJustified ==
    [][(/\ reader.fd' = reader.fd + 1 /\ reader.seen' = reader.seen /\ device.query
        /\ reader.fd \notin device.bad \union device.decayed)
       => device.counts /\ reader.fd - 1 \in device.bad \union device.decayed]_vars

-----------------------------------------------------------------------------
(* The inductive invariants behind them *)

\* One context is open at a time, and a closed one keeps nothing.
OneContext ==
    /\ writer.at = "closed" => writer = NoWriter
    /\ reader.at = "closed" => reader = NoReader
    /\ writer.at = "closed" \/ reader.at = "closed"

\* What is left of the caller's data, and what the buffer holds, at each place.
\* Outside of mtd_write_data there is data left only after a write that failed.
WriterShape ==
    /\ (\/ writer.at \in {"open", "erase_blocks"}
        \/ writer.at = "write_block" /\ writer.then = "erase_blocks")
          => \/ writer.rest = <<>>
             \/ writer.failed /\ (writer.stored = <<>> \/ Len(writer.stored) = E)
    /\ writer.at = "write_block" =>
          IF Direct(writer) THEN writer.then = "write_data" /\ Len(writer.rest) >= E
                            ELSE writer.then = "write_data" => Len(writer.stored) = E

\* The blocks with data are behind the descriptor, the loop is not.
WriterAhead ==
    /\ \A k \in DOMAIN writer.placed : writer.placed[k] < writer.fd
    /\ writer.at = "write_block" => writer.fd <= writer.pos

\* Every block the writer has passed holds data or is in its list.
Position == IF writer.at = "write_block" THEN writer.pos ELSE writer.fd
PassedAccounted ==
    /\ FailsOnlyWhenFull
    /\ ~writer.failed =>
          \A b \in Block : b < Position => b \in Range(writer.placed) \union Range(writer.bad_block_offsets)

\* The count of ECC failures lags behind only after a read that failed.
LagJustified ==
    reader.lag => device.counts /\ reader.fd - 1 \in device.bad \union device.decayed

\* Every block the reader has passed was read, or could not be.
SeenAccounted ==
    /\ reader.failed => reader.fd = N
    /\ (reader.at # "closed" /\ device.query /\ ~device.counts) =>
          \A b \in Block : b < reader.fd =>
              b \in Range(reader.seen) \union device.bad \union device.decayed

\* A context that has passed n blocks and used n of them has used them all.
Dense(blocks, n) ==
    Len(blocks) <= n /\ (Len(blocks) = n => \A k \in 1 .. n : blocks[k] = k - 1)

\* While nothing failed, the list of bad blocks is sorted and behind the loop, and
\* none of them holds data; blocks with data are never marked.
ListInOrder ==
    /\ ~writer.failed =>
          LET bads == writer.bad_block_offsets IN
          /\ \A i, j \in DOMAIN bads : i < j => bads[i] < bads[j]
          /\ \A i \in DOMAIN bads : bads[i] < Position
          /\ Range(bads) \intersect Range(writer.placed) = {}
    /\ Range(writer.placed) \intersect device.bad = {}
    /\ Dense(writer.placed, writer.fd)

\* The stream of a closed context stays where it was written: the blocks between
\* its own are marked or were given up.
ClosedKept ==
    closed.valid =>
        /\ writer.at = "closed" /\ closed.stream \in Seq(Unit) /\ closed.placed \in Seq(Block)
        /\ Len(closed.stream) = E * Len(closed.placed)
        /\ \A k \in DOMAIN closed.placed, u \in 1 .. E :
              content[closed.placed[k]][u] = closed.stream[E * (k - 1) + u]
        /\ \A i, j \in DOMAIN closed.placed : i < j => closed.placed[i] < closed.placed[j]
        /\ Range(closed.placed) \intersect (device.bad \union closed.given) = {}
        /\ \A last \in Range(closed.placed), b \in Block :
              b < last => b \in Range(closed.placed) \union device.bad \union closed.given
        /\ Dense(closed.placed, N)

\* What a reader has got, with its buffer behind it, is what the blocks it has seen
\* hold, in their order; it used no block that it took for marked.
GotOrBuffered(i) ==
    IF i <= Len(reader.got) THEN reader.got[i] ELSE reader.buffer[i - Len(reader.got)]
ReadInOrder ==
    /\ reader.at = "read_block" => reader.buffer = <<>> /\ reader.want > 0
    /\ Len(reader.got) + Len(reader.buffer) = E * Len(reader.seen)
    /\ \A k \in DOMAIN reader.seen, u \in 1 .. E :
          GotOrBuffered(E * (k - 1) + u) = content[reader.seen[k]][u]
    /\ \A k \in DOMAIN reader.seen : reader.seen[k] < reader.fd
    /\ \A i, j \in DOMAIN reader.seen : i < j => reader.seen[i] < reader.seen[j]
    /\ \A b \in Range(reader.seen) : device.query /\ b \notin device.bad
    /\ Dense(reader.seen, reader.fd)
=============================================================================
