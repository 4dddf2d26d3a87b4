--------------------------- MODULE MtdFlashProofs ---------------------------
(***************************************************************************)
(* Theorems about MtdFlash and MiscMtd, for partitions and blocks of any   *)
(* size, any calls and any faulty blocks: nothing the writer is given is   *)
(* lost or moved, a reader gets it back, each side fails only for want of  *)
(* blocks, and neither touches or passes over a block without reason.  For *)
(* the legacy tool: a write is read back, and what it was not to change    *)
(* stays, but for one block when the power fails.                          *)
(***************************************************************************)
EXTENDS MiscMtd, SequenceTheorems, FiniteSetTheorems, WellFoundedInduction, TLAPS

-----------------------------------------------------------------------------
(* Sequences *)

\* What a sequence contains after an element is put at its end.
LEMMA RangeAppend ==
    ASSUME NEW S, NEW s \in Seq(S), NEW e \in S
    PROVE  /\ Range(Append(s, e)) = Range(s) \union {e} /\ Range(s) \subseteq S
           /\ Range(<<>>) = {}
<1>1. /\ Append(s, e) \in Seq(S) /\ Len(Append(s, e)) = Len(s) + 1 /\ Len(s) \in Nat
      /\ DOMAIN s = 1 .. Len(s) /\ DOMAIN Append(s, e) = 1 .. Len(s) + 1
      /\ \A i \in 1 .. Len(s) : Append(s, e)[i] = s[i] /\ s[i] \in S
      /\ Append(s, e)[Len(s) + 1] = e
  BY AppendProperties, LenProperties, ElementOfSeq
<1>2. \A i \in 1 .. Len(s) + 1 : i \in 1 .. Len(s) \/ i = Len(s) + 1
  BY <1>1
<1>3. Range(Append(s, e)) = Range(s) \union {e}
  <2>1. \A x \in Range(Append(s, e)) : x \in Range(s) \union {e}
    BY <1>1, <1>2 DEF Range
  <2>2. \A x \in Range(s) : x \in Range(Append(s, e))
    <3>1. \A i \in 1 .. Len(s) : i \in 1 .. Len(s) + 1
      BY <1>1
    <3> QED
      BY <1>1, <3>1 DEF Range
  <2>3. e \in Range(Append(s, e))
    <3>1. Len(s) + 1 \in 1 .. Len(s) + 1
      BY <1>1
    <3> QED
      BY <1>1, <3>1 DEF Range
  <2> QED
    BY <2>1, <2>2, <2>3
<1> QED
  BY <1>1, <1>3 DEF Range

\* The smaller of two numbers.
LEMMA MinOfTwo ==
    ASSUME NEW a \in Int, NEW b \in Int
    PROVE  /\ Min({a, b}) \in {a, b} /\ Min({a, b}) <= a /\ Min({a, b}) <= b
<1>1. \E x \in {a, b} : \A y \in {a, b} : x <= y
  BY SMT
<1>2. \A y \in {a, b} : Min({a, b}) <= y
  BY <1>1 DEF Min
<1>3. Min({a, b}) \in {a, b}
  BY <1>1 DEF Min
<1> QED
  BY <1>2, <1>3

\* A sequence cut in two after n elements.
LEMMA CutFacts ==
    ASSUME NEW S, NEW s \in Seq(S), NEW n \in 0 .. Len(s)
    PROVE  /\ SubSeq(s, 1, n) \in Seq(S) /\ Len(SubSeq(s, 1, n)) = n
           /\ \A i \in 1 .. n : SubSeq(s, 1, n)[i] = s[i]
           /\ SubSeq(s, n + 1, Len(s)) \in Seq(S) /\ Len(SubSeq(s, n + 1, Len(s))) = Len(s) - n
           /\ \A i \in 1 .. Len(s) - n : SubSeq(s, n + 1, Len(s))[i] = s[n + i]
<1>1. Len(s) \in Nat /\ \A i \in 1 .. Len(s) : s[i] \in S
  BY LenProperties, ElementOfSeq
<1>2. /\ SubSeq(s, 1, n) \in Seq(S) /\ Len(SubSeq(s, 1, n)) = n
      /\ \A i \in 1 .. n : SubSeq(s, 1, n)[i] = s[i]
  <2>1. \A i \in 1 .. n : s[i] \in S
    BY <1>1
  <2>2. /\ SubSeq(s, 1, n) \in Seq(S) /\ Len(SubSeq(s, 1, n)) = IF 1 <= n THEN n - 1 + 1 ELSE 0
        /\ \A i \in 1 .. n - 1 + 1 : SubSeq(s, 1, n)[i] = s[1 + i - 1]
    BY <2>1, SubSeqProperties
  <2> QED
    BY <2>2
<1>3. /\ SubSeq(s, n + 1, Len(s)) \in Seq(S) /\ Len(SubSeq(s, n + 1, Len(s))) = Len(s) - n
      /\ \A i \in 1 .. Len(s) - n : SubSeq(s, n + 1, Len(s))[i] = s[n + i]
  <2>1. \A i \in n + 1 .. Len(s) : s[i] \in S
    BY <1>1
  <2>2. /\ SubSeq(s, n + 1, Len(s)) \in Seq(S)
        /\ Len(SubSeq(s, n + 1, Len(s))) = IF n + 1 <= Len(s) THEN Len(s) - (n + 1) + 1 ELSE 0
        /\ \A i \in 1 .. Len(s) - (n + 1) + 1 : SubSeq(s, n + 1, Len(s))[i] = s[n + 1 + i - 1]
    BY <1>1, <2>1, SubSeqProperties
  <2> QED
    BY <1>1, <2>2
<1> QED
  BY <1>2, <1>3

\* A sequence put behind another.
LEMMA ConcatFacts ==
    ASSUME NEW S, NEW s \in Seq(S), NEW t \in Seq(S)
    PROVE  /\ s \o t \in Seq(S) /\ Len(s \o t) = Len(s) + Len(t)
           /\ \A i \in 1 .. Len(s) : (s \o t)[i] = s[i]
           /\ \A u \in 1 .. Len(t) : (s \o t)[Len(s) + u] = t[u]
<1>1. Len(s) \in Nat /\ Len(t) \in Nat
  BY LenProperties
<1>2. \A i \in 1 .. Len(s) : (s \o t)[i] = s[i]
  <2> TAKE i \in 1 .. Len(s)
  <2>1. i \in 1 .. Len(s) + Len(t) /\ i <= Len(s)
    BY <1>1
  <2> QED
    BY <2>1, ConcatProperties
<1>3. \A u \in 1 .. Len(t) : (s \o t)[Len(s) + u] = t[u]
  <2> TAKE u \in 1 .. Len(t)
  <2>1. /\ Len(s) + u \in 1 .. Len(s) + Len(t) /\ ~(Len(s) + u <= Len(s))
        /\ Len(s) + u - Len(s) = u
    BY <1>1
  <2> QED
    BY <2>1, ConcatProperties
<1> QED
  BY <1>2, <1>3, ConcatProperties

\* A function on 1 .. n is a sequence of that length, and the other way round.
LEMMA BlockSeq ==
    ASSUME NEW S, NEW n \in Nat
    PROVE  /\ \A f \in [1 .. n -> S] : f \in Seq(S) /\ Len(f) = n
           /\ \A s \in Seq(S) : Len(s) = n => s \in [1 .. n -> S]
<1>1. \A f \in [1 .. n -> S] : f \in Seq(S) /\ Len(f) = n
  BY SeqDef
<1> QED
  BY <1>1, LenProperties

\* The kinds of units, and the contexts that are not open.
LEMMA UnitFacts ==
    /\ Zero \in Unit /\ Erased \in Unit /\ Torn \in Unit
    /\ \A i \in 1 .. MaxUnits : i \in Unit
    /\ \A u \in Unit : Fill(u) \in [1 .. E -> Unit]
    /\ E \in Nat /\ E > 0 /\ N \in Nat /\ N > 0
    /\ \A S : <<>> \in Seq(S) /\ Len(<<>>) = 0
BY SizeAssumption, BoundAssumption, EmptySeq DEF Zero, Erased, Torn, Unit, Fill

\* Closed contexts are contexts.
LEMMA ClosedTyped ==
    /\ NoWriter \in Writer /\ NoReader \in Reader
    /\ Len(NoWriter.stored) <= E /\ Len(NoReader.buffer) <= E
<1>1. NoWriter \in Writer
  <2>1. <<>> \in Seq(Unit) /\ <<>> \in Seq(Block) /\ 0 \in 0 .. N /\ 0 \in -1 .. N
    BY UnitFacts
  <2> QED
    BY <2>1 DEF NoWriter, Writer
<1>2. NoReader \in Reader
  <2>1. <<>> \in Seq(Unit) /\ <<>> \in Seq(Block) /\ 0 \in 0 .. N /\ 0 \in 0 .. MaxCall
    BY UnitFacts, BoundAssumption
  <2> QED
    BY <2>1 DEF NoReader, Reader
<1> QED
  BY <1>1, <1>2, UnitFacts DEF NoWriter, NoReader

-----------------------------------------------------------------------------
(* The reader's steps *)

ReaderMoves ==
    \/ CopyBuffered \/ EnterReadBlock \/ ReadReturns
    \/ ReadError \/ EccFailure \/ ReadSkipsMarked \/ BlockRead \/ ReadFails
    \/ OpenRead \/ ReadClose \/ \E n \in 1 .. MaxCall : ReadData(n)

\* What a step of the reader can do to its position, to what it has seen and to
\* how far its ECC count is behind.
ReaderCases ==
    \/ reader' = NoReader
    \/ reader'.at = "open" /\ reader' = [NoReader EXCEPT !.at = "open"]
    \/ /\ reader.at # "closed" /\ reader'.fd = reader.fd /\ reader'.seen = reader.seen
       /\ reader'.lag \in {reader.lag, FALSE} /\ reader'.failed = reader.failed
    \/ /\ reader.at = "read_block" /\ reader.fd = N /\ reader'.fd = reader.fd /\ reader'.failed
       /\ reader'.seen = reader.seen /\ reader'.lag = reader.lag
    \/ /\ reader.at = "read_block" /\ reader.fd \in Block /\ reader'.fd = reader.fd + 1
       /\ reader'.failed = reader.failed /\ reader'.seen = reader.seen
       /\ \/ Unreadable /\ reader'.lag \in {reader.lag, device.counts}
          \/ (Unreadable \/ reader.lag) /\ ~reader'.lag
          \/ ReadMarked /\ ~reader.lag /\ ~reader'.lag
    \/ /\ reader.at = "read_block" /\ reader.fd \in Block /\ reader'.fd = reader.fd + 1
       /\ reader'.failed = reader.failed /\ reader'.seen = Append(reader.seen, reader.fd)
       /\ ~reader'.lag

\* Every step of mtd_read_data and read_block is one of those cases, keeps the
\* reader's type and touches nothing but the reader.
LEMMA ReaderFacts ==
    ASSUME TypeOk, ReaderMoves
    PROVE  /\ reader' \in Reader /\ Len(reader'.buffer) <= E
           /\ reader'.at = "closed" => reader' = NoReader
           /\ writer.at = "closed" \/ reader.at # "closed"
           /\ ReaderCases /\ UNCHANGED <<device, content, taken, writer, closed>>
<1>0. reader \in Reader /\ Len(reader.buffer) <= E /\ device \in Device
  BY DEF TypeOk
<1>1. /\ reader.fd \in 0 .. N /\ reader.buffer \in Seq(Unit) /\ reader.want \in 0 .. MaxCall
      /\ reader.got \in Seq(Unit) /\ reader.seen \in Seq(Block) /\ reader.lag \in BOOLEAN
      /\ reader.failed \in BOOLEAN /\ device.counts \in BOOLEAN
      /\ reader.fd < N => reader.fd \in Block /\ reader.fd + 1 \in 0 .. N
  BY <1>0, UnitFacts DEF Reader, Device, Block
<1>2. UNCHANGED <<device, content, taken, writer, closed>>
  BY DEF ReaderMoves, CopyBuffered, EnterReadBlock, ReadReturns, ReadError, EccFailure, ReadSkipsMarked,
         BlockRead, ReadFails, OpenRead, ReadClose, ReadData, InReadBlock, ReaderStep
<1>3. CASE OpenRead
  <2>1. reader' = [NoReader EXCEPT !.at = "open"] /\ writer.at = "closed"
    BY <1>3 DEF OpenRead
  <2>2. reader' \in Reader /\ reader'.at = "open" /\ reader'.buffer = NoReader.buffer
    BY <2>1, ClosedTyped DEF Reader
  <2> QED
    BY <1>2, <2>1, <2>2, ClosedTyped DEF ReaderCases
<1>4. CASE ReadClose
  <2>1. reader' = NoReader /\ reader.at = "open"
    BY <1>4 DEF ReadClose, ReaderStep
  <2> QED
    BY <1>2, <2>1, ClosedTyped DEF ReaderCases
<1>5. CASE EnterReadBlock
  <2>1. reader' = [reader EXCEPT !.at = "read_block", !.lag = FALSE] /\ reader.at = "read_data"
    BY <1>5 DEF EnterReadBlock, ReaderStep
  <2>2. reader' \in Reader
    BY <1>0, <2>1 DEF Reader
  <2>3. /\ reader'.at = "read_block" /\ reader'.fd = reader.fd /\ reader'.seen = reader.seen
        /\ ~reader'.lag /\ reader'.failed = reader.failed /\ reader'.buffer = reader.buffer
    BY <1>0, <2>1 DEF Reader
  <2> QED
    BY <1>0, <1>2, <2>1, <2>2, <2>3 DEF ReaderCases
<1>6. CASE ReadReturns
  <2>1. reader' = [reader EXCEPT !.at = "open"] /\ reader.at = "read_data"
    BY <1>6 DEF ReadReturns, ReaderStep
  <2>2. reader' \in Reader
    BY <1>0, <2>1 DEF Reader
  <2>3. /\ reader'.at = "open" /\ reader'.fd = reader.fd /\ reader'.seen = reader.seen
        /\ reader'.lag = reader.lag /\ reader'.failed = reader.failed /\ reader'.buffer = reader.buffer
    BY <1>0, <2>1 DEF Reader
  <2> QED
    BY <1>0, <1>2, <2>1, <2>2, <2>3 DEF ReaderCases
<1>7. CASE \E n \in 1 .. MaxCall : ReadData(n)
  <2>1. PICK n \in 1 .. MaxCall : reader' = [reader EXCEPT !.at = "read_data", !.want = n] /\ reader.at = "open"
    BY <1>7 DEF ReadData, ReaderStep
  <2>2. reader' \in Reader
    <3>1. n \in 0 .. MaxCall
      BY BoundAssumption
    <3> QED
      BY <1>0, <2>1, <3>1 DEF Reader
  <2>3. /\ reader'.at = "read_data" /\ reader'.fd = reader.fd /\ reader'.seen = reader.seen
        /\ reader'.lag = reader.lag /\ reader'.failed = reader.failed /\ reader'.buffer = reader.buffer
    BY <1>0, <2>1 DEF Reader
  <2> QED
    BY <1>0, <1>2, <2>1, <2>2, <2>3 DEF ReaderCases
<1>8. CASE CopyBuffered
  <2>1. PICK n : /\ n = Min({reader.want, Len(reader.buffer)})
                 /\ reader' = [reader EXCEPT !.got = @ \o SubSeq(reader.buffer, 1, n),
                                             !.buffer = SubSeq(@, n + 1, Len(@)), !.want = @ - n]
                 /\ reader.at = "read_data"
    BY <1>8 DEF CopyBuffered, ReaderStep
  <2>2. n \in 0 .. Len(reader.buffer) /\ reader.want - n \in 0 .. MaxCall /\ Len(reader.buffer) \in Nat
    <3>1. Len(reader.buffer) \in Nat /\ reader.want \in Nat /\ reader.want <= MaxCall
      BY <1>1, LenProperties, BoundAssumption
    <3> DEFINE least == Min({reader.want, Len(reader.buffer)})
    <3>2. reader.want \in Int /\ Len(reader.buffer) \in Int
      BY <3>1
    <3>3. /\ least \in {reader.want, Len(reader.buffer)}
          /\ least <= reader.want /\ least <= Len(reader.buffer)
      BY <3>2, MinOfTwo
    <3>4. n = least
      BY <2>1
    <3> HIDE DEF least
    <3> QED
      BY <3>1, <3>3, <3>4, BoundAssumption
  <2>3. /\ reader.got \o SubSeq(reader.buffer, 1, n) \in Seq(Unit)
        /\ SubSeq(reader.buffer, n + 1, Len(reader.buffer)) \in Seq(Unit)
        /\ Len(SubSeq(reader.buffer, n + 1, Len(reader.buffer))) = Len(reader.buffer) - n
    BY <1>1, <2>2, CutFacts, ConcatProperties
  <2>4. reader' \in Reader
    BY <1>0, <2>1, <2>2, <2>3 DEF Reader
  <2>5. /\ reader'.at = "read_data" /\ reader'.fd = reader.fd /\ reader'.seen = reader.seen
        /\ reader'.lag = reader.lag /\ reader'.failed = reader.failed
        /\ reader'.buffer = SubSeq(reader.buffer, n + 1, Len(reader.buffer))
    BY <1>0, <2>1 DEF Reader
  <2>6. Len(reader'.buffer) <= E
    BY <1>0, <2>2, <2>3, <2>5, UnitFacts
  <2> QED
    BY <1>0, <1>2, <2>1, <2>4, <2>5, <2>6 DEF ReaderCases
<1>9. CASE ReadFails
  <2>1. reader' = [reader EXCEPT !.at = "open", !.failed = TRUE] /\ reader.at = "read_block" /\ reader.fd = N
    BY <1>9 DEF ReadFails, ReaderStep
  <2>2. reader' \in Reader
    BY <1>0, <2>1 DEF Reader
  <2>3. /\ reader'.at = "open" /\ reader'.fd = reader.fd /\ reader'.seen = reader.seen
        /\ reader'.lag = reader.lag /\ reader'.failed /\ reader'.buffer = reader.buffer
    BY <1>0, <2>1 DEF Reader
  <2> QED
    BY <1>0, <1>2, <2>1, <2>2, <2>3 DEF ReaderCases
<1>10. CASE ReadError \/ EccFailure \/ ReadSkipsMarked
  <2>1. /\ reader.at = "read_block" /\ reader.fd \in Block /\ reader.fd + 1 \in 0 .. N
    BY <1>1, <1>10 DEF ReadError, EccFailure, ReadSkipsMarked, InReadBlock, ReaderStep
  <2>2. PICK lag \in BOOLEAN :
          /\ reader' = [reader EXCEPT !.fd = reader.fd + 1, !.lag = lag]
          /\ \/ Unreadable /\ lag \in {reader.lag, device.counts}
             \/ (Unreadable \/ reader.lag) /\ ~lag
             \/ ReadMarked /\ ~reader.lag /\ ~lag
    <3>1. CASE ReadError
      <4>1. PICK counted \in {FALSE, device.counts} :
              Unreadable /\ reader' = [reader EXCEPT !.fd = reader.fd + 1, !.lag = reader.lag \/ counted]
        BY <3>1 DEF ReadError
      <4>2. (reader.lag \/ counted) \in BOOLEAN /\ (reader.lag \/ counted) \in {reader.lag, device.counts}
        BY <1>1
      <4> QED
        BY <4>1, <4>2
    <3>2. CASE EccFailure
      BY <3>2 DEF EccFailure
    <3>3. CASE ReadSkipsMarked
      <4>1. reader' = [reader EXCEPT !.fd = reader.fd + 1] /\ ReadMarked /\ ~reader.lag
        BY <3>3 DEF ReadSkipsMarked
      <4>2. reader' = [reader EXCEPT !.fd = reader.fd + 1, !.lag = reader.lag]
        BY <1>0, <4>1 DEF Reader
      <4> QED
        BY <1>1, <4>1, <4>2
    <3> QED
      BY <1>10, <3>1, <3>2, <3>3
  <2>3. reader' \in Reader
    BY <1>0, <2>1, <2>2 DEF Reader
  <2>4. /\ reader'.at = "read_block" /\ reader'.fd = reader.fd + 1 /\ reader'.seen = reader.seen
        /\ reader'.lag = lag /\ reader'.failed = reader.failed /\ reader'.buffer = reader.buffer
    BY <1>0, <2>1, <2>2 DEF Reader
  <2> QED
    BY <1>0, <1>2, <2>1, <2>2, <2>3, <2>4 DEF ReaderCases
<1>11. CASE BlockRead
  <2>1. /\ reader.at = "read_block" /\ reader.fd \in Block /\ reader.fd + 1 \in 0 .. N /\ ~reader.lag
    BY <1>1, <1>11 DEF BlockRead, InReadBlock, ReaderStep
  <2>2. content[reader.fd] \in Seq(Unit) /\ Len(content[reader.fd]) = E
    <3>1. content[reader.fd] \in [1 .. E -> Unit]
      BY <2>1 DEF TypeOk
    <3> QED
      BY <3>1, BlockSeq, UnitFacts
  <2> DEFINE got == IF reader.want < E THEN reader.got ELSE reader.got \o content[reader.fd]
             buffer == IF reader.want < E THEN content[reader.fd] ELSE reader.buffer
             want == IF reader.want < E THEN reader.want ELSE reader.want - E
  <2>3. /\ got \in Seq(Unit) /\ buffer \in Seq(Unit) /\ want \in 0 .. MaxCall /\ Len(buffer) <= E
        /\ reader' = [reader EXCEPT !.at = "read_data", !.fd = reader.fd + 1, !.got = got,
                                    !.buffer = buffer, !.want = want, !.seen = Append(reader.seen, reader.fd)]
    <3>1. reader.got \o content[reader.fd] \in Seq(Unit)
      BY <1>1, <2>2, ConcatProperties
    <3>2. got \in Seq(Unit) /\ buffer \in Seq(Unit) /\ Len(buffer) <= E
      BY <1>0, <1>1, <2>2, <3>1, UnitFacts
    <3>3. want \in 0 .. MaxCall
      BY <1>1, UnitFacts, BoundAssumption
    <3>4. reader' = [reader EXCEPT !.at = "read_data", !.fd = reader.fd + 1, !.got = got,
                                  !.buffer = buffer, !.want = want, !.seen = Append(reader.seen, reader.fd)]
      BY <1>11 DEF BlockRead
    <3> QED
      BY <3>2, <3>3, <3>4
  <2> HIDE DEF got, buffer, want
  <2>4. Append(reader.seen, reader.fd) \in Seq(Block)
    BY <1>1, <2>1, AppendProperties
  <2>5. reader' \in Reader
    BY <1>0, <2>1, <2>3, <2>4 DEF Reader
  <2>6. /\ reader'.at = "read_data" /\ reader'.fd = reader.fd + 1 /\ reader'.buffer = buffer
        /\ reader'.lag = reader.lag /\ reader'.failed = reader.failed
        /\ reader'.seen = Append(reader.seen, reader.fd)
    BY <1>0, <2>3 DEF Reader
  <2> QED
    BY <1>2, <2>1, <2>3, <2>5, <2>6 DEF ReaderCases
<1> QED
  BY <1>3, <1>4, <1>5, <1>6, <1>7, <1>8, <1>9, <1>10, <1>11 DEF ReaderMoves

-----------------------------------------------------------------------------
(* The writer's steps *)

\* WriterShape of a context, with its type; and the cases of the writer's steps.
Shape(w) ==
    /\ (\/ w.at \in {"open", "erase_blocks"}
        \/ w.at = "write_block" /\ w.then = "erase_blocks")
          => \/ w.rest = <<>>
             \/ w.failed /\ (w.stored = <<>> \/ Len(w.stored) = E)
    /\ w.at = "write_block" =>
          IF Direct(w) THEN w.then = "write_data" /\ Len(w.rest) >= E
                       ELSE w.then = "write_data" => Len(w.stored) = E

Fits(w) == w \in Writer /\ Len(w.stored) <= E /\ Shape(w)

SameData(w, v) ==
    /\ v.fd = w.fd /\ v.stored = w.stored /\ v.rest = w.rest /\ v.stream = w.stream
    /\ v.placed = w.placed /\ v.bad_block_offsets = w.bad_block_offsets /\ v.failed = w.failed

Opens == writer' = [NoWriter EXCEPT !.at = "open"] /\ content' = content
Closes == writer' = NoWriter
Carries ==
    /\ writer.at \notin {"closed", "write_block"} /\ writer'.at # "closed"
    /\ SameData(writer, writer')
    /\ writer'.at = "write_block" => writer'.pos = writer.fd
    /\ \A b \in Block : writer.fd <= b \/ content'[b] = content[b]
Takes ==
    /\ writer.at = "open" /\ ~writer.failed /\ writer'.at = "write_data"
    /\ \E units \in Seq(Unit) :
          /\ writer'.rest = units /\ writer'.stream = writer.stream \o units
          /\ SameData(writer, [writer' EXCEPT !.rest = writer.rest, !.stream = writer.stream])
    /\ content' = content

\* A closed context fits the writer's shape.
LEMMA WriterClosed == Fits(NoWriter) /\ NoWriter.at = "closed" /\ ~NoWriter.failed
BY ClosedTyped DEF Fits, Shape, NoWriter

\* What the fields of a context are.
LEMMA WriterFields ==
    ASSUME NEW w \in Writer
    PROVE  /\ w.at \in {"closed", "open", "write_data", "erase_blocks", "write_block"}
           /\ w.then \in {"write_data", "erase_blocks"} /\ w.fd \in 0 .. N /\ w.pos \in 0 .. N
           /\ w.fd \in Nat /\ w.pos \in Nat /\ w.fd <= N /\ w.pos <= N
           /\ w.stored \in Seq(Unit) /\ w.bad_block_offsets \in Seq(Block) /\ w.rest \in Seq(Unit)
           /\ w.blocks \in -1 .. N /\ w.closing \in BOOLEAN /\ w.failed \in BOOLEAN
           /\ w.stream \in Seq(Unit) /\ w.placed \in Seq(Block)
           /\ Len(w.stored) \in Nat /\ Len(w.rest) \in Nat /\ Len(w.stream) \in Nat /\ Len(w.placed) \in Nat
           /\ w.stored = <<>> <=> Len(w.stored) = 0
           /\ w.rest = <<>> <=> Len(w.rest) = 0
<1>1. /\ w.at \in {"closed", "open", "write_data", "erase_blocks", "write_block"}
      /\ w.then \in {"write_data", "erase_blocks"} /\ w.fd \in 0 .. N /\ w.pos \in 0 .. N
      /\ w.stored \in Seq(Unit) /\ w.bad_block_offsets \in Seq(Block) /\ w.rest \in Seq(Unit)
      /\ w.blocks \in -1 .. N /\ w.closing \in BOOLEAN /\ w.failed \in BOOLEAN
      /\ w.stream \in Seq(Unit) /\ w.placed \in Seq(Block)
  BY DEF Writer
<1>2. /\ Len(w.stored) \in Nat /\ Len(w.rest) \in Nat /\ Len(w.stream) \in Nat /\ Len(w.placed) \in Nat
      /\ w.stored = <<>> <=> Len(w.stored) = 0
      /\ w.rest = <<>> <=> Len(w.rest) = 0
  BY <1>1, LenProperties, EmptySeq
<1>3. w.fd \in Nat /\ w.pos \in Nat /\ w.fd <= N /\ w.pos <= N
  BY <1>1, UnitFacts
<1> QED
  BY <1>1, <1>2, <1>3

\* mtd_write_partition gives a fresh context.
LEMMA OpenWriteFacts ==
    ASSUME OpenWrite
    PROVE  Opens /\ Fits(writer') /\ writer'.at = "open" /\ reader.at = "closed"
<1>1. writer' = [NoWriter EXCEPT !.at = "open"] /\ content' = content /\ reader.at = "closed"
  BY DEF OpenWrite
<1>2. writer' \in Writer /\ writer'.at = "open" /\ writer'.stored = <<>> /\ writer'.rest = <<>>
  <2>1. NoWriter \in Writer /\ NoWriter.stored = <<>> /\ NoWriter.rest = <<>>
    BY ClosedTyped DEF NoWriter
  <2> QED
    BY <1>1, <2>1 DEF Writer
<1> QED
  BY <1>1, <1>2, UnitFacts DEF Opens, Fits, Shape

Moved(w, at, then, pos, blocks, closing) ==
    [w EXCEPT !.at = at, !.then = then, !.pos = pos, !.blocks = blocks, !.closing = closing]

\* A context that only goes on to another place keeps its data.
LEMMA MoveFacts ==
    ASSUME NEW w \in Writer, NEW at \in {"open", "write_data", "erase_blocks", "write_block"},
           NEW then \in {"write_data", "erase_blocks"}, NEW pos \in 0 .. N,
           NEW blocks \in -1 .. N, NEW closing \in BOOLEAN
    PROVE  LET v == Moved(w, at, then, pos, blocks, closing) IN
           /\ v \in Writer /\ SameData(w, v) /\ v.at = at /\ v.then = then /\ v.pos = pos
           /\ Direct(v) <=> Direct(w)
<1> DEFINE v == Moved(w, at, then, pos, blocks, closing)
<1>1. v \in Writer
  BY DEF Writer, Moved
<1>2. SameData(w, v) /\ v.at = at /\ v.then = then /\ v.pos = pos
  BY DEF Writer, SameData, Moved
<1> HIDE DEF v
<1>3. Direct(v) <=> Direct(w)
  BY <1>2 DEF Direct, SameData
<1> QED
  BY <1>1, <1>2, <1>3 DEF v

\* On the way into write_block the context keeps its data.
LEMMA EnterFacts ==
    ASSUME Fits(writer), NEW then \in {"write_data", "erase_blocks"}, EnterWriteBlock(then),
           writer.at \in {"write_data", "erase_blocks"},
           \/ then = "write_data" /\ (Len(writer.stored) = E \/ (writer.stored = <<>> /\ Len(writer.rest) >= E))
           \/ then = "erase_blocks" /\ writer.at = "erase_blocks" /\ writer.stored # <<>>
    PROVE  Carries /\ Fits(writer') /\ content' = content
<1>1. writer \in Writer /\ Len(writer.stored) <= E /\ Shape(writer)
  BY DEF Fits
<1>2. /\ writer' = [writer EXCEPT !.at = "write_block", !.then = then, !.pos = writer.fd]
      /\ content' = content
  BY DEF EnterWriteBlock
<1>3. writer' = Moved(writer, "write_block", then, writer.fd, writer.blocks, writer.closing)
  BY <1>1, <1>2 DEF Writer, Moved
<1>4. /\ writer' \in Writer /\ SameData(writer, writer') /\ writer'.at = "write_block"
      /\ writer'.then = then /\ writer'.pos = writer.fd
      /\ Direct(writer') <=> Direct(writer)
  <2>1. writer.fd \in 0 .. N /\ writer.blocks \in -1 .. N /\ writer.closing \in BOOLEAN
    BY <1>1, WriterFields
  <2> QED
    BY <1>1, <1>3, <2>1, MoveFacts
<1>5. Shape(writer')
  <2>1. CASE then = "write_data"
    <3>1. IF writer.stored = <<>> THEN Len(writer.rest) >= E ELSE Len(writer.stored) = E
      <4>1. writer.stored = <<>> => Len(writer.stored) # E
        BY <1>1, WriterFields, UnitFacts
      <4> QED
        BY <2>1, <4>1
    <3> QED
      BY <1>4, <2>1, <3>1 DEF Shape, SameData, Direct
  <2>2. CASE then = "erase_blocks"
    <3>1. /\ writer.at = "erase_blocks" /\ writer.stored # <<>>
          /\ writer.rest = <<>> \/ (writer.failed /\ (writer.stored = <<>> \/ Len(writer.stored) = E))
      BY <1>1, <2>2 DEF Shape
    <3> QED
      BY <1>4, <2>2, <3>1 DEF Shape, SameData, Direct
  <2> QED
    BY <2>1, <2>2
<1> QED
  BY <1>1, <1>2, <1>4, <1>5 DEF Carries, Fits, SameData

\* So it does on the way into and out of the library.
LEMMA PassFacts ==
    ASSUME Fits(writer), WriteReturns \/ WriteClose \/ (\E n \in -1 .. N : EraseBlocks(n))
    PROVE  Carries /\ Fits(writer') /\ content' = content
<1>1. writer \in Writer /\ Len(writer.stored) <= E /\ Shape(writer)
  BY DEF Fits
<1>2. content' = content /\ writer.at \in {"open", "write_data"}
  BY DEF WriteReturns, WriteClose, EraseBlocks, WriterStep
<1>3. PICK at \in {"open", "erase_blocks"}, blocks \in -1 .. N, closing \in BOOLEAN :
          /\ writer' = [writer EXCEPT !.at = at, !.blocks = blocks, !.closing = closing]
          /\ writer.at = "open" \/ writer.rest = <<>>
  <2>1. CASE WriteReturns
    <3>1. writer' = [writer EXCEPT !.at = "open"] /\ writer.rest = <<>>
      BY <2>1 DEF WriteReturns
    <3>2. writer' = [writer EXCEPT !.at = "open", !.blocks = writer.blocks, !.closing = writer.closing]
      BY <1>1, <3>1 DEF Writer
    <3> QED
      BY <1>1, <3>1, <3>2, WriterFields
  <2>2. CASE WriteClose
    <3>1. 0 \in -1 .. N
      BY UnitFacts
    <3> QED
      BY <2>2, <3>1 DEF WriteClose, WriterStep
  <2>3. CASE \E n \in -1 .. N : EraseBlocks(n)
    <3>1. PICK n \in -1 .. N : writer' = [writer EXCEPT !.at = "erase_blocks", !.blocks = n] /\ writer.at = "open"
      BY <2>3 DEF EraseBlocks, WriterStep
    <3>2. writer' = [writer EXCEPT !.at = "erase_blocks", !.blocks = n, !.closing = writer.closing]
      BY <1>1, <3>1 DEF Writer
    <3> QED
      BY <1>1, <3>1, <3>2, WriterFields
  <2> QED
    BY <2>1, <2>2, <2>3
<1>4. writer' = Moved(writer, at, writer.then, writer.pos, blocks, closing)
  BY <1>1, <1>3 DEF Writer, Moved
<1>5. writer' \in Writer /\ SameData(writer, writer') /\ writer'.at = at
  <2>1. /\ at \in {"open", "write_data", "erase_blocks", "write_block"}
        /\ writer.then \in {"write_data", "erase_blocks"} /\ writer.pos \in 0 .. N
    BY <1>1, WriterFields
  <2> QED
    BY <1>1, <1>3, <1>4, <2>1, MoveFacts
<1>6. Shape(writer')
  BY <1>1, <1>3, <1>5 DEF Shape, SameData
<1> QED
  BY <1>1, <1>2, <1>5, <1>6 DEF Carries, Fits, SameData

\* Some units are handed to mtd_write_data: by any caller, so that what is proved of
\* the library's steps holds for MtdFlash and for MiscMtd.
Hands == taken' \in 0 .. MaxUnits /\ \E units \in Seq(Unit) : HandOver(units)

\* mtd_write_data puts the caller's units behind the stream.
LEMMA HandsFacts ==
    ASSUME Fits(writer), Hands
    PROVE  Takes /\ Fits(writer') /\ content' = content /\ taken' \in 0 .. MaxUnits
<1>1. writer \in Writer /\ Len(writer.stored) <= E
  BY DEF Fits
<1>2. PICK units \in Seq(Unit) : HandOver(units)
  BY DEF Hands
<1>3. /\ content' = content /\ writer.at = "open" /\ ~writer.failed /\ taken' \in 0 .. MaxUnits
      /\ writer' = [writer EXCEPT !.at = "write_data", !.rest = units, !.stream = writer.stream \o units]
  BY <1>2 DEF HandOver, WriterStep, Hands
<1>4. units \in Seq(Unit)
  BY <1>2
<1>5. writer.stream \o units \in Seq(Unit)
  BY <1>1, <1>4, ConcatProperties, WriterFields
<1>6. writer' \in Writer
  BY <1>1, <1>3, <1>4, <1>5 DEF Writer
<1>7. /\ writer'.at = "write_data" /\ writer'.rest = units /\ writer'.stream = writer.stream \o units
      /\ writer'.stored = writer.stored
  BY <1>1, <1>3 DEF Writer
<1>8. SameData(writer, [writer' EXCEPT !.rest = writer.rest, !.stream = writer.stream])
  BY <1>1, <1>3 DEF Writer, SameData
<1> QED
  BY <1>1, <1>3, <1>4, <1>6, <1>7, <1>8 DEF Takes, Fits, Shape

\* mtd_write_data of the callers of MtdFlash hands over numbered units.
LEMMA WriteDataHands ==
    ASSUME taken \in 0 .. MaxUnits, NEW n \in 1 .. MaxCall, WriteData(n)
    PROVE  Hands
<1> DEFINE units == [i \in 1 .. n |-> taken + i]
<1>1. taken' = taken + n /\ taken + n <= MaxUnits /\ HandOver(units)
  BY DEF WriteData
<1>2. n \in Nat /\ taken \in Nat /\ taken' \in 0 .. MaxUnits
  BY <1>1, BoundAssumption
<1>3. units \in Seq(Unit)
  <2>1. \A i \in 1 .. n : taken + i \in 1 .. MaxUnits
    BY <1>1, <1>2, BoundAssumption
  <2>2. units \in [1 .. n -> Unit]
    BY <2>1, UnitFacts
  <2> QED
    BY <1>2, <2>2, BlockSeq
<1> HIDE DEF units
<1> QED
  BY <1>1, <1>2, <1>3 DEF Hands

Collects ==
    /\ writer.at = "write_data" /\ writer'.at = "write_data"
    /\ \E n \in 0 .. Len(writer.rest) :
          /\ writer'.stored = writer.stored \o SubSeq(writer.rest, 1, n)
          /\ writer'.rest = SubSeq(writer.rest, n + 1, Len(writer.rest))
          /\ Len(writer.stored) + n <= E
    /\ SameData(writer, [writer' EXCEPT !.stored = writer.stored, !.rest = writer.rest])
    /\ content' = content

\* What goes into the buffer is taken from the front of the caller's data.
LEMMA CoalesceFacts ==
    ASSUME Fits(writer), Coalesce
    PROVE  Collects /\ Fits(writer') /\ content' = content
<1>1. writer \in Writer /\ Len(writer.stored) <= E
  BY DEF Fits
<1> DEFINE least == Min({Len(writer.rest), E - Len(writer.stored)})
           stored == writer.stored \o SubSeq(writer.rest, 1, least)
           rest == SubSeq(writer.rest, least + 1, Len(writer.rest))
<1>2. /\ writer.at = "write_data" /\ content' = content
      /\ writer' = [writer EXCEPT !.stored = stored, !.rest = rest]
  BY DEF Coalesce, WriterStep
<1>3. least \in 0 .. Len(writer.rest) /\ Len(writer.stored) + least <= E
  <2>1. /\ Len(writer.rest) \in Int /\ E - Len(writer.stored) \in Int
        /\ Len(writer.rest) \in Nat /\ E - Len(writer.stored) \in Nat /\ Len(writer.stored) \in Nat
    BY <1>1, WriterFields, UnitFacts
  <2>2. /\ least \in {Len(writer.rest), E - Len(writer.stored)}
        /\ least <= Len(writer.rest) /\ least <= E - Len(writer.stored)
    BY <2>1, MinOfTwo
  <2> HIDE DEF least
  <2> QED
    BY <2>1, <2>2, UnitFacts
<1>4. /\ stored \in Seq(Unit) /\ Len(stored) = Len(writer.stored) + least
      /\ rest \in Seq(Unit)
  <2> HIDE DEF least
  <2>1. /\ SubSeq(writer.rest, 1, least) \in Seq(Unit) /\ Len(SubSeq(writer.rest, 1, least)) = least
        /\ rest \in Seq(Unit) /\ writer.stored \in Seq(Unit)
    BY <1>1, <1>3, CutFacts, WriterFields
  <2> QED
    BY <2>1, ConcatProperties
<1> HIDE DEF stored, rest
<1>5. writer' \in Writer
  BY <1>1, <1>2, <1>4 DEF Writer
<1>6. writer'.at = "write_data" /\ writer'.stored = stored /\ writer'.rest = rest
  BY <1>1, <1>2 DEF Writer
<1>7. SameData(writer, [writer' EXCEPT !.stored = writer.stored, !.rest = writer.rest])
  BY <1>1, <1>2 DEF Writer, SameData
<1>8. Collects
  <2> HIDE DEF least
  <2> QED
    BY <1>2, <1>3, <1>6, <1>7 DEF Collects, stored, rest
<1>9. Len(writer'.stored) <= E
  <2> HIDE DEF least
  <2> QED
    BY <1>3, <1>4, <1>6
<1> QED
  BY <1>2, <1>5, <1>6, <1>8, <1>9 DEF Fits, Shape

\* What write_block is about to write: always a whole block.
LEMMA BlockFacts ==
    ASSUME Fits(writer), writer.at = "write_block"
    PROVE  /\ BlockData(writer) \in [1 .. E -> Unit] /\ Padding(writer) \in Seq(Unit)
           /\ Direct(writer) => /\ Len(writer.rest) >= E /\ writer.then = "write_data"
                                /\ Padding(writer) = <<>> /\ BlockData(writer) = SubSeq(writer.rest, 1, E)
           /\ ~Direct(writer) => /\ Len(Padding(writer)) = E - Len(writer.stored)
                                 /\ writer.rest = <<>> \/ Len(writer.stored) = E
                                 /\ BlockData(writer) = writer.stored \o Padding(writer)
<1>1. writer \in Writer /\ Len(writer.stored) <= E /\ Shape(writer)
  BY DEF Fits
<1>2. /\ writer.stored \in Seq(Unit) /\ writer.rest \in Seq(Unit) /\ Len(writer.stored) \in Nat
      /\ Len(writer.rest) \in Nat /\ E \in Nat /\ writer.then \in {"write_data", "erase_blocks"}
  BY <1>1, WriterFields, UnitFacts
<1>3. CASE Direct(writer)
  <2>1. writer.then = "write_data" /\ Len(writer.rest) >= E
    BY <1>1, <1>3 DEF Shape
  <2>2. Padding(writer) = <<>> /\ BlockData(writer) = SubSeq(writer.rest, 1, E)
    BY <1>3, <2>1 DEF Padding, BlockData
  <2>3. SubSeq(writer.rest, 1, E) \in Seq(Unit) /\ Len(SubSeq(writer.rest, 1, E)) = E
    <3>1. E \in 0 .. Len(writer.rest)
      BY <1>2, <2>1
    <3> QED
      BY <1>2, <3>1, CutFacts
  <2>4. SubSeq(writer.rest, 1, E) \in [1 .. E -> Unit]
    BY <1>2, <2>3, BlockSeq
  <2>5. Padding(writer) \in Seq(Unit)
    BY <2>2, UnitFacts
  <2> QED
    BY <1>3, <2>1, <2>2, <2>4, <2>5
<1>4. CASE ~Direct(writer)
  <2>1. writer.stored # <<>>
    BY <1>4 DEF Direct
  <2>2. /\ Padding(writer) \in Seq(Unit) /\ Len(Padding(writer)) = E - Len(writer.stored)
    <3>1. CASE writer.then = "write_data"
      <4>1. Len(writer.stored) = E /\ Padding(writer) = <<>>
        BY <1>1, <1>4, <3>1 DEF Shape, Padding
      <4> QED
        BY <1>2, <4>1, UnitFacts
    <3>2. CASE writer.then = "erase_blocks"
      <4>1. Padding(writer) = [i \in 1 .. E - Len(writer.stored) |-> Zero]
        BY <3>2 DEF Padding
      <4>2. Padding(writer) \in [1 .. E - Len(writer.stored) -> Unit] /\ E - Len(writer.stored) \in Nat
        BY <1>1, <1>2, <4>1, UnitFacts
      <4> QED
        BY <4>2, BlockSeq
    <3> QED
      BY <1>2, <3>1, <3>2
  <2>3. writer.rest = <<>> \/ Len(writer.stored) = E
    BY <1>1, <1>2, <1>4, <2>1 DEF Shape
  <2>4. BlockData(writer) = writer.stored \o Padding(writer)
    BY <1>4 DEF BlockData
  <2>5. writer.stored \o Padding(writer) \in Seq(Unit) /\ Len(writer.stored \o Padding(writer)) = E
    <3> DEFINE pad == Padding(writer)
    <3>1. pad \in Seq(Unit) /\ Len(pad) = E - Len(writer.stored)
      BY <2>2
    <3> HIDE DEF pad
    <3>2. writer.stored \o pad \in Seq(Unit) /\ Len(writer.stored \o pad) = Len(writer.stored) + Len(pad)
      BY <1>2, <3>1, ConcatFacts
    <3>3. \A a, e \in Nat : a + (e - a) = e
      OBVIOUS
    <3>4. Len(writer.stored) + (E - Len(writer.stored)) = E
      BY <1>2, <3>3
    <3> QED
      BY <3>1, <3>2, <3>4 DEF pad
  <2>6. writer.stored \o Padding(writer) \in [1 .. E -> Unit]
    BY <1>2, <2>5, BlockSeq
  <2> QED
    BY <1>4, <2>2, <2>3, <2>4, <2>6
<1> QED
  BY <1>3, <1>4

Writes ==
    /\ writer.at = "write_block" /\ writer.pos \in Block \ device.bad /\ writer'.at = writer.then
    /\ writer'.fd = writer.pos + 1 /\ writer'.stored = <<>>
    /\ writer'.rest = IF Direct(writer) THEN SubSeq(writer.rest, E + 1, Len(writer.rest)) ELSE writer.rest
    /\ writer'.stream = writer.stream \o Padding(writer)
    /\ writer'.placed = Append(writer.placed, writer.pos)
    /\ writer'.bad_block_offsets = writer.bad_block_offsets /\ writer'.failed = writer.failed
    /\ content' = [content EXCEPT ![writer.pos] = BlockData(writer)]

\* A block that is written holds BlockData, and the descriptor is behind it.
LEMMA BlockWrittenFacts ==
    ASSUME Fits(writer), BlockWritten
    PROVE  Writes /\ Fits(writer')
<1>1. writer \in Writer /\ Len(writer.stored) <= E /\ Shape(writer)
  BY DEF Fits
<1>2. writer.at = "write_block" /\ writer.pos < N
  BY DEF BlockWritten, AtBlock, WriterStep
<1>3. writer.pos \in Block /\ writer.pos + 1 \in 0 .. N
  BY <1>1, <1>2, WriterFields, UnitFacts DEF Block
<1> DEFINE rest == IF Direct(writer) THEN SubSeq(writer.rest, E + 1, Len(writer.rest)) ELSE writer.rest
           stream == writer.stream \o Padding(writer)
           placed == Append(writer.placed, writer.pos)
<1>4. /\ writer' = [writer EXCEPT !.at = writer.then, !.fd = writer.pos + 1, !.stored = <<>>,
                                  !.rest = rest, !.stream = stream, !.placed = placed]
      /\ content' = [content EXCEPT ![writer.pos] = BlockData(writer)]
  BY DEF BlockWritten
<1>5. rest \in Seq(Unit) /\ (~Direct(writer) => rest = writer.rest)
  <2>1. CASE Direct(writer)
    <3>1. E \in 0 .. Len(writer.rest) /\ writer.rest \in Seq(Unit)
      BY <1>1, <1>2, <2>1, BlockFacts, WriterFields, UnitFacts
    <3> QED
      BY <2>1, <3>1, CutFacts
  <2>2. CASE ~Direct(writer)
    BY <1>1, <2>2, WriterFields
  <2> QED
    BY <2>1, <2>2
<1>6. stream \in Seq(Unit)
  <2>1. writer.stream \in Seq(Unit) /\ Padding(writer) \in Seq(Unit)
    BY <1>1, <1>2, BlockFacts, WriterFields
  <2> QED
    BY <2>1, ConcatProperties
<1>7. placed \in Seq(Block)
  <2>1. writer.placed \in Seq(Block)
    BY <1>1, WriterFields
  <2> QED
    BY <1>3, <2>1, AppendProperties
<1> HIDE DEF rest, stream, placed
<1>8. writer' \in Writer
  BY <1>1, <1>3, <1>4, <1>5, <1>6, <1>7, UnitFacts DEF Writer
<1>9. /\ writer'.at = writer.then /\ writer'.fd = writer.pos + 1 /\ writer'.stored = <<>>
      /\ writer'.rest = rest /\ writer'.stream = stream /\ writer'.placed = placed
      /\ writer'.bad_block_offsets = writer.bad_block_offsets /\ writer'.failed = writer.failed
  BY <1>1, <1>4 DEF Writer
<1>10. Writes
  <2>1. writer.pos \notin device.bad
    BY DEF BlockWritten, WriteMarked
  <2> QED
    BY <1>2, <1>3, <1>4, <1>9, <2>1 DEF Writes, rest, stream, placed
<1>11. writer.then \in {"write_data", "erase_blocks"}
  BY <1>1, WriterFields
<1>12. writer.then = "erase_blocks" => rest = <<>> \/ writer.failed
  BY <1>1, <1>2, <1>5 DEF Shape
<1> QED
  BY <1>8, <1>9, <1>10, <1>11, <1>12, UnitFacts DEF Fits, Shape

Skips ==
    /\ writer.at = "write_block" /\ writer.pos \in Block /\ writer'.at = "write_block"
    /\ writer'.pos = writer.pos + 1
    /\ writer'.bad_block_offsets = Append(writer.bad_block_offsets, writer.pos)
    /\ SameData(writer, [writer' EXCEPT !.bad_block_offsets = writer.bad_block_offsets])
    /\ \A b \in Block : b = writer.pos \/ content'[b] = content[b]

\* A block that is skipped or given up is the only one to change.
LEMMA SkipFacts ==
    ASSUME Fits(writer), content \in [Block -> [1 .. E -> Unit]], SkipMarked \/ GiveUpBlock
    PROVE  Skips /\ Fits(writer') /\ content' \in [Block -> [1 .. E -> Unit]]
<1>1. writer \in Writer /\ Len(writer.stored) <= E /\ Shape(writer)
  BY DEF Fits
<1>2. writer.at = "write_block" /\ writer.pos < N /\ writer' = Skip(writer)
  BY DEF SkipMarked, GiveUpBlock, AtBlock, WriterStep
<1>3. writer.pos \in Block /\ writer.pos + 1 \in 0 .. N
  BY <1>1, <1>2, WriterFields, UnitFacts DEF Block
<1>4. /\ content' \in [Block -> [1 .. E -> Unit]]
      /\ \A b \in Block : b = writer.pos \/ content'[b] = content[b]
  <2>1. CASE SkipMarked
    BY <2>1 DEF SkipMarked
  <2>2. CASE GiveUpBlock
    <3>1. PICK residue \in {content[writer.pos], Fill(Erased), Fill(Torn), BlockData(writer)} :
            content' = [content EXCEPT ![writer.pos] = residue]
      BY <2>2 DEF GiveUpBlock
    <3>2. residue \in [1 .. E -> Unit]
      BY <1>2, <1>3, <3>1, BlockFacts, UnitFacts
    <3> QED
      BY <1>3, <3>1, <3>2
  <2> QED
    BY <2>1, <2>2
<1> DEFINE bads == Append(writer.bad_block_offsets, writer.pos)
<1>5. writer' = [writer EXCEPT !.pos = writer.pos + 1, !.bad_block_offsets = bads]
  BY <1>2 DEF Skip
<1>6. bads \in Seq(Block)
  <2>1. writer.bad_block_offsets \in Seq(Block)
    BY <1>1, WriterFields
  <2> QED
    BY <1>3, <2>1, AppendProperties
<1> HIDE DEF bads
<1>7. writer' \in Writer
  BY <1>1, <1>3, <1>5, <1>6 DEF Writer
<1>8. /\ writer'.at = writer.at /\ writer'.then = writer.then /\ writer'.rest = writer.rest
      /\ writer'.stored = writer.stored /\ writer'.failed = writer.failed
      /\ writer'.pos = writer.pos + 1 /\ writer'.bad_block_offsets = bads
  BY <1>1, <1>5 DEF Writer
<1>9. SameData(writer, [writer' EXCEPT !.bad_block_offsets = writer.bad_block_offsets])
  BY <1>1, <1>5 DEF Writer, SameData
<1>10. Shape(writer')
  BY <1>1, <1>8 DEF Shape, Direct
<1> QED
  BY <1>1, <1>2, <1>3, <1>4, <1>7, <1>8, <1>9, <1>10 DEF Skips, Fits, bads

Fails ==
    /\ writer.at = "write_block" /\ writer.pos = N /\ writer'.at = "open" /\ writer'.failed
    /\ writer'.fd >= writer.fd
    /\ SameData(writer, [writer' EXCEPT !.fd = writer.fd, !.failed = writer.failed])
    /\ content' = content

\* A write that runs out of blocks keeps its data, or the context is closed.
LEMMA OutOfSpaceFacts ==
    ASSUME Fits(writer), OutOfSpace
    PROVE  (Fails \/ Closes) /\ Fits(writer') /\ content' = content
<1>1. writer \in Writer /\ Len(writer.stored) <= E /\ Shape(writer)
  BY DEF Fits
<1>2. writer.at = "write_block" /\ writer.pos = N /\ content' = content
  BY DEF OutOfSpace, WriterStep
<1>3. PICK fd \in writer.fd .. N :
          \/ writer' = NoWriter
          \/ writer' = [[writer EXCEPT !.fd = fd, !.failed = TRUE] EXCEPT !.at = "open"]
          \/ writer' = [[writer EXCEPT !.fd = fd, !.failed = TRUE] EXCEPT !.at = "open", !.blocks = 0]
  BY DEF OutOfSpace, LeaveErase
<1>4. CASE writer' = NoWriter
  BY <1>2, <1>4, WriterClosed DEF Closes
<1>5. CASE writer' # NoWriter
  <2>1. fd \in 0 .. N /\ fd >= writer.fd /\ 0 \in -1 .. N
    BY <1>1, <1>3, WriterFields, UnitFacts
  <2>2. PICK blocks \in -1 .. N :
          writer' = [writer EXCEPT !.fd = fd, !.failed = TRUE, !.at = "open", !.blocks = blocks]
    <3>1. CASE writer' = [[writer EXCEPT !.fd = fd, !.failed = TRUE] EXCEPT !.at = "open"]
      <4>1. writer' = [writer EXCEPT !.fd = fd, !.failed = TRUE, !.at = "open", !.blocks = writer.blocks]
        BY <1>1, <3>1 DEF Writer
      <4> QED
        BY <1>1, <4>1, WriterFields
    <3>2. CASE writer' = [[writer EXCEPT !.fd = fd, !.failed = TRUE] EXCEPT !.at = "open", !.blocks = 0]
      <4>1. writer' = [writer EXCEPT !.fd = fd, !.failed = TRUE, !.at = "open", !.blocks = 0]
        BY <1>1, <3>2 DEF Writer
      <4> QED
        BY <2>1, <4>1
    <3> QED
      BY <1>3, <1>5, <3>1, <3>2
  <2>3. writer' \in Writer
    BY <1>1, <2>1, <2>2 DEF Writer
  <2>4. /\ writer'.at = "open" /\ writer'.failed /\ writer'.fd = fd
        /\ writer'.rest = writer.rest /\ writer'.stored = writer.stored
    BY <1>1, <2>2 DEF Writer
  <2>5. SameData(writer, [writer' EXCEPT !.fd = writer.fd, !.failed = writer.failed])
    BY <1>1, <2>2 DEF Writer, SameData
  <2>6. Shape(writer')
    <3>1. writer.rest = <<>> \/ writer.stored = <<>> \/ Len(writer.stored) = E
      BY <1>1, <1>2, WriterFields DEF Shape, Direct
    <3> QED
      BY <2>4, <3>1 DEF Shape
  <2> QED
    BY <1>1, <1>2, <2>1, <2>3, <2>4, <2>5, <2>6 DEF Fails, Fits
<1> QED
  BY <1>4, <1>5

\* Leaving mtd_erase_blocks.
LEMMA LeaveFacts ==
    ASSUME Fits(writer), writer.at = "erase_blocks", LeaveErase(writer),
           \A b \in Block : writer.fd <= b \/ content'[b] = content[b]
    PROVE  (Carries \/ Closes) /\ Fits(writer')
<1>1. writer \in Writer /\ Len(writer.stored) <= E /\ Shape(writer)
  BY DEF Fits
<1>2. CASE writer' = NoWriter
  BY <1>2, WriterClosed DEF Closes
<1>3. CASE writer' = [writer EXCEPT !.at = "open", !.blocks = 0]
  <2>1. writer' \in Writer
    <3>1. 0 \in -1 .. N
      BY UnitFacts
    <3> QED
      BY <1>1, <1>3, <3>1 DEF Writer
  <2>2. SameData(writer, writer') /\ writer'.at = "open"
    BY <1>1, <1>3 DEF Writer, SameData
  <2>3. Shape(writer')
    BY <1>1, <2>2 DEF Shape, SameData
  <2> QED
    BY <1>1, <2>1, <2>2, <2>3 DEF Carries, Fits, SameData
<1> QED
  BY <1>2, <1>3 DEF LeaveErase

\* mtd_erase_blocks changes only blocks from the descriptor on.
LEMMA EraseFacts ==
    ASSUME Fits(writer), content \in [Block -> [1 .. E -> Unit]], EraseRange \/ EraseTooMany
    PROVE  (Carries \/ Closes) /\ Fits(writer') /\ content' \in [Block -> [1 .. E -> Unit]]
<1>1. writer.at = "erase_blocks" /\ LeaveErase(writer)
  BY DEF EraseRange, EraseTooMany, WriterStep
<1>2. /\ content' \in [Block -> [1 .. E -> Unit]]
      /\ \A b \in Block : writer.fd <= b \/ content'[b] = content[b]
  <2>1. CASE EraseTooMany
    BY <2>1 DEF EraseTooMany
  <2>2. CASE EraseRange
    <3>1. PICK failing \in SUBSET (EraseTargets(writer) \intersect device.weak) :
            content' = [b \in Block |-> IF b \in EraseTargets(writer) \ failing THEN Fill(Erased) ELSE content[b]]
      BY <2>2 DEF EraseRange
    <3>2. \A b \in EraseTargets(writer) : writer.fd <= b
      BY DEF EraseTargets
    <3> QED
      BY <3>1, <3>2, UnitFacts
  <2> QED
    BY <2>1, <2>2
<1> QED
  BY <1>1, <1>2, LeaveFacts

WriterMoves ==
    \/ WriterSteps \/ OpenWrite \/ WriteClose
    \/ Hands \/ (\E n \in -1 .. N : EraseBlocks(n))

WriterCases == Opens \/ Closes \/ Carries \/ Takes \/ Collects \/ Skips \/ Writes \/ Fails

\* The flash changes its faults only by losing some of its decayed blocks.
Heals ==
    /\ device' \in Device
    /\ device'.bad = device.bad /\ device'.weak = device.weak
    /\ device'.query = device.query /\ device'.counts = device.counts
    /\ device' = device \/ writer.at # "closed"

BaseInv == TypeOk /\ OneContext /\ WriterShape

\* The writer's steps leave the reader and the marks of the device alone.
LEMMA HealFacts ==
    ASSUME device \in Device, WriterMoves
    PROVE  Heals /\ reader' = reader
<1>1. reader' = reader
  BY DEF WriterMoves, WriterSteps, Coalesce, FlushBuffer, WriteDirect, WriteReturns, PadAndFlush,
         EraseRange, EraseTooMany, SkipMarked, BlockWritten, GiveUpBlock, OutOfSpace, OpenWrite,
         WriteClose, Hands, HandOver, EraseBlocks, AtBlock, WriterStep
<1>2. \A S : LET d == [device EXCEPT !.decayed = @ \ S] IN
             /\ d \in Device /\ d.bad = device.bad /\ d.weak = device.weak
             /\ d.query = device.query /\ d.counts = device.counts
  BY DEF Device
<1>3. CASE EraseRange
  <2>1. PICK S : device' = [device EXCEPT !.decayed = @ \ S]
    BY <1>3 DEF EraseRange
  <2> QED
    BY <1>1, <1>2, <1>3, <2>1 DEF Heals, EraseRange, WriterStep
<1>4. CASE BlockWritten
  <2>1. device' = [device EXCEPT !.decayed = @ \ {writer.pos}]
    BY <1>4 DEF BlockWritten
  <2> QED
    BY <1>1, <1>2, <1>4, <2>1 DEF Heals, BlockWritten, AtBlock, WriterStep
<1>5. CASE ~EraseRange /\ ~BlockWritten
  <2>1. device' = device
    BY <1>5 DEF WriterMoves, WriterSteps, Coalesce, FlushBuffer, WriteDirect, WriteReturns, PadAndFlush,
         EraseTooMany, SkipMarked, GiveUpBlock, OutOfSpace, OpenWrite,
         WriteClose, Hands, HandOver, EraseBlocks, EnterWriteBlock
  <2> QED
    BY <1>1, <2>1 DEF Heals
<1> QED
  BY <1>3, <1>4, <1>5

\* Every step of the writer is one of the cases and keeps the types.
LEMMA WriterFacts ==
    ASSUME BaseInv, WriterMoves
    PROVE  /\ Fits(writer') /\ content' \in [Block -> [1 .. E -> Unit]] /\ taken' \in 0 .. MaxUnits
           /\ writer.at # "closed" \/ reader.at = "closed"
           /\ WriterCases
<1>1. /\ Fits(writer) /\ content \in [Block -> [1 .. E -> Unit]] /\ taken \in 0 .. MaxUnits
  BY DEF BaseInv, TypeOk, WriterShape, Fits, Shape
<1>2. ~Hands => taken' = taken
  BY DEF WriterMoves, WriterSteps, Coalesce, FlushBuffer, WriteDirect, WriteReturns, PadAndFlush,
         EraseRange, EraseTooMany, SkipMarked, BlockWritten, GiveUpBlock, OutOfSpace, OpenWrite,
         WriteClose, EraseBlocks, EnterWriteBlock
<1>3. OpenWrite \/ writer.at # "closed"
  BY DEF WriterMoves, WriterSteps, Coalesce, FlushBuffer, WriteDirect, WriteReturns, PadAndFlush,
         EraseRange, EraseTooMany, SkipMarked, BlockWritten, GiveUpBlock, OutOfSpace,
         WriteClose, Hands, HandOver, EraseBlocks, AtBlock, WriterStep
<1>4. CASE OpenWrite
  <2>1. Opens /\ Fits(writer') /\ reader.at = "closed" /\ content' = content
    BY <1>4, OpenWriteFacts DEF Opens
  <2>2. taken' = taken
    BY <1>4 DEF OpenWrite
  <2> QED
    BY <1>1, <2>1, <2>2 DEF WriterCases
<1>5. CASE Hands
  <2>1. Takes /\ Fits(writer') /\ content' = content /\ taken' \in 0 .. MaxUnits
    BY <1>1, <1>5, HandsFacts
  <2>2. writer.at # "closed"
    BY <2>1 DEF Takes
  <2> QED
    BY <1>1, <2>1, <2>2 DEF WriterCases
<1>6. CASE WriteReturns \/ WriteClose \/ (\E n \in -1 .. N : EraseBlocks(n))
  <2>1. Carries /\ Fits(writer') /\ content' = content
    BY <1>1, <1>6, PassFacts
  <2>2. taken' = taken /\ writer.at # "closed"
    BY <1>6, <2>1 DEF WriteReturns, WriteClose, EraseBlocks, Carries
  <2> QED
    BY <1>1, <2>1, <2>2 DEF WriterCases
<1>7. CASE FlushBuffer \/ WriteDirect \/ PadAndFlush
  <2>1. Carries /\ Fits(writer') /\ content' = content
    <3>1. CASE FlushBuffer
      <4>1. EnterWriteBlock("write_data") /\ writer.at = "write_data" /\ Len(writer.stored) = E
        BY <3>1 DEF FlushBuffer, WriterStep
      <4> QED
        BY <1>1, <4>1, EnterFacts
    <3>2. CASE WriteDirect
      <4>1. /\ EnterWriteBlock("write_data") /\ writer.at = "write_data"
            /\ writer.stored = <<>> /\ Len(writer.rest) >= E
        BY <3>2 DEF WriteDirect, WriterStep
      <4> QED
        BY <1>1, <4>1, EnterFacts
    <3>3. CASE PadAndFlush
      <4>1. EnterWriteBlock("erase_blocks") /\ writer.at = "erase_blocks" /\ writer.stored # <<>>
        BY <3>3 DEF PadAndFlush, WriterStep
      <4> QED
        BY <1>1, <4>1, EnterFacts
    <3> QED
      BY <1>7, <3>1, <3>2, <3>3
  <2>2. taken' = taken
    BY <1>7 DEF FlushBuffer, WriteDirect, PadAndFlush, EnterWriteBlock
  <2>3. writer.at # "closed"
    BY <2>1 DEF Carries
  <2> QED
    BY <1>1, <2>1, <2>2, <2>3 DEF WriterCases
<1>8. CASE Coalesce
  <2>1. Collects /\ Fits(writer') /\ content' = content
    BY <1>1, <1>8, CoalesceFacts
  <2>2. taken' = taken /\ writer.at # "closed"
    BY <1>8, <2>1 DEF Coalesce, Collects
  <2> QED
    BY <1>1, <2>1, <2>2 DEF WriterCases
<1>9. CASE SkipMarked \/ GiveUpBlock
  <2>1. Skips /\ Fits(writer') /\ content' \in [Block -> [1 .. E -> Unit]]
    BY <1>1, <1>9, SkipFacts
  <2>2. taken' = taken /\ writer.at # "closed"
    BY <1>9, <2>1 DEF SkipMarked, GiveUpBlock, Skips
  <2> QED
    BY <1>1, <2>1, <2>2 DEF WriterCases
<1>10. CASE BlockWritten
  <2>1. Writes /\ Fits(writer')
    BY <1>1, <1>10, BlockWrittenFacts
  <2>2. content' \in [Block -> [1 .. E -> Unit]]
    <3>1. content' = [content EXCEPT ![writer.pos] = BlockData(writer)] /\ writer.at = "write_block"
      BY <2>1 DEF Writes
    <3>2. BlockData(writer) \in [1 .. E -> Unit]
      BY <1>1, <3>1, BlockFacts
    <3> QED
      BY <1>1, <3>1, <3>2
  <2>3. taken' = taken /\ writer.at # "closed"
    BY <1>10, <2>1 DEF BlockWritten, Writes
  <2> QED
    BY <1>1, <2>1, <2>2, <2>3 DEF WriterCases
<1>11. CASE OutOfSpace
  <2>1. (Fails \/ Closes) /\ Fits(writer') /\ content' = content
    BY <1>1, <1>11, OutOfSpaceFacts
  <2>2. taken' = taken /\ writer.at # "closed"
    BY <1>11 DEF OutOfSpace, WriterStep
  <2> QED
    BY <1>1, <2>1, <2>2 DEF WriterCases
<1>12. CASE EraseRange \/ EraseTooMany
  <2>1. (Carries \/ Closes) /\ Fits(writer') /\ content' \in [Block -> [1 .. E -> Unit]]
    BY <1>1, <1>12, EraseFacts
  <2>2. taken' = taken /\ writer.at # "closed"
    BY <1>12 DEF EraseRange, EraseTooMany, WriterStep
  <2> QED
    BY <1>1, <2>1, <2>2 DEF WriterCases
<1> QED
  BY <1>4, <1>5, <1>6, <1>7, <1>8, <1>9, <1>10, <1>11, <1>12 DEF WriterMoves, WriterSteps

\* Data decays while nobody uses the device.
Decays ==
    /\ writer.at = "closed" /\ reader.at = "closed"
    /\ UNCHANGED <<content, taken, writer, reader, closed>>
    /\ device' \in Device /\ device'.bad = device.bad

\* Data decays only while nobody has the device open.
LEMMA DecayFacts == ASSUME device \in Device, NEW b \in Block, Decay(b) PROVE Decays
BY DEF Decay, Decays, Device

\* A step of the library, whoever calls it.
Step ==
    \/ WriterMoves /\ Heals
    \/ ReaderMoves
    \/ Decays
    \/ UNCHANGED vars

\* What a step of MtdFlash is.
LEMMA StepKinds ==
    ASSUME device \in Device, taken \in 0 .. MaxUnits, [Next]_vars
    PROVE  Step
<1>1. CASE \E b \in Block : Decay(b)
  BY <1>1, DecayFacts DEF Step
<1>2. CASE WriterMoves
  BY <1>2, HealFacts DEF Step
<1>3. CASE \E n \in 1 .. MaxCall : WriteData(n)
  BY <1>2, <1>3, WriteDataHands DEF WriterMoves
<1>4. \/ WriterMoves \/ (\E n \in 1 .. MaxCall : WriteData(n))
      \/ ReaderMoves \/ (\E b \in Block : Decay(b)) \/ UNCHANGED vars
  BY DEF Next, Calls, WriterMoves, ReaderMoves, ReaderSteps
<1> QED
  BY <1>1, <1>2, <1>3, <1>4 DEF Step

\* Every step of the library keeps the state well formed.
LEMMA StepKeepsBase == ASSUME BaseInv, Step PROVE BaseInv'
<1>1. TypeOk /\ OneContext /\ WriterShape /\ device \in Device
  BY DEF BaseInv, TypeOk
<1>2. CASE WriterMoves /\ Heals
  <2>1. /\ Fits(writer') /\ content' \in [Block -> [1 .. E -> Unit]] /\ taken' \in 0 .. MaxUnits
        /\ writer.at # "closed" \/ reader.at = "closed"
        /\ WriterCases
    BY <1>2, WriterFacts
  <2>2. reader' = reader /\ device' \in Device
    BY <1>1, <1>2, HealFacts DEF Heals
  <2>3. TypeOk'
    BY <1>1, <2>1, <2>2 DEF TypeOk, Fits
  <2>4. WriterShape'
    BY <2>1 DEF WriterShape, Fits, Shape
  <2>5. writer'.at = "closed" => writer' = NoWriter
    <3>1. writer.then # "closed"
      BY <1>1, WriterFields DEF TypeOk
    <3>2. CASE Opens
      BY <3>2 DEF Opens, NoWriter
    <3>3. CASE ~Opens
      BY <2>1, <3>1, <3>3 DEF WriterCases, Closes, Carries, Takes, Collects, Skips, Writes, Fails
    <3> QED
      BY <3>2, <3>3
  <2>6. reader.at = "closed"
    BY <1>1, <2>1 DEF OneContext
  <2> QED
    BY <1>1, <2>2, <2>3, <2>4, <2>5, <2>6 DEF BaseInv, OneContext
<1>3. CASE ReaderMoves
  <2>1. /\ reader' \in Reader /\ Len(reader'.buffer) <= E
        /\ reader'.at = "closed" => reader' = NoReader
        /\ writer.at = "closed" \/ reader.at # "closed"
        /\ UNCHANGED <<device, content, taken, writer, closed>>
    BY <1>1, <1>3, ReaderFacts
  <2> QED
    BY <1>1, <2>1 DEF BaseInv, TypeOk, OneContext, WriterShape, Direct
<1>4. CASE Decays
  BY <1>1, <1>4 DEF Decays, BaseInv, TypeOk, OneContext, WriterShape, Direct
<1>5. CASE UNCHANGED vars
  BY <1>1, <1>5 DEF vars, BaseInv, TypeOk, OneContext, WriterShape, Direct
<1> QED
  BY <1>2, <1>3, <1>4, <1>5 DEF Step

\* The state is well formed, at most one context is open, and between calls a
\* writer that has not failed has nothing left of its caller's data.
THEOREM BaseInductive == Spec => []BaseInv
<1>1. Init => BaseInv
  <2> SUFFICES ASSUME Init PROVE BaseInv
    OBVIOUS
  <2>1. /\ device \in Device /\ writer = NoWriter /\ reader = NoReader /\ taken = 0
        /\ content = [b \in Block |-> IF b \in device.bad THEN Fill(Torn) ELSE Fill(Erased)]
    BY DEF Init
  <2>2. content \in [Block -> [1 .. E -> Unit]] /\ taken \in 0 .. MaxUnits
    BY <2>1, UnitFacts, BoundAssumption
  <2>3. TypeOk
    BY <2>1, <2>2, ClosedTyped DEF TypeOk
  <2> QED
    BY <2>1, <2>3 DEF BaseInv, OneContext, WriterShape, NoWriter
<1>2. BaseInv /\ [Next]_vars => BaseInv'
  BY StepKeepsBase, StepKinds DEF BaseInv, TypeOk
<1> QED
  BY <1>1, <1>2, PTL DEF Spec

\* Every reachable state is well typed; the buffer of a context never holds more
\* than a block (stored and consumed stay within the erase size).
THEOREM TypeCorrect == Spec => []TypeOk
<1>1. BaseInv => TypeOk
  BY DEF BaseInv
<1> QED
  BY <1>1, BaseInductive, PTL

-----------------------------------------------------------------------------
\* Neither write_block nor mtd_erase_blocks ever changes a block that is marked bad.
THEOREM BadBlocksAreSpared == Spec => BadBlocksSpared
<1>1. BaseInv /\ [Next]_vars => [\A b \in device.bad : content'[b] = content[b]]_vars
  <2> SUFFICES ASSUME BaseInv, [Next]_vars, NEW b \in device.bad PROVE content'[b] = content[b]
    OBVIOUS
  <2>1. b \in Block /\ content \in [Block -> [1 .. E -> Unit]] /\ device \in Device /\ TypeOk
    BY DEF BaseInv, TypeOk, Device
  <2>2. CASE WriterMoves
    <3>1. CASE EraseRange
      <4>1. PICK failing \in SUBSET (EraseTargets(writer) \intersect device.weak) :
              content' = [c \in Block |-> IF c \in EraseTargets(writer) \ failing THEN Fill(Erased) ELSE content[c]]
        BY <3>1 DEF EraseRange
      <4>2. b \notin EraseTargets(writer)
        BY DEF EraseTargets
      <4> QED
        BY <2>1, <4>1, <4>2
    <3>2. CASE BlockWritten
      <4>1. content' = [content EXCEPT ![writer.pos] = BlockData(writer)] /\ writer.pos \notin device.bad
        BY <3>2 DEF BlockWritten, WriteMarked
      <4> QED
        BY <2>1, <4>1
    <3>3. CASE GiveUpBlock
      <4>1. PICK residue : content' = [content EXCEPT ![writer.pos] = residue]
        BY <3>3 DEF GiveUpBlock
      <4>2. writer.pos \notin device.bad
        BY <3>3 DEF GiveUpBlock, WriteMarked
      <4> QED
        BY <2>1, <4>1, <4>2
    <3>4. CASE ~EraseRange /\ ~BlockWritten /\ ~GiveUpBlock
      BY <2>2, <3>4 DEF WriterMoves, WriterSteps, Coalesce, FlushBuffer, WriteDirect, WriteReturns,
         PadAndFlush, EraseTooMany, SkipMarked, OutOfSpace, OpenWrite,
         WriteClose, Hands, HandOver, EraseBlocks, EnterWriteBlock
    <3> QED
      BY <3>1, <3>2, <3>3, <3>4
  <2>3. CASE ReaderMoves
    BY <2>1, <2>3, ReaderFacts
  <2> QED
    BY <2>1, <2>2, <2>3, StepKinds DEF Step, Decays, vars, TypeOk
<1> QED
  BY <1>1, BaseInductive, PTL DEF Spec, BadBlocksSpared

-----------------------------------------------------------------------------
(* What the reader passes over *)

ReaderInv == LagJustified /\ SeenAccounted

\* Every step keeps the account of what the reader has passed, and of how far its
\* ECC count lags.
LEMMA StepKeepsReader == ASSUME BaseInv, ReaderInv, Step PROVE ReaderInv'
<1>1. TypeOk /\ OneContext /\ LagJustified /\ SeenAccounted /\ device \in Device /\ reader \in Reader
  BY DEF BaseInv, ReaderInv, TypeOk
<1>2. /\ reader.fd \in 0 .. N /\ reader.seen \in Seq(Block) /\ reader.lag \in BOOLEAN
      /\ reader.failed \in BOOLEAN /\ N \in Nat /\ device.counts \in BOOLEAN
  BY <1>1, UnitFacts DEF Reader, Device
<1>3. ASSUME reader' = NoReader PROVE ReaderInv'
  BY <1>3 DEF ReaderInv, LagJustified, SeenAccounted, NoReader
<1>4. CASE WriterMoves /\ Heals
  <2>1. reader' = reader
    BY <1>1, <1>4, HealFacts
  <2>2. CASE writer.at # "closed"
    BY <1>1, <1>3, <2>1, <2>2 DEF OneContext
  <2>3. CASE writer.at = "closed"
    <3>1. device' = device
      BY <1>4, <2>3 DEF Heals
    <3> QED
      BY <1>1, <2>1, <3>1 DEF ReaderInv, LagJustified, SeenAccounted
  <2> QED
    BY <2>2, <2>3
<1>5. CASE Decays
  BY <1>1, <1>3, <1>5 DEF Decays, OneContext
<1>6. CASE UNCHANGED vars
  BY <1>1, <1>6 DEF vars, ReaderInv, LagJustified, SeenAccounted
<1>7. CASE ReaderMoves
  <2>1. ReaderCases /\ device' = device
    BY <1>1, <1>7, ReaderFacts
  <2>2. CASE reader' = NoReader
    BY <1>3, <2>2
  <2>3. CASE reader' = [NoReader EXCEPT !.at = "open"]
    <3>1. ~reader'.lag /\ ~reader'.failed /\ reader'.fd = 0
      BY <2>3 DEF NoReader
    <3>2. \A b \in Block : ~(b < 0)
      BY <1>2 DEF Block
    <3> QED
      BY <3>1, <3>2 DEF ReaderInv, LagJustified, SeenAccounted
  <2>4. CASE /\ reader.at # "closed" /\ reader'.fd = reader.fd /\ reader'.seen = reader.seen
             /\ reader'.lag \in {reader.lag, FALSE} /\ reader'.failed = reader.failed
    BY <1>1, <2>1, <2>4 DEF ReaderInv, LagJustified, SeenAccounted
  <2>5. CASE /\ reader.at = "read_block" /\ reader.fd = N /\ reader'.fd = reader.fd /\ reader'.failed
             /\ reader'.seen = reader.seen /\ reader'.lag = reader.lag
    BY <1>1, <2>1, <2>5 DEF ReaderInv, LagJustified, SeenAccounted
  <2>6. CASE /\ reader.at = "read_block" /\ reader.fd \in Block /\ reader'.fd = reader.fd + 1
             /\ reader'.failed = reader.failed /\ reader'.seen = reader.seen
             /\ \/ Unreadable /\ reader'.lag \in {reader.lag, device.counts}
                \/ (Unreadable \/ reader.lag) /\ ~reader'.lag
                \/ ReadMarked /\ ~reader.lag /\ ~reader'.lag
    <3>1. ~reader'.failed
      <4>1. reader.fd # N
        BY <1>2, <2>6 DEF Block
      <4> QED
        BY <1>1, <2>6, <4>1 DEF SeenAccounted
    <3>2. LagJustified'
      <4>1. reader'.fd - 1 = reader.fd
        BY <1>2, <2>6
      <4>2. reader'.lag => Unreadable /\ device.counts
        BY <1>1, <2>6 DEF LagJustified
      <4> QED
        BY <2>1, <4>1, <4>2 DEF LagJustified, Unreadable
    <3>3. (device.query /\ ~device.counts) => reader.fd \in device.bad \union device.decayed
      BY <1>1, <2>6 DEF LagJustified, Unreadable, ReadMarked
    <3>4. \A b \in Block : b < reader.fd + 1 => b < reader.fd \/ b = reader.fd
      BY <1>2 DEF Block
    <3> QED
      BY <1>1, <2>1, <2>6, <3>1, <3>2, <3>3, <3>4 DEF ReaderInv, SeenAccounted
  <2>7. CASE /\ reader.at = "read_block" /\ reader.fd \in Block /\ reader'.fd = reader.fd + 1
             /\ reader'.failed = reader.failed /\ reader'.seen = Append(reader.seen, reader.fd)
             /\ ~reader'.lag
    <3>1. ~reader'.failed
      <4>1. reader.fd # N
        BY <1>2, <2>7 DEF Block
      <4> QED
        BY <1>1, <2>7, <4>1 DEF SeenAccounted
    <3>2. Range(reader'.seen) = Range(reader.seen) \union {reader.fd}
      BY <1>2, <2>7, RangeAppend
    <3>3. \A b \in Block : b < reader.fd + 1 => b < reader.fd \/ b = reader.fd
      BY <1>2 DEF Block
    <3> QED
      BY <1>1, <2>1, <2>7, <3>1, <3>2, <3>3 DEF ReaderInv, LagJustified, SeenAccounted
  <2> QED
    BY <2>1, <2>2, <2>3, <2>4, <2>5, <2>6, <2>7 DEF ReaderCases
<1> QED
  BY <1>1, <1>4, <1>5, <1>6, <1>7 DEF Step

\* How far the ECC count lags, and what the reader has passed, are accounted for.
LEMMA ReaderInductive == Spec => []ReaderInv
<1>1. Init => ReaderInv
  BY DEF Init, ReaderInv, LagJustified, SeenAccounted, NoReader
<1>2. BaseInv /\ ReaderInv /\ [Next]_vars => ReaderInv'
  BY StepKeepsReader, StepKinds DEF BaseInv, TypeOk
<1> QED
  BY <1>1, <1>2, BaseInductive, PTL DEF Spec

\* mtd_read_data fails only when every block was read, or is bad or decayed
\* (drivers that answer the bad-block query and count one failure per read).
THEOREM FailsOnlyAtEnd == Spec => []ReadFailsOnlyAtEnd
<1>1. BaseInv /\ ReaderInv => ReadFailsOnlyAtEnd
  <2> SUFFICES ASSUME BaseInv, ReaderInv, reader.failed, device.query, ~device.counts
               PROVE  Block = Range(reader.seen) \union device.bad \union device.decayed
    BY DEF ReadFailsOnlyAtEnd
  <2>1. /\ OneContext /\ SeenAccounted /\ device \in Device /\ reader \in Reader
    BY DEF BaseInv, ReaderInv, TypeOk
  <2>2. reader.at # "closed"
    BY <2>1 DEF OneContext, NoReader
  <2>3. \A b \in Block : b < reader.fd
    BY <2>1, UnitFacts DEF SeenAccounted, Block
  <2>4. Block \subseteq Range(reader.seen) \union device.bad \union device.decayed
    BY <2>1, <2>2, <2>3 DEF SeenAccounted
  <2>5. device.bad \subseteq Block /\ device.decayed \subseteq Block
    BY <2>1 DEF Device
  <2>6. Range(reader.seen) \subseteq Block
    <3>1. reader.seen \in Seq(Block) /\ 0 \in Block
      BY <2>1, UnitFacts DEF Reader, Block
    <3> QED
      BY <3>1, RangeAppend
  <2> QED
    BY <2>4, <2>5, <2>6
<1> QED
  BY <1>1, BaseInductive, ReaderInductive, PTL

\* read_block passes over a good block only right after a read that failed and
\* was counted.
THEOREM SkipsJustified == Spec => SkipsAreJustified
<1> DEFINE Passed == /\ reader.fd' = reader.fd + 1 /\ reader.seen' = reader.seen /\ device.query
                     /\ reader.fd \notin device.bad \union device.decayed
           Reason == device.counts /\ reader.fd - 1 \in device.bad \union device.decayed
<1>1. BaseInv /\ ReaderInv /\ [Next]_vars => [Passed => Reason]_vars
  <2> SUFFICES ASSUME BaseInv, ReaderInv, [Next]_vars, Passed PROVE Reason
    OBVIOUS
  <2>1. TypeOk /\ LagJustified /\ device \in Device /\ reader \in Reader
    BY DEF BaseInv, ReaderInv, TypeOk
  <2>2. reader.fd \in Nat /\ N \in Nat /\ reader.seen \in Seq(Block)
    BY <2>1, UnitFacts DEF Reader
  <2>3. reader'.fd = reader.fd + 1 /\ reader'.seen = reader.seen
    OBVIOUS
  <2>4. reader'.fd # reader.fd
    BY <2>2, <2>3
  <2>5. ReaderMoves
    <3>1. CASE WriterMoves /\ Heals
      BY <2>1, <2>4, <3>1, HealFacts
    <3>2. CASE Decays \/ UNCHANGED vars
      BY <2>4, <3>2 DEF Decays, vars
    <3> QED
      BY <2>1, <3>1, <3>2, StepKinds DEF Step, TypeOk
  <2>6. ReaderCases
    BY <2>1, <2>5, ReaderFacts
  <2>7. reader'.fd # 0
    BY <2>2, <2>3
  <2>8. Append(reader.seen, reader.fd) # reader.seen
    <3>1. ASSUME reader.fd \in Block PROVE Len(Append(reader.seen, reader.fd)) # Len(reader.seen)
      BY <2>2, <3>1, AppendProperties, LenProperties
    <3>2. reader.fd \in Block
      <4>1. reader'.fd \in 0 .. N
        BY <2>1, <2>5, ReaderFacts DEF Reader
      <4> QED
        BY <2>2, <2>3, <4>1 DEF Block
    <3> QED
      BY <3>1, <3>2
  <2>9. NoReader.fd = 0 /\ [NoReader EXCEPT !.at = "open"].fd = 0
    BY DEF NoReader
  <2>10. ~Unreadable /\ ~ReadMarked
    BY DEF Unreadable, ReadMarked
  <2>11. reader.lag
    BY <2>3, <2>4, <2>6, <2>7, <2>8, <2>9, <2>10 DEF ReaderCases
  <2> QED
    BY <2>1, <2>11 DEF LagJustified
<1> QED
  BY <1>1, BaseInductive, ReaderInductive, PTL DEF Spec, SkipsAreJustified

-----------------------------------------------------------------------------
(* What the writer passes over *)

FullInv == WriterAhead /\ PassedAccounted

\* The context of a writer that is not open.
LEMMA NoWriterFacts ==
    /\ NoWriter.placed = <<>> /\ NoWriter.bad_block_offsets = <<>> /\ NoWriter.at = "closed"
    /\ NoWriter.fd = 0 /\ ~NoWriter.failed /\ NoWriter.stored = <<>> /\ NoWriter.rest = <<>>
    /\ NoWriter.stream = <<>> /\ DOMAIN NoWriter.placed = {}
    /\ LET w == [NoWriter EXCEPT !.at = "open"] IN
       /\ w.placed = <<>> /\ w.bad_block_offsets = <<>> /\ w.at = "open"
       /\ w.fd = 0 /\ ~w.failed /\ w.stored = <<>> /\ w.rest = <<>> /\ w.stream = <<>>
    /\ DOMAIN <<>> = {}
BY DEF NoWriter

\* The element that Append puts at the end.
LEMMA AppendFacts ==
    ASSUME NEW S, NEW s \in Seq(S), NEW e \in S
    PROVE  /\ Append(s, e) \in Seq(S) /\ Len(Append(s, e)) = Len(s) + 1 /\ Len(s) \in Nat
           /\ DOMAIN Append(s, e) = 1 .. Len(s) + 1 /\ DOMAIN s = 1 .. Len(s)
           /\ \A i \in DOMAIN Append(s, e) : i \in DOMAIN s \/ i = Len(s) + 1
           /\ \A i \in DOMAIN s : Append(s, e)[i] = s[i] /\ s[i] \in S
           /\ Append(s, e)[Len(s) + 1] = e
<1>1. /\ Append(s, e) \in Seq(S) /\ Len(Append(s, e)) = Len(s) + 1 /\ Len(s) \in Nat
      /\ DOMAIN s = 1 .. Len(s) /\ DOMAIN Append(s, e) = 1 .. Len(s) + 1
      /\ \A i \in 1 .. Len(s) : Append(s, e)[i] = s[i] /\ s[i] \in S
      /\ Append(s, e)[Len(s) + 1] = e
  BY AppendProperties, LenProperties, ElementOfSeq
<1> QED
  BY <1>1

\* The writer's steps keep the account of the blocks behind it.
LEMMA WriterKeepsFull ==
    ASSUME BaseInv, FullInv, WriterCases, writer' \in Writer
    PROVE  FullInv'
<1>1. writer \in Writer /\ WriterAhead /\ PassedAccounted /\ N \in Nat
  BY UnitFacts DEF BaseInv, TypeOk, FullInv
<1>2. /\ writer.fd \in Nat /\ writer.fd <= N /\ writer.pos \in Nat /\ writer.pos <= N
      /\ writer.placed \in Seq(Block) /\ writer.bad_block_offsets \in Seq(Block)
  BY <1>1, WriterFields
<1>3. \A b \in Block : b \in Nat /\ b < N
  BY <1>1 DEF Block
<1>4. CASE Opens \/ Closes
  <2>1. /\ writer'.placed = <<>> /\ writer'.fd = 0 /\ ~writer'.failed /\ writer'.at \in {"closed", "open"}
    BY <1>4, NoWriterFacts DEF Opens, Closes
  <2> QED
    BY <1>3, <2>1, NoWriterFacts DEF FullInv, WriterAhead, PassedAccounted, FailsOnlyWhenFull, Position
<1>5. CASE Carries \/ Takes \/ Collects
  <2>1. /\ writer'.placed = writer.placed /\ writer'.fd = writer.fd /\ writer'.failed = writer.failed
        /\ writer'.bad_block_offsets = writer.bad_block_offsets /\ writer.at # "write_block"
        /\ writer'.at = "write_block" => writer'.pos = writer.fd
    BY <1>1, <1>5 DEF Carries, Takes, Collects, SameData, Writer
  <2>2. Position' = writer.fd /\ Position = writer.fd
    BY <2>1 DEF Position
  <2> QED
    BY <1>1, <1>2, <2>1, <2>2 DEF FullInv, WriterAhead, PassedAccounted, FailsOnlyWhenFull
<1>6. CASE Skips
  <2>1. /\ writer'.placed = writer.placed /\ writer'.fd = writer.fd /\ writer'.failed = writer.failed
        /\ writer'.bad_block_offsets = Append(writer.bad_block_offsets, writer.pos)
        /\ writer.at = "write_block" /\ writer'.at = "write_block" /\ writer'.pos = writer.pos + 1
        /\ writer.pos \in Block
    BY <1>6 DEF Skips, SameData
  <2>2. Range(writer'.bad_block_offsets) = Range(writer.bad_block_offsets) \union {writer.pos}
    BY <1>2, <2>1, RangeAppend
  <2>3. \A b \in Block : b < writer.pos + 1 => b < writer.pos \/ b = writer.pos
    BY <1>2, <1>3
  <2>4. Position' = writer.pos + 1 /\ Position = writer.pos
    BY <2>1 DEF Position
  <2>5. WriterAhead'
    BY <1>1, <1>2, <2>1 DEF WriterAhead
  <2>6. FailsOnlyWhenFull'
    BY <1>1, <2>1, <2>2 DEF PassedAccounted, FailsOnlyWhenFull
  <2> QED
    BY <1>1, <2>1, <2>2, <2>3, <2>4, <2>5, <2>6 DEF FullInv, PassedAccounted
<1>7. CASE Writes
  <2>1. /\ writer'.placed = Append(writer.placed, writer.pos) /\ writer'.fd = writer.pos + 1
        /\ writer'.failed = writer.failed /\ writer'.bad_block_offsets = writer.bad_block_offsets
        /\ writer.at = "write_block" /\ writer'.at # "write_block" /\ writer.pos \in Block
    <3>1. writer.then # "write_block"
      BY <1>1, WriterFields
    <3> QED
      BY <1>7, <3>1 DEF Writes
  <2>2. Range(writer'.placed) = Range(writer.placed) \union {writer.pos}
    BY <1>2, <2>1, RangeAppend
  <2>3. \A b \in Block : b < writer.pos + 1 => b < writer.pos \/ b = writer.pos
    BY <1>2, <1>3
  <2>4. Position' = writer.pos + 1 /\ Position = writer.pos
    BY <2>1 DEF Position
  <2>5. WriterAhead'
    <3> SUFFICES ASSUME NEW k \in DOMAIN writer'.placed PROVE writer'.placed[k] < writer'.fd
      BY <2>1 DEF WriterAhead
    <3>1. CASE k \in DOMAIN writer.placed
      <4>1. writer'.placed[k] = writer.placed[k] /\ writer.placed[k] \in Block
        BY <1>2, <2>1, <3>1, AppendFacts
      <4>2. writer.placed[k] < writer.fd /\ writer.fd <= writer.pos
        BY <1>1, <2>1, <3>1 DEF WriterAhead
      <4> QED
        BY <1>2, <1>3, <2>1, <4>1, <4>2
    <3>2. CASE k = Len(writer.placed) + 1
      <4>1. writer'.placed[k] = writer.pos
        BY <1>2, <2>1, <3>2, AppendFacts
      <4> QED
        BY <1>2, <2>1, <4>1
    <3> QED
      BY <1>2, <2>1, <3>1, <3>2, AppendFacts
  <2>6. FailsOnlyWhenFull'
    BY <1>1, <2>1, <2>2 DEF PassedAccounted, FailsOnlyWhenFull
  <2> QED
    BY <1>1, <2>1, <2>2, <2>3, <2>4, <2>5, <2>6 DEF FullInv, PassedAccounted
<1>8. CASE Fails
  <2>1. /\ writer'.placed = writer.placed /\ writer'.fd >= writer.fd /\ writer'.fd \in Nat /\ writer'.failed
        /\ writer'.bad_block_offsets = writer.bad_block_offsets
        /\ writer.at = "write_block" /\ writer'.at = "open" /\ writer.pos = N
    BY <1>8, WriterFields DEF Fails, SameData, Writer
  <2>2. WriterAhead'
    <3> SUFFICES ASSUME NEW k \in DOMAIN writer.placed PROVE writer.placed[k] < writer'.fd
      BY <2>1 DEF WriterAhead
    <3>1. writer.placed[k] \in Block /\ writer.placed[k] < writer.fd
      BY <1>1, <1>2, LenProperties, ElementOfSeq DEF WriterAhead
    <3> QED
      BY <1>2, <1>3, <2>1, <3>1
  <2>3. Block = Range(writer.placed) \union Range(writer.bad_block_offsets)
    <3>1. CASE writer.failed
      BY <1>1, <3>1 DEF PassedAccounted, FailsOnlyWhenFull
    <3>2. CASE ~writer.failed
      <4>1. \A b \in Block : b < Position
        BY <1>3, <2>1 DEF Position
      <4>2. Block \subseteq Range(writer.placed) \union Range(writer.bad_block_offsets)
        BY <1>1, <3>2, <4>1 DEF PassedAccounted
      <4>3. 0 \in Block
        BY UnitFacts DEF Block
      <4>4. Range(writer.placed) \subseteq Block /\ Range(writer.bad_block_offsets) \subseteq Block
        BY <1>2, <4>3, RangeAppend
      <4> QED
        BY <4>2, <4>4
    <3> QED
      BY <3>1, <3>2
  <2> QED
    BY <2>1, <2>2, <2>3 DEF FullInv, PassedAccounted, FailsOnlyWhenFull
<1> QED
  BY <1>4, <1>5, <1>6, <1>7, <1>8 DEF WriterCases

\* So does every step.
LEMMA StepKeepsFull == ASSUME BaseInv, FullInv, Step PROVE FullInv'
<1>1. TypeOk /\ device \in Device
  BY DEF BaseInv, TypeOk
<1>2. CASE WriterMoves
  BY <1>2, WriterFacts, WriterKeepsFull DEF Fits
<1>3. CASE ~WriterMoves
  <2>1. writer' = writer
    BY <1>1, <1>3, ReaderFacts DEF Step, Decays, vars
  <2> QED
    BY <2>1 DEF FullInv, WriterAhead, PassedAccounted, FailsOnlyWhenFull, Position
<1> QED
  BY <1>2, <1>3

\* The blocks with data are behind the writer, and every block behind it holds data
\* or is in its list of bad blocks.
LEMMA FullInductive == Spec => []FullInv
<1>1. Init => FullInv
  <2> SUFFICES ASSUME Init PROVE FullInv
    OBVIOUS
  <2>1. writer = NoWriter /\ \A b \in Block : ~(b < 0)
    BY UnitFacts DEF Init, Block
  <2> QED
    BY <2>1, NoWriterFacts DEF FullInv, WriterAhead, PassedAccounted, FailsOnlyWhenFull, Position
<1>2. BaseInv /\ FullInv /\ [Next]_vars => FullInv'
  BY StepKeepsFull, StepKinds DEF BaseInv, TypeOk
<1> QED
  BY <1>1, <1>2, BaseInductive, PTL DEF Spec

\* mtd_write_data fails only when every block holds data of the stream or was found
\* bad or given up.
THEOREM WriteFailsWhenFull == Spec => []FailsOnlyWhenFull
<1>1. FullInv => FailsOnlyWhenFull
  BY DEF FullInv, PassedAccounted
<1> QED
  BY <1>1, FullInductive, PTL

-----------------------------------------------------------------------------
(* The order of what is written *)

\* The parts of WrittenInOrder.
Complete(w) == Len(w.stream) = E * Len(w.placed) + Len(w.stored) + Len(w.rest)
Placed(w, c) ==
    \A k \in DOMAIN w.placed, u \in 1 .. E : c[w.placed[k]][u] = w.stream[E * (k - 1) + u]
Buffered(w) == \A u \in DOMAIN w.stored : w.stored[u] = w.stream[E * Len(w.placed) + u]
Left(w) == \A u \in DOMAIN w.rest : w.rest[u] = w.stream[E * Len(w.placed) + Len(w.stored) + u]
Forward(w) == \A i, j \in DOMAIN w.placed : i < j => w.placed[i] < w.placed[j]
Ordered(w, c) == Complete(w) /\ Placed(w, c) /\ Buffered(w) /\ Left(w) /\ Forward(w)

\* WrittenInOrder is made of these parts.
LEMMA OrderParts ==
    /\ WrittenInOrder <=> (writer.at # "closed" => Ordered(writer, content)) /\ Forward(writer)
    /\ WrittenInOrder' <=> (writer'.at # "closed" => Ordered(writer', content')) /\ Forward(writer')
BY DEF WrittenInOrder, Ordered, Complete, Placed, Buffered, Left, Forward

\* The units of the first m blocks are the first E * m units.
LEMMA BlockIndex ==
    ASSUME NEW m \in Nat, NEW k \in 1 .. m, NEW u \in 1 .. E
    PROVE  E * (k - 1) + u \in 1 .. E * m /\ E * (k - 1) \in Nat /\ E * m \in Nat
<1>1. E \in Nat /\ k - 1 \in Nat /\ m - k \in Nat /\ u \in Nat /\ k \in Nat
  BY UnitFacts
<1>2. E * (k - 1) \in Nat /\ E * (m - k) \in Nat /\ E * m \in Nat
  BY <1>1
<1>3. E * m = E * (k - 1) + E + E * (m - k)
  BY <1>1, SMT
<1> QED
  BY <1>1, <1>2, <1>3

\* The units of one block more.
LEMMA BlockSum == ASSUME NEW m \in Nat PROVE E * m \in Nat /\ E * (m + 1) = E * m + E /\ E * 0 = 0
<1>1. E \in Nat
  BY UnitFacts
<1> QED
  BY <1>1, SMT

\* The order does not depend on where the context is, nor on blocks without data.
LEMMA OrderKept ==
    ASSUME NEW w, NEW v, NEW c, NEW d, Ordered(w, c),
           v.stored = w.stored, v.rest = w.rest, v.stream = w.stream, v.placed = w.placed,
           \A k \in DOMAIN w.placed : d[w.placed[k]] = c[w.placed[k]]
    PROVE  Ordered(v, d)
BY DEF Ordered, Complete, Placed, Buffered, Left, Forward

\* t is r with s before it.
Joined(s, r, t) ==
    /\ Len(t) = Len(s) + Len(r)
    /\ \A i \in 1 .. Len(s) : t[i] = s[i]
    /\ \A u \in 1 .. Len(r) : t[Len(s) + u] = r[u]

\* Concatenation joins.
LEMMA JoinedByConcat ==
    ASSUME NEW S, NEW s \in Seq(S), NEW r \in Seq(S) PROVE Joined(s, r, s \o r)
BY ConcatFacts DEF Joined

\* Data handed over goes behind what is there.
LEMMA OrderTaken ==
    ASSUME NEW w \in Writer, NEW v \in Writer, NEW c, Ordered(w, c), w.rest = <<>>,
           v.stored = w.stored, v.placed = w.placed, Joined(w.stream, v.rest, v.stream)
    PROVE  Ordered(v, c)
<1>1. /\ w.stream \in Seq(Unit) /\ v.rest \in Seq(Unit) /\ Len(w.stream) \in Nat /\ Len(v.rest) \in Nat
      /\ w.placed \in Seq(Block) /\ w.stored \in Seq(Unit) /\ Len(w.placed) \in Nat /\ Len(w.stored) \in Nat
      /\ DOMAIN w.placed = 1 .. Len(w.placed) /\ DOMAIN w.stored = 1 .. Len(w.stored)
      /\ DOMAIN v.rest = 1 .. Len(v.rest) /\ Len(w.rest) = 0
  BY WriterFields, LenProperties
<1>2. /\ Len(v.stream) = Len(w.stream) + Len(v.rest)
      /\ \A i \in 1 .. Len(w.stream) : v.stream[i] = w.stream[i]
      /\ \A u \in 1 .. Len(v.rest) : v.stream[Len(w.stream) + u] = v.rest[u]
  BY DEF Joined
<1>3. E * Len(w.placed) \in Nat /\ Len(w.stream) = E * Len(w.placed) + Len(w.stored)
  <2>1. E * Len(w.placed) \in Nat
    BY <1>1, BlockSum
  <2>2. Len(w.stream) = E * Len(w.placed) + Len(w.stored) + Len(w.rest)
    BY DEF Ordered, Complete
  <2> QED
    BY <1>1, <2>1, <2>2
<1> DEFINE written == E * Len(w.placed)
<1>4. Complete(v)
  BY <1>1, <1>2, <1>3 DEF Complete
<1>5. Placed(v, c)
  <2> SUFFICES ASSUME NEW k \in DOMAIN w.placed, NEW u \in 1 .. E
               PROVE  c[w.placed[k]][u] = v.stream[E * (k - 1) + u]
    BY DEF Placed
  <2>1. E * (k - 1) + u \in 1 .. written /\ written \in Nat
    BY <1>1, BlockIndex
  <2>2. E * (k - 1) + u \in 1 .. Len(w.stream)
    <3> HIDE DEF written
    <3> QED
      BY <1>1, <1>3, <2>1 DEF written
  <2> QED
    BY <1>2, <2>2 DEF Ordered, Placed
<1>6. Buffered(v)
  <2> SUFFICES ASSUME NEW u \in DOMAIN w.stored PROVE w.stored[u] = v.stream[written + u]
    BY DEF Buffered
  <2>1. written + u \in 1 .. Len(w.stream)
    BY <1>1, <1>3
  <2> QED
    BY <1>2, <2>1 DEF Ordered, Buffered
<1>7. Left(v)
  BY <1>1, <1>2, <1>3 DEF Left
<1> QED
  BY <1>4, <1>5, <1>6, <1>7 DEF Ordered, Forward

\* Moving units from the caller's data to the buffer keeps their place.
LEMMA OrderCollected ==
    ASSUME NEW w \in Writer, NEW v \in Writer, NEW c, Ordered(w, c), NEW n \in 0 .. Len(w.rest),
           NEW head \in Seq(Unit), Len(head) = n, \A i \in 1 .. n : head[i] = w.rest[i],
           Joined(w.stored, head, v.stored), Len(v.rest) = Len(w.rest) - n,
           \A i \in 1 .. Len(w.rest) - n : v.rest[i] = w.rest[n + i],
           v.placed = w.placed, v.stream = w.stream
    PROVE  Ordered(v, c)
<1>1. /\ w.rest \in Seq(Unit) /\ Len(w.rest) \in Nat /\ DOMAIN w.rest = 1 .. Len(w.rest)
      /\ w.stored \in Seq(Unit) /\ Len(w.placed) \in Nat /\ Len(w.stored) \in Nat
      /\ DOMAIN w.stored = 1 .. Len(w.stored) /\ n \in Nat
  BY WriterFields, LenProperties
<1>2. Len(v.rest) = Len(w.rest) - n /\ \A i \in 1 .. Len(w.rest) - n : v.rest[i] = w.rest[n + i]
  OBVIOUS
<1>3. /\ Len(v.stored) = Len(w.stored) + n
      /\ \A i \in 1 .. Len(w.stored) : v.stored[i] = w.stored[i]
      /\ \A u \in 1 .. n : v.stored[Len(w.stored) + u] = w.rest[u]
  BY DEF Joined
<1>4. DOMAIN v.stored = 1 .. Len(w.stored) + n /\ DOMAIN v.rest = 1 .. Len(w.rest) - n
  <2>1. v.stored \in Seq(Unit) /\ v.rest \in Seq(Unit)
    BY WriterFields
  <2> QED
    BY <1>2, <1>3, <2>1, LenProperties
<1>5. E * Len(w.placed) \in Nat
  BY <1>1, BlockSum
<1> DEFINE written == E * Len(w.placed)
<1>6. Complete(v)
  <2>1. /\ Len(v.stream) = E * Len(v.placed) + Len(w.stored) + Len(w.rest)
        /\ Len(v.placed) = Len(w.placed)
    BY DEF Complete, Ordered
  <2> QED
    BY <1>1, <1>2, <1>3, <1>5, <2>1 DEF Complete
<1>7. Placed(v, c) /\ Forward(v)
  BY DEF Placed, Forward, Ordered
<1>8. Buffered(v)
  <2> SUFFICES ASSUME NEW u \in 1 .. Len(w.stored) + n PROVE v.stored[u] = w.stream[written + u]
    BY <1>4 DEF Buffered
  <2>1. CASE u <= Len(w.stored)
    <3>1. u \in DOMAIN w.stored
      BY <1>1, <2>1
    <3> QED
      BY <1>3, <2>1, <3>1 DEF Ordered, Buffered
  <2>2. CASE ~(u <= Len(w.stored))
    <3>1. u - Len(w.stored) \in DOMAIN w.rest /\ u - Len(w.stored) \in 1 .. n
      BY <1>1, <2>2
    <3>4. v.stored[Len(w.stored) + (u - Len(w.stored))] = w.rest[u - Len(w.stored)]
      BY <1>3, <3>1
    <3>5. Len(w.stored) + (u - Len(w.stored)) = u
      BY <1>1
    <3>2. written + Len(w.stored) + (u - Len(w.stored)) = written + u
      <4> HIDE DEF written
      <4> QED
        BY <1>1, <1>5 DEF written
    <3>3. w.rest[u - Len(w.stored)] = w.stream[written + Len(w.stored) + (u - Len(w.stored))]
      BY <3>1 DEF Ordered, Left
    <3> QED
      BY <3>2, <3>3, <3>4, <3>5
  <2> QED
    BY <2>1, <2>2
<1>9. Left(v)
  <2> SUFFICES ASSUME NEW u \in 1 .. Len(w.rest) - n
               PROVE  v.rest[u] = w.stream[written + Len(v.stored) + u]
    BY <1>4 DEF Left
  <2>1. n + u \in DOMAIN w.rest
    BY <1>1
  <2>2. written + Len(w.stored) + (n + u) = written + Len(v.stored) + u
    <3> HIDE DEF written
    <3> QED
      BY <1>1, <1>3, <1>5 DEF written
  <2>3. w.rest[n + u] = w.stream[written + Len(w.stored) + (n + u)]
    BY <2>1 DEF Ordered, Left
  <2> QED
    BY <1>2, <2>2, <2>3
<1> QED
  BY <1>6, <1>7, <1>8, <1>9 DEF Ordered

\* Arithmetic of positions in a stream of three parts.
LEMMA InFront ==
    ASSUME NEW a \in Nat, NEW b \in Nat, NEW c \in Nat
    PROVE  /\ \A i \in 1 .. a : i \in 1 .. a + b + c
           /\ \A i \in 1 .. b : a + i \in 1 .. a + b + c
OBVIOUS

\* A position behind an empty third part.
LEMMA BehindIt ==
    ASSUME NEW a \in Nat, NEW b \in Nat, NEW c \in Nat, NEW e \in Nat, NEW u \in Nat, c = 0, b + e = u
    PROVE  a + b + c + e = a + u
OBVIOUS

\* The block b is written with the next E units of the stream.
NextBlock(w, v, c, d, b) ==
    /\ v.stored = <<>> /\ v.placed = Append(w.placed, b)
    /\ \A i \in 1 .. Len(w.stream) : v.stream[i] = w.stream[i]
    /\ \A k \in DOMAIN w.placed : d[w.placed[k]] = c[w.placed[k]] /\ w.placed[k] < b
    /\ Len(v.stream) = E * Len(w.placed) + E + Len(v.rest)
    /\ \A u \in 1 .. E : d[b][u] = v.stream[E * Len(w.placed) + u]
    /\ \A u \in 1 .. Len(v.rest) : v.rest[u] = v.stream[E * Len(w.placed) + E + u]

\* After that block everything is in order again.
LEMMA OrderWritten ==
    ASSUME NEW w \in Writer, NEW v \in Writer, NEW c, NEW d, NEW b \in Block,
           Ordered(w, c), NextBlock(w, v, c, d, b)
    PROVE  Ordered(v, d)
<1>1. /\ w.placed \in Seq(Block) /\ Len(w.placed) \in Nat /\ Len(w.stored) \in Nat /\ Len(w.rest) \in Nat
      /\ v.rest \in Seq(Unit) /\ DOMAIN v.rest = 1 .. Len(v.rest) /\ Len(v.rest) \in Nat
      /\ Len(w.stream) \in Nat
  BY WriterFields, LenProperties
<1>2. /\ Len(v.placed) = Len(w.placed) + 1 /\ DOMAIN v.placed = 1 .. Len(w.placed) + 1
      /\ DOMAIN w.placed = 1 .. Len(w.placed)
      /\ \A k \in DOMAIN v.placed : k \in DOMAIN w.placed \/ k = Len(w.placed) + 1
      /\ \A k \in DOMAIN w.placed : v.placed[k] = w.placed[k]
      /\ v.placed[Len(w.placed) + 1] = b
  <2>1. v.placed = Append(w.placed, b)
    BY DEF NextBlock
  <2> QED
    BY <1>1, <2>1, AppendFacts
<1>3. Len(v.stored) = 0 /\ DOMAIN v.stored = {}
  BY UnitFacts DEF NextBlock
<1>4. /\ E * Len(w.placed) \in Nat /\ E * Len(v.placed) = E * Len(w.placed) + E
      /\ Len(w.stream) = E * Len(w.placed) + Len(w.stored) + Len(w.rest) /\ E \in Nat
  BY <1>1, <1>2, BlockSum, UnitFacts DEF Ordered, Complete
<1> DEFINE written == E * Len(w.placed)
<1>5. Complete(v)
  <2>1. Len(v.stream) = E * Len(w.placed) + E + Len(v.rest)
    BY DEF NextBlock
  <2>2. Len(v.stream) = E * Len(v.placed) + Len(v.rest)
    BY <1>4, <2>1
  <2>3. E * Len(v.placed) + Len(v.stored) = E * Len(v.placed)
    <3>1. E * Len(v.placed) \in Nat
      BY <1>4
    <3> HIDE DEF written
    <3> QED
      BY <1>3, <3>1
  <2> QED
    BY <2>2, <2>3 DEF Complete
<1>6. Placed(v, d)
  <2> SUFFICES ASSUME NEW k \in DOMAIN v.placed, NEW u \in 1 .. E
               PROVE  d[v.placed[k]][u] = v.stream[E * (k - 1) + u]
    BY DEF Placed
  <2>1. CASE k \in DOMAIN w.placed
    <3>1. E * (k - 1) + u \in 1 .. written
      BY <1>1, <1>2, <2>1, BlockIndex
    <3>2. E * (k - 1) + u \in 1 .. Len(w.stream)
      <4> DEFINE at == E * (k - 1) + u
      <4>1. at \in 1 .. written /\ written \in Nat
        BY <1>4, <3>1
      <4>2. Len(w.stream) = written + Len(w.stored) + Len(w.rest)
        BY <1>4
      <4> HIDE DEF written, at
      <4>3. Len(w.stored) \in Nat /\ Len(w.rest) \in Nat
        BY <1>1
      <4>4. at \in 1 .. written + Len(w.stored) + Len(w.rest)
        BY <4>1, <4>3, InFront
      <4> QED
        BY <4>2, <4>4 DEF at
    <3>3. c[w.placed[k]][u] = w.stream[E * (k - 1) + u]
      BY <2>1 DEF Ordered, Placed
    <3> QED
      BY <1>2, <2>1, <3>2, <3>3 DEF NextBlock
  <2>2. CASE k = Len(w.placed) + 1
    <3>1. k - 1 = Len(w.placed) /\ v.placed[k] = b
      BY <1>1, <1>2, <2>2
    <3> QED
      BY <3>1 DEF NextBlock
  <2> QED
    BY <1>2, <2>1, <2>2
<1>7. Buffered(v)
  BY <1>3 DEF Buffered
<1>8. Left(v)
  <2> SUFFICES ASSUME NEW u \in 1 .. Len(v.rest)
               PROVE  v.rest[u] = v.stream[E * Len(v.placed) + Len(v.stored) + u]
    BY <1>1 DEF Left
  <2>1. E * Len(v.placed) + Len(v.stored) + u = E * Len(w.placed) + E + u
    BY <1>3, <1>4
  <2> QED
    BY <2>1 DEF NextBlock
<1>9. Forward(v)
  <2> SUFFICES ASSUME NEW i \in DOMAIN v.placed, NEW j \in DOMAIN v.placed, i < j
               PROVE  v.placed[i] < v.placed[j]
    BY DEF Forward
  <2>1. i \in DOMAIN w.placed
    BY <1>1, <1>2
  <2>2. CASE j \in DOMAIN w.placed
    BY <1>2, <2>1, <2>2 DEF Ordered, Forward
  <2>3. CASE j = Len(w.placed) + 1
    BY <1>2, <2>1, <2>3 DEF NextBlock
  <2> QED
    BY <1>2, <2>2, <2>3
<1> QED
  BY <1>5, <1>6, <1>7, <1>8, <1>9 DEF Ordered

\* write_block writes the next E units of the stream, padded at its end.
LEMMA OrderOfWrites ==
    ASSUME BaseInv, FullInv, Ordered(writer, content), Writes, writer' \in Writer
    PROVE  Ordered(writer', content')
<1>1. /\ Fits(writer) /\ writer \in Writer /\ content \in [Block -> [1 .. E -> Unit]]
      /\ WriterAhead /\ writer.at = "write_block" /\ writer.pos \in Block
  BY DEF BaseInv, FullInv, TypeOk, WriterShape, Fits, Shape, Writes
<1>2. /\ writer.stored \in Seq(Unit) /\ writer.rest \in Seq(Unit) /\ writer.stream \in Seq(Unit)
      /\ Len(writer.stored) \in Nat /\ Len(writer.rest) \in Nat /\ Len(writer.stream) \in Nat
      /\ Len(writer.placed) \in Nat /\ E \in Nat /\ E > 0 /\ writer.placed \in Seq(Block)
      /\ writer.stored = <<>> <=> Len(writer.stored) = 0
      /\ writer.rest = <<>> <=> Len(writer.rest) = 0
  BY <1>1, WriterFields, UnitFacts
<1> DEFINE written == E * Len(writer.placed)
           pad == Padding(writer)
           data == BlockData(writer)
<1>3. /\ writer'.stored = <<>> /\ writer'.placed = Append(writer.placed, writer.pos)
      /\ writer'.stream = writer.stream \o pad
      /\ writer'.rest = IF Direct(writer) THEN SubSeq(writer.rest, E + 1, Len(writer.rest)) ELSE writer.rest
      /\ content' = [content EXCEPT ![writer.pos] = data]
  BY DEF Writes
<1>4. /\ data \in [1 .. E -> Unit] /\ pad \in Seq(Unit) /\ Len(pad) \in Nat
      /\ Direct(writer) => /\ Len(writer.rest) >= E /\ pad = <<>>
                           /\ data = SubSeq(writer.rest, 1, E)
      /\ ~Direct(writer) => /\ Len(pad) = E - Len(writer.stored)
                            /\ writer.rest = <<>> \/ Len(writer.stored) = E
                            /\ data = writer.stored \o pad
  BY <1>1, BlockFacts, LenProperties
<1>5. written \in Nat /\ Len(writer.stream) = written + Len(writer.stored) + Len(writer.rest)
  BY <1>2, BlockSum DEF Ordered, Complete
<1> HIDE DEF written, pad, data
<1>6. Joined(writer.stream, pad, writer'.stream)
  BY <1>2, <1>3, <1>4, JoinedByConcat
<1>7. /\ \A u \in 1 .. E : content'[writer.pos][u] = data[u]
      /\ \A k \in DOMAIN writer.placed :
            content'[writer.placed[k]] = content[writer.placed[k]] /\ writer.placed[k] < writer.pos
  <2>1. \A k \in DOMAIN writer.placed : writer.placed[k] < writer.pos /\ writer.placed[k] \in Block
    <3> TAKE k \in DOMAIN writer.placed
    <3>1. writer.placed[k] < writer.fd /\ writer.fd <= writer.pos /\ writer.placed[k] \in Block
      BY <1>1, <1>2, LenProperties, ElementOfSeq DEF WriterAhead
    <3>2. writer.fd \in Nat /\ writer.pos \in Nat /\ writer.placed[k] \in Nat
      BY <1>1, <3>1, WriterFields DEF Block
    <3> QED
      BY <3>1, <3>2
  <2>2. \A k \in DOMAIN writer.placed : writer.placed[k] # writer.pos
    <3> TAKE k \in DOMAIN writer.placed
    <3>1. writer.pos \in Nat /\ writer.placed[k] < writer.pos
      BY <1>1, <2>1, WriterFields
    <3> QED
      BY <3>1
  <2> QED
    BY <1>1, <1>3, <2>1, <2>2
<1>8. /\ Len(writer'.stream) = written + E + Len(writer'.rest)
      /\ \A u \in 1 .. E : data[u] = writer'.stream[written + u]
      /\ \A u \in 1 .. Len(writer'.rest) : writer'.rest[u] = writer'.stream[written + E + u]
  <2>1. /\ Len(writer'.stream) = Len(writer.stream) + Len(pad)
        /\ \A i \in 1 .. Len(writer.stream) : writer'.stream[i] = writer.stream[i]
        /\ \A u \in 1 .. Len(pad) : writer'.stream[Len(writer.stream) + u] = pad[u]
    BY <1>6 DEF Joined
  <2>2. /\ \A u \in 1 .. Len(writer.stored) : writer.stored[u] = writer.stream[written + u]
        /\ \A u \in 1 .. Len(writer.rest) :
              writer.rest[u] = writer.stream[written + Len(writer.stored) + u]
    BY <1>2, LenProperties DEF Ordered, Buffered, Left, written
  <2>3. CASE Direct(writer)
    <3>1. /\ writer.stored = <<>> /\ Len(writer.stored) = 0 /\ Len(pad) = 0
          /\ writer'.rest = SubSeq(writer.rest, E + 1, Len(writer.rest)) /\ Len(writer.rest) >= E
      BY <1>3, <1>4, <2>3, UnitFacts DEF Direct
    <3>2. E \in 0 .. Len(writer.rest)
      BY <1>2, <3>1
    <3>3. /\ \A u \in 1 .. E : data[u] = writer.rest[u]
          /\ Len(writer'.rest) = Len(writer.rest) - E
          /\ \A u \in 1 .. Len(writer.rest) - E : writer'.rest[u] = writer.rest[E + u]
      BY <1>2, <1>4, <2>3, <3>1, <3>2, CutFacts
    <3>4. Len(writer'.stream) = written + E + Len(writer'.rest)
      BY <1>2, <1>5, <2>1, <3>1, <3>3
    <3>5. \A u \in 1 .. Len(writer.rest) : writer.rest[u] = writer'.stream[written + u]
      <4> TAKE u \in 1 .. Len(writer.rest)
      <4>1. written + Len(writer.stored) + u = written + u /\ written + u \in 1 .. Len(writer.stream)
        BY <1>2, <1>5, <3>1
      <4> QED
        BY <2>1, <2>2, <4>1
    <3>6. \A u \in 1 .. E : data[u] = writer'.stream[written + u]
      <4> TAKE u \in 1 .. E
      <4>1. u \in 1 .. Len(writer.rest)
        BY <1>2, <3>1
      <4> QED
        BY <3>3, <3>5, <4>1
    <3>7. \A u \in 1 .. Len(writer'.rest) : writer'.rest[u] = writer'.stream[written + E + u]
      <4> TAKE u \in 1 .. Len(writer'.rest)
      <4>1. E + u \in 1 .. Len(writer.rest) /\ u \in 1 .. Len(writer.rest) - E
            /\ written + (E + u) = written + E + u
        BY <1>2, <1>5, <3>3
      <4> QED
        BY <3>3, <3>5, <4>1
    <3> QED
      BY <3>4, <3>6, <3>7
  <2>4. CASE ~Direct(writer)
    <3>1. /\ writer'.rest = writer.rest /\ Len(pad) = E - Len(writer.stored) /\ data = writer.stored \o pad
          /\ Len(writer.rest) = 0 \/ Len(writer.stored) = E
      BY <1>2, <1>3, <1>4, <2>4
    <3>2. Joined(writer.stored, pad, data)
      BY <1>2, <1>4, <3>1, JoinedByConcat
    <3>3. /\ \A i \in 1 .. Len(writer.stored) : data[i] = writer.stored[i]
          /\ \A u \in 1 .. Len(pad) : data[Len(writer.stored) + u] = pad[u]
      BY <3>2 DEF Joined
    <3>4. Len(writer'.stream) = written + E + Len(writer'.rest)
      <4> DEFINE a == Len(writer.stored)
                 r == Len(writer.rest)
      <4>1. written \in Nat /\ a \in Nat /\ r \in Nat /\ E \in Nat
        BY <1>2, <1>5
      <4> HIDE DEF a, r
      <4>2. written + a + r + (E - a) = written + E + r
        BY <4>1
      <4>3. Len(writer'.rest) = Len(writer.rest)
        BY <3>1
      <4> QED
        BY <1>5, <2>1, <3>1, <4>2, <4>3 DEF a, r
    <3>5. \A u \in 1 .. E : data[u] = writer'.stream[written + u]
      <4> TAKE u \in 1 .. E
      <4>1. CASE u <= Len(writer.stored)
        <5>1. u \in 1 .. Len(writer.stored)
          BY <1>2, <4>1
        <5>2. written + u \in 1 .. Len(writer.stream)
          BY <1>2, <1>5, <5>1, InFront
        <5> QED
          BY <2>1, <2>2, <3>3, <5>1, <5>2
      <4>2. CASE ~(u <= Len(writer.stored))
        <5> DEFINE e == u - Len(writer.stored)
        <5>1. e \in 1 .. Len(pad) /\ Len(writer.stored) + e = u
          BY <1>2, <3>1, <4>2
        <5>2. Len(writer.rest) = 0
          BY <1>2, <3>1, <4>2
        <5>3. Len(writer.stream) + e = written + u
          <6>1. e \in Nat /\ u \in Nat
            BY <1>2, <1>4, <5>1
          <6>2. written \in Nat /\ Len(writer.stored) \in Nat /\ Len(writer.rest) \in Nat
            BY <1>2, <1>5
          <6>3. Len(writer.stored) + e = u
            BY <5>1
          <6> HIDE DEF e
          <6>4. written + Len(writer.stored) + Len(writer.rest) + e = written + u
            BY <5>2, <6>1, <6>2, <6>3, BehindIt
          <6> QED
            BY <1>5, <6>4
        <5> HIDE DEF e
        <5>4. data[Len(writer.stored) + e] = pad[e] /\ writer'.stream[Len(writer.stream) + e] = pad[e]
          BY <2>1, <3>3, <5>1
        <5> QED
          BY <5>1, <5>3, <5>4
      <4> QED
        BY <4>1, <4>2
    <3>6. \A u \in 1 .. Len(writer'.rest) : writer'.rest[u] = writer'.stream[written + E + u]
      <4> TAKE u \in 1 .. Len(writer'.rest)
      <4>1. u \in 1 .. Len(writer.rest) /\ Len(writer.stored) = E
        BY <1>2, <3>1
      <4>2. written + E + u \in 1 .. Len(writer.stream)
        BY <1>2, <1>5, <4>1
      <4> QED
        BY <2>1, <2>2, <3>1, <4>1, <4>2
    <3> QED
      BY <3>4, <3>5, <3>6
  <2> QED
    BY <2>3, <2>4
<1>9. \A i \in 1 .. Len(writer.stream) : writer'.stream[i] = writer.stream[i]
  BY <1>6 DEF Joined
<1>10. /\ Len(writer'.stream) = E * Len(writer.placed) + E + Len(writer'.rest)
       /\ \A u \in 1 .. E : content'[writer.pos][u] = writer'.stream[E * Len(writer.placed) + u]
       /\ \A u \in 1 .. Len(writer'.rest) : writer'.rest[u] = writer'.stream[E * Len(writer.placed) + E + u]
  BY <1>7, <1>8 DEF written
<1>11. writer'.stored = <<>> /\ writer'.placed = Append(writer.placed, writer.pos)
  BY <1>3
<1> QED
  <2> DEFINE v == writer'
             d == content'
  <2>1. v \in Writer /\ writer \in Writer /\ writer.pos \in Block
    BY <1>1
  <2>2. v.stored = <<>> /\ v.placed = Append(writer.placed, writer.pos)
    BY <1>11
  <2>3. \A k \in DOMAIN writer.placed :
            d[writer.placed[k]] = content[writer.placed[k]] /\ writer.placed[k] < writer.pos
    BY <1>7
  <2>4. /\ \A i \in 1 .. Len(writer.stream) : v.stream[i] = writer.stream[i]
        /\ Len(v.stream) = E * Len(writer.placed) + E + Len(v.rest)
        /\ \A u \in 1 .. E : d[writer.pos][u] = v.stream[E * Len(writer.placed) + u]
        /\ \A u \in 1 .. Len(v.rest) : v.rest[u] = v.stream[E * Len(writer.placed) + E + u]
    BY <1>9, <1>10
  <2> HIDE DEF v, d
  <2>5. NextBlock(writer, v, content, d, writer.pos)
    BY <2>2, <2>3, <2>4 DEF NextBlock
  <2>6. Ordered(v, d)
    BY <2>1, <2>5, OrderWritten
  <2> QED
    BY <2>6 DEF v, d

\* Every step of the writer keeps the order.
LEMMA WriterKeepsOrder ==
    ASSUME BaseInv, FullInv, WrittenInOrder, WriterCases, writer' \in Writer
    PROVE  WrittenInOrder'
<1>1. writer \in Writer /\ WriterAhead /\ WriterShape /\ N \in Nat
  BY UnitFacts DEF BaseInv, TypeOk, FullInv
<1>2. \A k \in DOMAIN writer.placed : writer.placed[k] \in Block /\ writer.placed[k] < writer.fd
  <2>1. writer.placed \in Seq(Block)
    BY <1>1, WriterFields
  <2> QED
    BY <1>1, <2>1, LenProperties, ElementOfSeq DEF WriterAhead
<1>3. writer.at # "closed" => Ordered(writer, content)
  BY OrderParts
<1>4. Ordered(writer', content') => WrittenInOrder'
  BY OrderParts DEF Ordered
<1>5. CASE Opens \/ Closes
  <2>1. /\ writer'.placed = <<>> /\ writer'.stored = <<>> /\ writer'.rest = <<>> /\ writer'.stream = <<>>
    BY <1>5, NoWriterFacts DEF Opens, Closes
  <2>2. Complete(writer')
    BY <2>1, UnitFacts, BlockSum DEF Complete
  <2>3. Placed(writer', content') /\ Buffered(writer') /\ Left(writer') /\ Forward(writer')
    BY <2>1, NoWriterFacts DEF Placed, Buffered, Left, Forward
  <2> QED
    BY <1>4, <2>2, <2>3 DEF Ordered
<1>6. CASE Carries
  <2>1. Ordered(writer, content)
    BY <1>3, <1>6 DEF Carries
  <2>2. \A k \in DOMAIN writer.placed : content'[writer.placed[k]] = content[writer.placed[k]]
    <3> TAKE k \in DOMAIN writer.placed
    <3>1. writer.placed[k] \in Block /\ ~(writer.fd <= writer.placed[k])
      BY <1>1, <1>2, WriterFields DEF Block
    <3> QED
      BY <1>6, <3>1 DEF Carries
  <2>3. Ordered(writer', content')
    BY <1>6, <2>1, <2>2, OrderKept DEF Carries, SameData
  <2> QED
    BY <1>4, <2>3
<1>7. CASE Takes
  <2>1. /\ writer.at = "open" /\ ~writer.failed /\ content' = content
        /\ writer'.stored = writer.stored /\ writer'.placed = writer.placed
        /\ writer'.stream = writer.stream \o writer'.rest
    BY <1>1, <1>7 DEF Takes, SameData, Writer
  <2>2. Ordered(writer, content) /\ writer.rest = <<>>
    BY <1>1, <1>3, <2>1 DEF WriterShape
  <2>3. Joined(writer.stream, writer'.rest, writer'.stream)
    <3>1. writer.stream \in Seq(Unit) /\ writer'.rest \in Seq(Unit)
      BY <1>1, WriterFields
    <3> QED
      BY <2>1, <3>1, JoinedByConcat
  <2>4. Ordered(writer', content)
    BY <1>1, <2>1, <2>2, <2>3, OrderTaken
  <2> QED
    BY <1>4, <2>1, <2>4
<1>8. CASE Collects
  <2>1. PICK n \in 0 .. Len(writer.rest) :
            /\ writer'.stored = writer.stored \o SubSeq(writer.rest, 1, n)
            /\ writer'.rest = SubSeq(writer.rest, n + 1, Len(writer.rest))
    BY <1>8 DEF Collects
  <2>2. /\ content' = content /\ writer.at # "closed"
        /\ writer'.placed = writer.placed /\ writer'.stream = writer.stream
    BY <1>1, <1>8 DEF Collects, SameData, Writer
  <2> DEFINE head == SubSeq(writer.rest, 1, n)
  <2>3. /\ head \in Seq(Unit) /\ Len(head) = n /\ \A i \in 1 .. n : head[i] = writer.rest[i]
        /\ Len(writer'.rest) = Len(writer.rest) - n
        /\ \A i \in 1 .. Len(writer.rest) - n : writer'.rest[i] = writer.rest[n + i]
    <3>1. writer.rest \in Seq(Unit)
      BY <1>1, WriterFields
    <3> QED
      BY <2>1, <3>1, CutFacts
  <2>4. Joined(writer.stored, head, writer'.stored)
    <3>1. writer.stored \in Seq(Unit)
      BY <1>1, WriterFields
    <3> QED
      BY <2>1, <2>3, <3>1, JoinedByConcat
  <2>5. Ordered(writer, content)
    BY <1>3, <2>2
  <2> HIDE DEF head
  <2>6. Ordered(writer', content)
    BY <1>1, <2>1, <2>2, <2>3, <2>4, <2>5, OrderCollected
  <2> QED
    BY <1>4, <2>2, <2>6
<1>9. CASE Skips
  <2>1. /\ writer.at = "write_block" /\ writer'.stored = writer.stored /\ writer'.rest = writer.rest
        /\ writer'.stream = writer.stream /\ writer'.placed = writer.placed
        /\ \A b \in Block : b = writer.pos \/ content'[b] = content[b]
    BY <1>1, <1>9 DEF Skips, SameData, Writer
  <2>2. \A k \in DOMAIN writer.placed : content'[writer.placed[k]] = content[writer.placed[k]]
    <3> TAKE k \in DOMAIN writer.placed
    <3>1. writer.placed[k] \in Block /\ writer.placed[k] # writer.pos
      <4>1. writer.placed[k] \in Block /\ writer.placed[k] < writer.fd /\ writer.fd <= writer.pos
        BY <1>1, <1>2, <2>1 DEF WriterAhead
      <4> QED
        BY <1>1, <4>1, WriterFields DEF Block
    <3> QED
      BY <2>1, <3>1
  <2>3. Ordered(writer, content)
    BY <1>3, <2>1
  <2>4. Ordered(writer', content')
    BY <2>1, <2>2, <2>3, OrderKept
  <2> QED
    BY <1>4, <2>4
<1>10. CASE Writes
  <2>1. Ordered(writer, content)
    BY <1>3, <1>10 DEF Writes
  <2> QED
    BY <1>4, <1>10, <2>1, OrderOfWrites
<1>11. CASE Fails
  <2>1. /\ writer.at = "write_block" /\ writer'.stored = writer.stored /\ writer'.rest = writer.rest
        /\ writer'.stream = writer.stream /\ writer'.placed = writer.placed /\ content' = content
    BY <1>1, <1>11 DEF Fails, SameData, Writer
  <2>2. Ordered(writer, content)
    BY <1>3, <2>1
  <2>3. Ordered(writer', content')
    BY <2>1, <2>2, OrderKept
  <2> QED
    BY <1>4, <2>3
<1> QED
  BY <1>5, <1>6, <1>7, <1>8, <1>9, <1>10, <1>11 DEF WriterCases

\* So does every step.
LEMMA StepKeepsOrder == ASSUME BaseInv, FullInv, WrittenInOrder, Step PROVE WrittenInOrder'
<1>1. TypeOk /\ device \in Device
  BY DEF BaseInv, TypeOk
<1>2. CASE WriterMoves
  BY <1>2, WriterFacts, WriterKeepsOrder DEF Fits
<1>3. CASE ~WriterMoves
  <2>1. writer' = writer /\ content' = content
    BY <1>1, <1>3, ReaderFacts DEF Step, Decays, vars
  <2> QED
    BY <2>1, OrderParts
<1> QED
  BY <1>2, <1>3

\* The blocks written, the buffer and what is left of the caller's data are always
\* the stream the writer was given, in order and without loss.
THEOREM NothingIsLostOrMoved == Spec => []WrittenInOrder
<1>1. Init => WrittenInOrder
  <2> SUFFICES ASSUME Init PROVE WrittenInOrder
    OBVIOUS
  <2>1. writer = NoWriter
    BY DEF Init
  <2>2. writer.at = "closed" /\ Forward(writer)
    BY <2>1, NoWriterFacts DEF Forward
  <2> QED
    BY <2>2, OrderParts
<1>2. BaseInv /\ FullInv /\ WrittenInOrder /\ [Next]_vars => WrittenInOrder'
  BY StepKeepsOrder, StepKinds DEF BaseInv, TypeOk
<1> QED
  BY <1>1, <1>2, BaseInductive, FullInductive, PTL DEF Spec

-----------------------------------------------------------------------------
(* The order of the list of bad blocks *)

Increasing(s) == \A i, j \in DOMAIN s : i < j => s[i] < s[j]

\* A list grows in order when what is put at its end is above all of it.
LEMMA IncreasingAppend ==
    ASSUME NEW s \in Seq(Block), NEW b \in Block, Increasing(s), \A i \in DOMAIN s : s[i] < b
    PROVE  Increasing(Append(s, b)) /\ \A i \in DOMAIN Append(s, b) : Append(s, b)[i] < b + 1
<1>1. /\ \A i \in DOMAIN Append(s, b) : i \in DOMAIN s \/ i = Len(s) + 1
      /\ \A i \in DOMAIN s : Append(s, b)[i] = s[i] /\ s[i] \in Block /\ i <= Len(s)
      /\ Append(s, b)[Len(s) + 1] = b /\ Len(s) \in Nat /\ DOMAIN s = 1 .. Len(s)
  BY AppendFacts
<1>2. b \in Nat /\ \A c \in Block : c \in Nat
  BY UnitFacts DEF Block
<1>3. ASSUME NEW i \in DOMAIN Append(s, b), NEW j \in DOMAIN Append(s, b), i < j
      PROVE  Append(s, b)[i] < Append(s, b)[j]
  <2>1. i \in DOMAIN s
    BY <1>1, <1>3
  <2> QED
    BY <1>1, <1>3, <2>1 DEF Increasing
<1>4. ASSUME NEW i \in DOMAIN Append(s, b) PROVE Append(s, b)[i] < b + 1
  <2>1. CASE i \in DOMAIN s
    <3>1. Append(s, b)[i] \in Nat /\ Append(s, b)[i] < b
      BY <1>1, <1>2, <2>1
    <3> QED
      BY <1>2, <3>1
  <2>2. CASE i = Len(s) + 1
    BY <1>1, <1>2, <2>2
  <2> QED
    BY <1>1, <1>4, <2>1, <2>2
<1> QED
  BY <1>3, <1>4 DEF Increasing

\* A context that moves on, with or without using the block, stays dense.
LEMMA DenseFacts ==
    ASSUME NEW s \in Seq(Block), NEW n \in Nat, Dense(s, n)
    PROVE  /\ \A m \in Nat : n <= m => Dense(s, m)
           /\ \A b \in Block : n <= b => Dense(Append(s, b), b + 1)
           /\ Dense(<<>>, 0)
<1>1. Len(s) \in Nat /\ Len(s) <= n /\ (Len(s) = n => \A k \in 1 .. n : s[k] = k - 1)
  BY LenProperties DEF Dense
<1>2. ASSUME NEW m \in Nat, n <= m PROVE Dense(s, m)
  <2>1. Len(s) <= m /\ (Len(s) = m => m = n)
    BY <1>1, <1>2
  <2> QED
    BY <1>1, <2>1 DEF Dense
<1>3. ASSUME NEW b \in Block, n <= b PROVE Dense(Append(s, b), b + 1)
  <2>1. b \in Nat
    BY UnitFacts DEF Block
  <2>2. /\ Len(Append(s, b)) = Len(s) + 1 /\ DOMAIN s = 1 .. Len(s)
        /\ \A i \in DOMAIN s : Append(s, b)[i] = s[i]
        /\ Append(s, b)[Len(s) + 1] = b
    BY AppendFacts
  <2>3. ASSUME Len(s) + 1 = b + 1, NEW k \in 1 .. b + 1 PROVE Append(s, b)[k] = k - 1
    <3>1. Len(s) = n /\ n = b
      BY <1>1, <1>3, <2>1, <2>3
    <3>2. CASE k \in 1 .. n
      BY <1>1, <2>2, <3>1, <3>2
    <3>3. CASE k = n + 1
      BY <2>1, <2>2, <3>1, <3>3
    <3> QED
      BY <2>3, <3>1, <3>2, <3>3
  <2>4. Len(s) + 1 <= b + 1
    BY <1>1, <1>3, <2>1
  <2> QED
    BY <2>2, <2>3, <2>4 DEF Dense
<1>4. Dense(<<>>, 0)
  BY UnitFacts DEF Dense
<1> QED
  BY <1>2, <1>3, <1>4

\* The writer's steps keep its lists in order.
LEMMA WriterKeepsLists ==
    ASSUME BaseInv, FullInv, ListInOrder, WriterCases, writer' \in Writer, device'.bad = device.bad
    PROVE  ListInOrder'
<1>1. writer \in Writer /\ WriterAhead /\ N \in Nat
  BY UnitFacts DEF BaseInv, TypeOk, FullInv
<1>2. /\ writer.fd \in Nat /\ writer.fd <= N /\ writer.pos \in Nat /\ writer.pos <= N
      /\ writer.placed \in Seq(Block) /\ writer.bad_block_offsets \in Seq(Block)
  BY <1>1, WriterFields
<1>3. /\ ~writer.failed =>
             /\ Increasing(writer.bad_block_offsets)
             /\ \A i \in DOMAIN writer.bad_block_offsets : writer.bad_block_offsets[i] < Position
             /\ Range(writer.bad_block_offsets) \intersect Range(writer.placed) = {}
      /\ Range(writer.placed) \intersect device.bad = {} /\ Dense(writer.placed, writer.fd)
  BY DEF ListInOrder, Increasing
<1>4. ASSUME ~writer'.failed =>
                /\ Increasing(writer'.bad_block_offsets)
                /\ \A i \in DOMAIN writer'.bad_block_offsets : writer'.bad_block_offsets[i] < Position'
                /\ Range(writer'.bad_block_offsets) \intersect Range(writer'.placed) = {},
             Range(writer'.placed) \intersect device.bad = {}, Dense(writer'.placed, writer'.fd)
      PROVE  ListInOrder'
  BY <1>4 DEF ListInOrder, Increasing
<1>5. CASE Opens \/ Closes
  <2>1. writer'.placed = <<>> /\ writer'.bad_block_offsets = <<>> /\ writer'.fd = 0
    BY <1>5, NoWriterFacts DEF Opens, Closes
  <2>2. Increasing(<<>>) /\ Range(<<>>) = {} /\ DOMAIN <<>> = {} /\ Dense(<<>>, 0)
    <3>1. Len(<<>>) = 0
      BY UnitFacts
    <3> QED
      BY <3>1, NoWriterFacts DEF Increasing, Range, Dense
  <2> QED
    BY <1>4, <2>1, <2>2
<1>6. CASE Carries \/ Takes \/ Collects
  <2>1. /\ writer'.placed = writer.placed /\ writer'.fd = writer.fd /\ writer'.failed = writer.failed
        /\ writer'.bad_block_offsets = writer.bad_block_offsets /\ writer.at # "write_block"
        /\ writer'.at = "write_block" => writer'.pos = writer.fd
    BY <1>1, <1>6 DEF Carries, Takes, Collects, SameData, Writer
  <2>2. Position' = Position
    BY <2>1 DEF Position
  <2> QED
    BY <1>3, <1>4, <2>1, <2>2
<1>7. CASE Skips
  <2>1. /\ writer'.placed = writer.placed /\ writer'.fd = writer.fd /\ writer'.failed = writer.failed
        /\ writer'.bad_block_offsets = Append(writer.bad_block_offsets, writer.pos)
        /\ writer.at = "write_block" /\ writer'.at = "write_block" /\ writer'.pos = writer.pos + 1
        /\ writer.pos \in Block
    BY <1>7 DEF Skips, SameData
  <2>2. Position' = writer.pos + 1 /\ Position = writer.pos
    BY <2>1 DEF Position
  <2>3. writer.pos \notin Range(writer.placed)
    <3>1. \A k \in DOMAIN writer.placed : writer.placed[k] \in Block /\ writer.placed[k] < writer.fd
      BY <1>1, <1>2, LenProperties, ElementOfSeq DEF WriterAhead
    <3>2. writer.fd <= writer.pos
      BY <1>1, <2>1 DEF WriterAhead
    <3>3. \A k \in DOMAIN writer.placed : writer.placed[k] # writer.pos
      BY <1>1, <1>2, <3>1, <3>2 DEF Block
    <3> QED
      BY <3>3 DEF Range
  <2>4. Range(writer'.bad_block_offsets) = Range(writer.bad_block_offsets) \union {writer.pos}
    BY <1>2, <2>1, RangeAppend
  <2>5. ~writer.failed =>
            /\ Increasing(writer'.bad_block_offsets)
            /\ \A i \in DOMAIN writer'.bad_block_offsets : writer'.bad_block_offsets[i] < writer.pos + 1
    BY <1>2, <1>3, <2>1, <2>2, IncreasingAppend
  <2> QED
    BY <1>3, <1>4, <2>1, <2>2, <2>3, <2>4, <2>5
<1>8. CASE Writes
  <2>1. /\ writer'.placed = Append(writer.placed, writer.pos) /\ writer'.fd = writer.pos + 1
        /\ writer'.failed = writer.failed /\ writer'.bad_block_offsets = writer.bad_block_offsets
        /\ writer.at = "write_block" /\ writer'.at # "write_block" /\ writer.pos \in Block
        /\ writer.pos \notin device.bad
    <3>1. writer.then # "write_block"
      BY <1>1, WriterFields
    <3> QED
      BY <1>8, <3>1 DEF Writes
  <2>2. Position' = writer.pos + 1 /\ Position = writer.pos
    BY <2>1 DEF Position
  <2>3. Range(writer'.placed) = Range(writer.placed) \union {writer.pos}
    BY <1>2, <2>1, RangeAppend
  <2>4. ~writer.failed =>
            /\ \A i \in DOMAIN writer.bad_block_offsets : writer.bad_block_offsets[i] < writer.pos + 1
            /\ writer.pos \notin Range(writer.bad_block_offsets)
    <3> SUFFICES ASSUME ~writer.failed, NEW i \in DOMAIN writer.bad_block_offsets
                 PROVE  writer.bad_block_offsets[i] < writer.pos + 1 /\ writer.bad_block_offsets[i] # writer.pos
      BY DEF Range
    <3>1. writer.bad_block_offsets[i] < writer.pos /\ writer.bad_block_offsets[i] \in Block
      BY <1>2, <1>3, <2>2, LenProperties, ElementOfSeq
    <3> QED
      BY <1>1, <1>2, <3>1 DEF Block
  <2>5. Dense(writer'.placed, writer'.fd)
    <3>1. writer.fd <= writer.pos
      BY <1>1, <2>1 DEF WriterAhead
    <3> QED
      BY <1>2, <1>3, <2>1, <3>1, DenseFacts
  <2> QED
    BY <1>3, <1>4, <2>1, <2>2, <2>3, <2>4, <2>5
<1>9. CASE Fails
  <2>1. /\ writer'.placed = writer.placed /\ writer'.fd >= writer.fd /\ writer'.fd \in Nat /\ writer'.failed
    BY <1>9, WriterFields DEF Fails, SameData, Writer
  <2>2. Dense(writer'.placed, writer'.fd)
    BY <1>2, <1>3, <2>1, DenseFacts
  <2> QED
    BY <1>3, <1>4, <2>1, <2>2
<1> QED
  BY <1>5, <1>6, <1>7, <1>8, <1>9 DEF WriterCases

\* So does every step.
LEMMA StepKeepsLists == ASSUME BaseInv, FullInv, ListInOrder, Step PROVE ListInOrder'
<1>1. TypeOk /\ device \in Device
  BY DEF BaseInv, TypeOk
<1>2. CASE WriterMoves
  <2>1. WriterCases /\ writer' \in Writer
    BY <1>2, WriterFacts DEF Fits
  <2>2. device'.bad = device.bad
    BY <1>1, <1>2, HealFacts DEF Heals
  <2> QED
    BY <2>1, <2>2, WriterKeepsLists
<1>3. CASE ~WriterMoves
  <2>1. writer' = writer /\ device'.bad = device.bad
    BY <1>1, <1>3, ReaderFacts DEF Step, Decays, vars
  <2> QED
    BY <2>1 DEF ListInOrder, Position
<1> QED
  BY <1>2, <1>3

-----------------------------------------------------------------------------
(* The stream of a closed context *)

\* A context is closed without an error.
Commits ==
    /\ writer.at = "erase_blocks" /\ ~writer.failed /\ writer.stored = <<>>
    /\ closed' = [valid |-> TRUE, stream |-> writer.stream, placed |-> writer.placed, given |-> GivenUp(writer)]
    /\ \A b \in Block : writer.fd <= b \/ content'[b] = content[b]

\* How a step of the writer can change what is known of the last closed context.
LEMMA CommitFacts ==
    ASSUME content \in [Block -> [1 .. E -> Unit]], writer \in Writer, WriterMoves
    PROVE  \/ ~closed'.valid
           \/ closed' = closed /\ writer.at # "closed"
           \/ Commits /\ writer' = NoWriter
<1>1. ~NoStream.valid
  BY DEF NoStream
<1>2. CASE OpenWrite
  BY <1>1, <1>2 DEF OpenWrite
<1>3. CASE EraseRange \/ EraseTooMany
  <2>1. /\ writer.at = "erase_blocks" /\ writer.stored = <<>> /\ LeaveErase(writer)
    BY <1>3 DEF EraseRange, EraseTooMany, WriterStep
  <2>2. \A b \in Block : writer.fd <= b \/ content'[b] = content[b]
    <3>1. CASE EraseTooMany
      BY <3>1 DEF EraseTooMany
    <3>2. CASE EraseRange
      <4>1. PICK failing :
              content' = [b \in Block |-> IF b \in EraseTargets(writer) \ failing THEN Fill(Erased) ELSE content[b]]
        BY <3>2 DEF EraseRange
      <4>2. \A b \in EraseTargets(writer) : writer.fd <= b
        BY DEF EraseTargets
      <4> QED
        BY <4>1, <4>2
    <3> QED
      BY <1>3, <3>1, <3>2
  <2> QED
    BY <1>1, <2>1, <2>2 DEF LeaveErase, Commits
<1>4. CASE OutOfSpace
  <2>1. PICK fd : LET w == [writer EXCEPT !.fd = fd, !.failed = TRUE] IN
                  \/ LeaveErase(w) \/ closed' = closed
    BY <1>4 DEF OutOfSpace
  <2>2. writer.at = "write_block"
    BY <1>4 DEF OutOfSpace, WriterStep
  <2>3. closed' \in {closed, NoStream}
    <3> DEFINE w == [writer EXCEPT !.fd = fd, !.failed = TRUE]
    <3>1. CASE LeaveErase(w)
      <4>1. closed' = closed \/ closed' = IF w.failed THEN NoStream
                      ELSE [valid |-> TRUE, stream |-> w.stream, placed |-> w.placed, given |-> GivenUp(w)]
        BY <3>1 DEF LeaveErase
      <4>2. w.failed
        BY DEF Writer
      <4> QED
        BY <4>1, <4>2
    <3> QED
      BY <2>1, <3>1
  <2> QED
    BY <1>1, <2>2, <2>3
<1>5. CASE ~OpenWrite /\ ~EraseRange /\ ~EraseTooMany /\ ~OutOfSpace
  BY <1>5 DEF WriterMoves, WriterSteps, Coalesce, FlushBuffer, WriteDirect, WriteReturns, PadAndFlush,
         SkipMarked, BlockWritten, GiveUpBlock, WriteClose, Hands, HandOver, EraseBlocks, AtBlock,
         WriterStep, EnterWriteBlock
<1> QED
  BY <1>2, <1>3, <1>4, <1>5

\* ClosedKept of a record of a closed context, the blocks' contents and the marked blocks.
Kept(r, c, bad) ==
    /\ r.stream \in Seq(Unit) /\ r.placed \in Seq(Block)
    /\ Len(r.stream) = E * Len(r.placed)
    /\ \A k \in DOMAIN r.placed, u \in 1 .. E : c[r.placed[k]][u] = r.stream[E * (k - 1) + u]
    /\ Increasing(r.placed)
    /\ Range(r.placed) \intersect (bad \union r.given) = {}
    /\ \A last \in Range(r.placed), b \in Block :
          b < last => b \in Range(r.placed) \union bad \union r.given
    /\ Dense(r.placed, N)

\* ClosedKept is made of these parts.
LEMMA KeptParts ==
    /\ ClosedKept <=> (closed.valid => writer.at = "closed" /\ Kept(closed, content, device.bad))
    /\ ClosedKept' <=> (closed'.valid => writer'.at = "closed" /\ Kept(closed', content', device'.bad))
BY DEF ClosedKept, Kept, Increasing

\* The stream of a context that is closed without an error is kept, and stays so until
\* the next one is opened.
LEMMA StepKeepsClosed ==
    ASSUME BaseInv, FullInv, WrittenInOrder, ListInOrder, ClosedKept, Step PROVE ClosedKept'
<1>1. /\ TypeOk /\ device \in Device /\ writer \in Writer /\ content \in [Block -> [1 .. E -> Unit]]
      /\ WriterShape /\ WriterAhead /\ PassedAccounted /\ N \in Nat
  BY UnitFacts DEF BaseInv, TypeOk, FullInv
<1>2. CASE WriterMoves
  <2>1. CASE ~closed'.valid
    BY <2>1, KeptParts
  <2>2. CASE closed' = closed /\ writer.at # "closed"
    BY <2>2, KeptParts
  <2>3. CASE Commits /\ writer' = NoWriter
    <3>1. /\ writer.at = "erase_blocks" /\ ~writer.failed /\ writer.stored = <<>> /\ writer.rest = <<>>
          /\ closed'.stream = writer.stream /\ closed'.placed = writer.placed
          /\ closed'.given = Range(writer.bad_block_offsets) \ device.bad
      BY <1>1, <2>3 DEF Commits, WriterShape, GivenUp
    <3>2. Ordered(writer, content)
      BY <3>1, OrderParts
    <3>3. device'.bad = device.bad
      BY <1>1, <1>2, HealFacts DEF Heals
    <3>4. /\ writer.stream \in Seq(Unit) /\ writer.placed \in Seq(Block) /\ writer.fd \in Nat /\ writer.fd <= N
          /\ Len(writer.placed) \in Nat /\ Len(writer.stored) = 0 /\ Len(writer.rest) = 0
          /\ writer.bad_block_offsets \in Seq(Block)
      BY <1>1, <3>1, WriterFields, UnitFacts
    <3>5. Len(writer.stream) = E * Len(writer.placed)
      <4>1. E * Len(writer.placed) \in Nat
        BY <3>4, BlockSum
      <4>2. Len(writer.stream) = E * Len(writer.placed) + Len(writer.stored) + Len(writer.rest)
        BY <3>2 DEF Ordered, Complete
      <4> DEFINE written == E * Len(writer.placed)
      <4> HIDE DEF written
      <4>3. Len(writer.stream) = written + 0 + 0 /\ written \in Nat
        BY <3>4, <4>1, <4>2 DEF written
      <4>4. Len(writer.stream) = written
        BY <4>3
      <4> QED
        BY <4>4 DEF written
    <3>6. \A k \in DOMAIN writer.placed :
             /\ writer.placed[k] \in Block /\ writer.placed[k] < writer.fd
             /\ content'[writer.placed[k]] = content[writer.placed[k]]
      <4> TAKE k \in DOMAIN writer.placed
      <4>1. writer.placed[k] \in Block /\ writer.placed[k] < writer.fd
        BY <1>1, <3>4, LenProperties, ElementOfSeq DEF WriterAhead
      <4>2. ~(writer.fd <= writer.placed[k])
        BY <1>1, <3>4, <4>1 DEF Block
      <4> QED
        BY <2>3, <4>1, <4>2 DEF Commits
    <3>7. \A k \in DOMAIN writer.placed, u \in 1 .. E :
             content'[writer.placed[k]][u] = writer.stream[E * (k - 1) + u]
      BY <3>2, <3>6 DEF Ordered, Placed
    <3>8. Increasing(writer.placed)
      BY <3>2 DEF Ordered, Forward, Increasing
    <3>9. Range(writer.placed) \intersect (device.bad \union closed'.given) = {}
      BY <3>1 DEF ListInOrder
    <3>10. ASSUME NEW last \in Range(writer.placed), NEW b \in Block, b < last
           PROVE  b \in Range(writer.placed) \union device.bad \union closed'.given
      <4>1. last \in Block /\ last < writer.fd
        BY <3>6 DEF Range
      <4>2. b < Position
        BY <1>1, <3>1, <3>4, <3>10, <4>1 DEF Position, Block
      <4> QED
        BY <1>1, <3>1, <4>2 DEF PassedAccounted
    <3>11. Dense(writer.placed, N)
      <4>1. Dense(writer.placed, writer.fd)
        BY DEF ListInOrder
      <4> QED
        BY <1>1, <3>4, <4>1, DenseFacts
    <3>12. Kept(closed', content', device'.bad)
      BY <3>1, <3>3, <3>4, <3>5, <3>7, <3>8, <3>9, <3>10, <3>11 DEF Kept
    <3> QED
      BY <2>3, <3>12, KeptParts, NoWriterFacts
  <2> QED
    BY <1>1, <1>2, <2>1, <2>2, <2>3, CommitFacts
<1>3. CASE ~WriterMoves
  <2>1. writer' = writer /\ device'.bad = device.bad /\ content' = content /\ closed' = closed
    BY <1>1, <1>3, ReaderFacts DEF Step, Decays, vars
  <2> QED
    BY <2>1, KeptParts
<1> QED
  BY <1>2, <1>3

-----------------------------------------------------------------------------
(* The order of what is read *)

\* What a step of the reader can do to the data it has got and to the blocks it has seen.
Passes ==
    /\ reader.at # "closed" /\ reader'.at # "closed" /\ reader'.fd \in {reader.fd, reader.fd + 1}
    /\ reader'.got = reader.got /\ reader'.buffer = reader.buffer /\ reader'.seen = reader.seen
    /\ reader'.at = "read_block" =>
          /\ reader'.want = reader.want
          /\ reader.at = "read_block" \/ (reader.buffer = <<>> /\ reader.want > 0)
    /\ reader'.want = reader.want \/ reader.at = "open"
Copies ==
    /\ reader.at = "read_data" /\ reader'.at = "read_data"
    /\ \E n \in 0 .. Len(reader.buffer) :
          /\ reader'.got = reader.got \o SubSeq(reader.buffer, 1, n)
          /\ reader'.buffer = SubSeq(reader.buffer, n + 1, Len(reader.buffer))
          /\ reader'.want = reader.want - n
    /\ reader'.fd = reader.fd /\ reader'.seen = reader.seen /\ reader'.failed = reader.failed
Reads ==
    /\ reader.at = "read_block" /\ reader'.at = "read_data" /\ reader.fd \in Block
    /\ ~ReadMarked
    /\ reader'.fd = reader.fd + 1 /\ reader'.seen = Append(reader.seen, reader.fd)
    /\ reader'.failed = reader.failed
    /\ IF reader.want < E
       THEN reader'.got = reader.got /\ reader'.buffer = content[reader.fd] /\ reader'.want = reader.want
       ELSE /\ reader'.got = reader.got \o content[reader.fd] /\ reader'.buffer = reader.buffer
            /\ reader'.want = reader.want - E
ReadCases ==
    \/ reader' = NoReader
    \/ reader' = [NoReader EXCEPT !.at = "open"]
    \/ Passes
    \/ Copies
    \/ Reads

\* What the fields of a reading context are.
LEMMA ReaderFields ==
    ASSUME NEW r \in Reader
    PROVE  /\ r.at \in {"closed", "open", "read_data", "read_block"}
           /\ r.fd \in Nat /\ r.fd <= N /\ r.lag \in BOOLEAN /\ r.failed \in BOOLEAN
           /\ r.buffer \in Seq(Unit) /\ r.got \in Seq(Unit) /\ r.seen \in Seq(Block)
           /\ r.want \in Nat /\ r.want <= MaxCall
           /\ Len(r.buffer) \in Nat /\ Len(r.got) \in Nat /\ Len(r.seen) \in Nat
<1>1. /\ r.at \in {"closed", "open", "read_data", "read_block"}
      /\ r.fd \in 0 .. N /\ r.lag \in BOOLEAN /\ r.failed \in BOOLEAN
      /\ r.buffer \in Seq(Unit) /\ r.got \in Seq(Unit) /\ r.seen \in Seq(Block) /\ r.want \in 0 .. MaxCall
  BY DEF Reader
<1> QED
  BY <1>1, LenProperties, UnitFacts, BoundAssumption

\* Every step of the reader is one of those cases.
LEMMA ReadFacts ==
    ASSUME TypeOk, ReaderMoves
    PROVE  ReadCases /\ (CopyBuffered => Copies) /\ (BlockRead => Reads)
<1>0. reader \in Reader /\ Len(reader.buffer) <= E
  BY DEF TypeOk
<1>1. /\ reader.fd \in Nat /\ reader.fd <= N /\ N \in Nat /\ reader.want \in Nat /\ Len(reader.buffer) \in Nat
  BY <1>0, ReaderFields, UnitFacts
<1>2. ASSUME OpenRead \/ ReadClose PROVE ReadCases
  BY <1>2 DEF OpenRead, ReadClose, ReadCases
<1>3. ASSUME EnterReadBlock PROVE ReadCases
  <2>1. /\ reader.at = "read_data" /\ reader.want > 0 /\ reader.buffer = <<>>
        /\ reader' = [reader EXCEPT !.at = "read_block", !.lag = FALSE]
    BY <1>3 DEF EnterReadBlock, ReaderStep
  <2> QED
    BY <1>0, <2>1 DEF Reader, Passes, ReadCases
<1>4. ASSUME ReadReturns \/ ReadFails PROVE ReadCases
  <2>1. /\ reader.at # "closed"
        /\ \/ reader' = [reader EXCEPT !.at = "open"]
           \/ reader' = [reader EXCEPT !.at = "open", !.failed = TRUE]
    BY <1>4 DEF ReadReturns, ReadFails, ReaderStep
  <2> QED
    BY <1>0, <2>1 DEF Reader, Passes, ReadCases
<1>5. ASSUME \E n \in 1 .. MaxCall : ReadData(n) PROVE ReadCases
  <2>1. PICK n : reader.at = "open" /\ reader' = [reader EXCEPT !.at = "read_data", !.want = n]
    BY <1>5 DEF ReadData, ReaderStep
  <2> QED
    BY <1>0, <2>1 DEF Reader, Passes, ReadCases
<1>6. ASSUME ReadError \/ EccFailure \/ ReadSkipsMarked PROVE ReadCases
  <2>1. PICK lag : /\ reader.at = "read_block"
                   /\ reader' = [reader EXCEPT !.fd = reader.fd + 1, !.lag = lag]
    <3>1. CASE ReadSkipsMarked
      <4>1. reader' = [reader EXCEPT !.fd = reader.fd + 1] /\ reader.at = "read_block"
        BY <3>1 DEF ReadSkipsMarked, InReadBlock, ReaderStep
      <4>2. reader' = [reader EXCEPT !.fd = reader.fd + 1, !.lag = reader.lag]
        BY <1>0, <4>1 DEF Reader
      <4> QED
        BY <4>1, <4>2
    <3>2. CASE ReadError
      BY <3>2 DEF ReadError, InReadBlock, ReaderStep
    <3>3. CASE EccFailure
      BY <3>3 DEF EccFailure, InReadBlock, ReaderStep
    <3> QED
      BY <1>6, <3>1, <3>2, <3>3
  <2> QED
    BY <1>0, <2>1 DEF Reader, Passes, ReadCases
<1>7. ASSUME CopyBuffered PROVE Copies
  <2> DEFINE n == Min({reader.want, Len(reader.buffer)})
             got == reader.got \o SubSeq(reader.buffer, 1, n)
             buffer == SubSeq(reader.buffer, n + 1, Len(reader.buffer))
             want == reader.want - n
  <2>1. reader.at = "read_data" /\ reader' = [reader EXCEPT !.got = got, !.buffer = buffer, !.want = want]
    BY <1>7 DEF CopyBuffered, ReaderStep
  <2>2. n \in 0 .. Len(reader.buffer)
    <3>0. reader.want \in Int /\ Len(reader.buffer) \in Int
      BY <1>1
    <3>1. n \in {reader.want, Len(reader.buffer)} /\ n <= Len(reader.buffer)
      BY <3>0, MinOfTwo
    <3> HIDE DEF n
    <3> QED
      BY <1>1, <3>1
  <2>3. /\ reader'.at = "read_data" /\ reader'.got = got /\ reader'.buffer = buffer
        /\ reader'.want = want /\ reader'.fd = reader.fd /\ reader'.seen = reader.seen
        /\ reader'.failed = reader.failed
    <3> HIDE DEF got, buffer, want
    <3> QED
      BY <1>0, <2>1 DEF Reader
  <2> HIDE DEF n
  <2> QED
    BY <2>1, <2>2, <2>3 DEF Copies
<1>8. ASSUME BlockRead PROVE Reads
  <2> DEFINE got == IF reader.want < E THEN reader.got ELSE reader.got \o content[reader.fd]
             buffer == IF reader.want < E THEN content[reader.fd] ELSE reader.buffer
             want == IF reader.want < E THEN reader.want ELSE reader.want - E
             seen == Append(reader.seen, reader.fd)
  <2>1. /\ reader.at = "read_block" /\ reader.fd < N /\ ~ReadMarked
        /\ reader' = [reader EXCEPT !.at = "read_data", !.fd = reader.fd + 1, !.got = got, !.buffer = buffer,
                                    !.want = want, !.seen = seen]
    BY <1>8 DEF BlockRead, InReadBlock, ReaderStep
  <2>2. /\ reader'.at = "read_data" /\ reader'.fd = reader.fd + 1 /\ reader'.got = got
        /\ reader'.buffer = buffer /\ reader'.want = want /\ reader'.seen = seen
        /\ reader'.failed = reader.failed
    <3> HIDE DEF got, buffer, want, seen
    <3> QED
      BY <1>0, <2>1 DEF Reader
  <2>3. reader.fd \in Block
    BY <1>1, <2>1 DEF Block
  <2> QED
    BY <2>1, <2>2, <2>3 DEF Reads
<1> QED
  BY <1>2, <1>3, <1>4, <1>5, <1>6, <1>7, <1>8 DEF ReaderMoves, ReadCases

\* ReadInOrder of a context, the blocks' contents and the device.
Behind(r, i) == IF i <= Len(r.got) THEN r.got[i] ELSE r.buffer[i - Len(r.got)]
Filled(r, c) ==
    /\ Len(r.got) + Len(r.buffer) = E * Len(r.seen)
    /\ \A k \in DOMAIN r.seen, u \in 1 .. E : Behind(r, E * (k - 1) + u) = c[r.seen[k]][u]
Passed(r, d) ==
    /\ \A k \in DOMAIN r.seen : r.seen[k] < r.fd
    /\ Increasing(r.seen)
    /\ \A b \in Range(r.seen) : d.query /\ b \notin d.bad
    /\ Dense(r.seen, r.fd)
Wants(r) == r.at = "read_block" => r.buffer = <<>> /\ r.want > 0
ReadParts(r, c, d) == Wants(r) /\ Filled(r, c) /\ Passed(r, d)

\* ReadInOrder is made of these parts.
LEMMA ReadInOrderParts ==
    /\ ReadInOrder <=> ReadParts(reader, content, device)
    /\ ReadInOrder' <=> ReadParts(reader', content', device')
BY DEF ReadInOrder, ReadParts, Wants, Filled, Passed, Behind, GotOrBuffered, Increasing

\* A context that is not open has seen nothing.
LEMMA NothingRead ==
    ASSUME NEW c, NEW d, NEW r \in {NoReader, [NoReader EXCEPT !.at = "open"]}
    PROVE  ReadParts(r, c, d) /\ r.got = <<>> /\ r.seen = <<>> /\ r.buffer = <<>> /\ ~r.failed /\ r.want = 0
           /\ r.fd = 0
<1>1. /\ r.got = <<>> /\ r.seen = <<>> /\ r.buffer = <<>> /\ r.fd = 0 /\ ~r.failed /\ r.want = 0
      /\ r.at # "read_block"
  BY DEF NoReader
<1>2. Len(<<>>) = 0 /\ DOMAIN <<>> = {} /\ Range(<<>>) = {} /\ E * 0 = 0
  BY UnitFacts, NoWriterFacts, BlockSum DEF Range
<1>3. Filled(r, c)
  BY <1>1, <1>2 DEF Filled
<1>4. Passed(r, d)
  BY <1>1, <1>2 DEF Passed, Increasing, Dense
<1> QED
  BY <1>1, <1>3, <1>4 DEF ReadParts, Wants

\* Moving units from the buffer to the caller keeps their place.
LEMMA FilledCopied ==
    ASSUME NEW r \in Reader, NEW v \in Reader, NEW c, Filled(r, c), NEW n \in 0 .. Len(r.buffer),
           NEW head, Len(head) = n, \A i \in 1 .. n : head[i] = r.buffer[i], Joined(r.got, head, v.got),
           Len(v.buffer) = Len(r.buffer) - n, \A i \in 1 .. Len(r.buffer) - n : v.buffer[i] = r.buffer[n + i],
           v.seen = r.seen
    PROVE  Filled(v, c) /\ Len(v.got) = Len(r.got) + n
<1>1. /\ r.got \in Seq(Unit) /\ r.buffer \in Seq(Unit) /\ r.seen \in Seq(Block) /\ Len(r.got) \in Nat
      /\ Len(r.buffer) \in Nat /\ n \in Nat /\ n <= Len(r.buffer) /\ Len(r.seen) \in Nat
      /\ DOMAIN r.seen = 1 .. Len(r.seen)
  BY ReaderFields, LenProperties
<1>2. Len(v.buffer) = Len(r.buffer) - n /\ \A i \in 1 .. Len(r.buffer) - n : v.buffer[i] = r.buffer[n + i]
  OBVIOUS
<1>4. /\ Len(v.got) = Len(r.got) + n
      /\ \A i \in 1 .. Len(r.got) : v.got[i] = r.got[i]
      /\ \A u \in 1 .. n : v.got[Len(r.got) + u] = r.buffer[u]
  BY DEF Joined
<1>5. ASSUME NEW i \in 1 .. Len(r.got) + Len(r.buffer) PROVE Behind(v, i) = Behind(r, i)
  <2>1. CASE i <= Len(r.got)
    <3>1. i \in 1 .. Len(r.got) /\ i <= Len(v.got)
      BY <1>1, <1>4, <1>5, <2>1
    <3> QED
      BY <1>4, <2>1, <3>1 DEF Behind
  <2>2. CASE ~(i <= Len(r.got)) /\ i <= Len(r.got) + n
    <3> DEFINE e == i - Len(r.got)
    <3>1. e \in 1 .. n /\ i = Len(r.got) + e
      BY <1>1, <1>5, <2>2
    <3>2. v.got[Len(r.got) + e] = r.buffer[e]
      BY <1>4, <3>1
    <3> QED
      BY <1>4, <2>2, <3>1, <3>2 DEF Behind
  <2>3. CASE ~(i <= Len(r.got) + n)
    <3> DEFINE e == i - Len(v.got)
    <3>1. e \in 1 .. Len(r.buffer) - n /\ i - Len(r.got) = n + e /\ ~(i <= Len(r.got)) /\ ~(i <= Len(v.got))
      <4>1. \A a, b, m \in Nat : \A j \in 1 .. a + b :
               ~(j <= a + m) => j - (a + m) \in 1 .. b - m /\ j - a = m + (j - (a + m)) /\ ~(j <= a)
        OBVIOUS
      <4>2. ~(i <= Len(r.got) + n) => /\ i - (Len(r.got) + n) \in 1 .. Len(r.buffer) - n
                                      /\ i - Len(r.got) = n + (i - (Len(r.got) + n)) /\ ~(i <= Len(r.got))
        <5>1. Len(r.got) \in Nat /\ Len(r.buffer) \in Nat /\ n \in Nat
          BY <1>1
        <5>2. i \in 1 .. Len(r.got) + Len(r.buffer)
          BY <1>5
        <5> HIDE DEF e
        <5> QED
          BY <4>1, <5>1, <5>2
      <4> QED
        BY <1>4, <2>3, <4>2
    <3>2. v.buffer[e] = r.buffer[n + e]
      BY <1>2, <3>1
    <3> QED
      BY <3>1, <3>2 DEF Behind
  <2> QED
    BY <2>1, <2>2, <2>3
<1>6. ASSUME NEW k \in DOMAIN r.seen, NEW u \in 1 .. E PROVE Behind(v, E * (k - 1) + u) = c[r.seen[k]][u]
  <2>1. E * (k - 1) + u \in 1 .. E * Len(r.seen)
    BY <1>1, BlockIndex
  <2>2. Behind(r, E * (k - 1) + u) = c[r.seen[k]][u] /\ Len(r.got) + Len(r.buffer) = E * Len(r.seen)
    BY DEF Filled
  <2> QED
    BY <1>5, <2>1, <2>2
<1>7. Len(v.got) + Len(v.buffer) = Len(r.got) + Len(r.buffer)
  <2>1. \A a, b, m \in Nat : (a + m) + (b - m) = a + b
    OBVIOUS
  <2>2. (Len(r.got) + n) + (Len(r.buffer) - n) = Len(r.got) + Len(r.buffer)
    BY <1>1, <2>1
  <2> QED
    BY <1>2, <1>4, <2>2
<1>8. Len(v.got) + Len(v.buffer) = E * Len(v.seen)
  BY <1>7 DEF Filled
<1>9. \A k \in DOMAIN v.seen, u \in 1 .. E : Behind(v, E * (k - 1) + u) = c[v.seen[k]][u]
  BY <1>6
<1> QED
  BY <1>4, <1>8, <1>9 DEF Filled

\* A block that is read goes behind what was got: to the caller or to the empty buffer.
LEMMA FilledRead ==
    ASSUME NEW r \in Reader, NEW v \in Reader, NEW c, Filled(r, c), r.buffer = <<>>, NEW b \in Block,
           c[b] \in [1 .. E -> Unit], v.seen = Append(r.seen, b),
           \/ v.got = r.got /\ v.buffer = c[b]
           \/ v.got = r.got \o c[b] /\ v.buffer = r.buffer
    PROVE  Filled(v, c)
<1>1. /\ r.got \in Seq(Unit) /\ r.seen \in Seq(Block) /\ Len(r.got) \in Nat /\ Len(r.seen) \in Nat
      /\ DOMAIN r.seen = 1 .. Len(r.seen) /\ c[b] \in Seq(Unit) /\ Len(c[b]) = E /\ E \in Nat
      /\ Len(r.buffer) = 0
  BY ReaderFields, LenProperties, BlockSeq, UnitFacts
<1>2. /\ Len(v.seen) = Len(r.seen) + 1
      /\ \A k \in DOMAIN v.seen : k \in DOMAIN r.seen \/ k = Len(r.seen) + 1
      /\ \A k \in DOMAIN r.seen : v.seen[k] = r.seen[k]
      /\ v.seen[Len(r.seen) + 1] = b
  BY <1>1, AppendFacts
<1>3. E * Len(v.seen) = E * Len(r.seen) + E /\ E * Len(r.seen) \in Nat
  BY <1>1, <1>2, BlockSum
<1> DEFINE size == E * Len(r.seen)
<1>4. Len(r.got) = size
  <2>1. Len(r.got) + Len(r.buffer) = E * Len(r.seen)
    BY DEF Filled
  <2> QED
    BY <1>1, <2>1
<1>5. /\ Len(v.got) + Len(v.buffer) = Len(r.got) + E
      /\ \A i \in 1 .. Len(r.got) : Behind(v, i) = r.got[i]
      /\ \A u \in 1 .. E : Behind(v, Len(r.got) + u) = c[b][u]
  <2>1. CASE v.got = r.got /\ v.buffer = c[b]
    <3>1. \A u \in 1 .. E : ~(Len(r.got) + u <= Len(v.got)) /\ Len(r.got) + u - Len(v.got) = u
      BY <1>1, <2>1
    <3> QED
      <4>1. Len(v.got) + Len(v.buffer) = Len(r.got) + E
        BY <1>1, <2>1
      <4>2. \A i \in 1 .. Len(r.got) : Behind(v, i) = r.got[i]
        BY <1>1, <2>1 DEF Behind
      <4>3. \A u \in 1 .. E : Behind(v, Len(r.got) + u) = c[b][u]
        BY <2>1, <3>1 DEF Behind
      <4> QED
        BY <4>1, <4>2, <4>3
  <2>2. CASE v.got = r.got \o c[b] /\ v.buffer = r.buffer
    <3>1. Joined(r.got, c[b], v.got)
      BY <1>1, <2>2, JoinedByConcat
    <3>2. /\ Len(v.got) = Len(r.got) + E
          /\ \A i \in 1 .. Len(r.got) : v.got[i] = r.got[i]
          /\ \A u \in 1 .. E : v.got[Len(r.got) + u] = c[b][u]
      BY <1>1, <3>1 DEF Joined
    <3>3. \A u \in 1 .. E : Len(r.got) + u <= Len(v.got)
      BY <1>1, <3>2
    <3>4. \A i \in 1 .. Len(r.got) : i <= Len(v.got)
      BY <1>1, <3>2
    <3> QED
      <4>1. Len(v.got) + Len(v.buffer) = Len(r.got) + E
        BY <1>1, <2>2, <3>2
      <4>2. \A i \in 1 .. Len(r.got) : Behind(v, i) = r.got[i]
        BY <3>2, <3>4 DEF Behind
      <4>3. \A u \in 1 .. E : Behind(v, Len(r.got) + u) = c[b][u]
        BY <3>2, <3>3 DEF Behind
      <4> QED
        BY <4>1, <4>2, <4>3
  <2> QED
    BY <2>1, <2>2
<1>6. ASSUME NEW k \in DOMAIN v.seen, NEW u \in 1 .. E PROVE Behind(v, E * (k - 1) + u) = c[v.seen[k]][u]
  <2>1. CASE k \in DOMAIN r.seen
    <3>1. E * (k - 1) + u \in 1 .. E * Len(r.seen)
      BY <1>1, <2>1, BlockIndex
    <3>2. E * (k - 1) + u \in 1 .. Len(r.got)
      BY <1>4, <3>1
    <3>3. Behind(r, E * (k - 1) + u) = r.got[E * (k - 1) + u]
      BY <1>1, <3>2 DEF Behind
    <3>4. Behind(r, E * (k - 1) + u) = c[r.seen[k]][u]
      BY <2>1 DEF Filled
    <3> QED
      BY <1>2, <1>5, <2>1, <3>2, <3>3, <3>4
  <2>2. CASE k = Len(r.seen) + 1
    <3>1. k - 1 = Len(r.seen)
      BY <1>1, <2>2
    <3>2. E * (k - 1) + u = Len(r.got) + u
      BY <1>4, <3>1
    <3> QED
      BY <1>2, <1>5, <2>2, <3>2
  <2> QED
    BY <1>2, <2>1, <2>2
<1>7. Len(v.got) + Len(v.buffer) = E * Len(v.seen)
  BY <1>3, <1>4, <1>5
<1> QED
  BY <1>6, <1>7 DEF Filled

\* Every step of the reader keeps the order of what is read.
LEMMA ReaderKeepsOrder ==
    ASSUME TypeOk, ReadParts(reader, content, device), ReadCases, reader' \in Reader
    PROVE  ReadParts(reader', content, device)
<1>1. /\ reader \in Reader /\ N \in Nat /\ content \in [Block -> [1 .. E -> Unit]]
      /\ Wants(reader) /\ Filled(reader, content) /\ Passed(reader, device)
  BY UnitFacts DEF TypeOk, ReadParts
<1>2. /\ reader.fd \in Nat /\ reader.fd <= N /\ reader.seen \in Seq(Block) /\ reader.buffer \in Seq(Unit)
      /\ DOMAIN reader.seen = 1 .. Len(reader.seen)
      /\ \A k \in DOMAIN reader.seen : reader.seen[k] \in Block /\ reader.seen[k] \in Nat
  <2>1. /\ reader.fd \in Nat /\ reader.fd <= N /\ reader.seen \in Seq(Block) /\ reader.buffer \in Seq(Unit)
    BY <1>1, ReaderFields
  <2>2. \A k \in DOMAIN reader.seen : reader.seen[k] \in Block
    BY <2>1, LenProperties, ElementOfSeq
  <2> QED
    BY <1>1, <2>1, <2>2, LenProperties DEF Block
<1>3. CASE reader' \in {NoReader, [NoReader EXCEPT !.at = "open"]}
  BY <1>3, NothingRead
<1>4. CASE Passes
  <2>1. Wants(reader')
    BY <1>1, <1>4 DEF Passes, Wants
  <2>2. Filled(reader', content)
    BY <1>1, <1>4 DEF Passes, Filled, Behind
  <2>3. reader'.fd \in Nat /\ reader.fd <= reader'.fd /\ reader'.seen = reader.seen
    BY <1>2, <1>4 DEF Passes
  <2>4. Dense(reader'.seen, reader'.fd)
    BY <1>1, <1>2, <2>3, DenseFacts DEF Passed
  <2>5. \A k \in DOMAIN reader'.seen : reader'.seen[k] < reader'.fd
    <3> TAKE k \in DOMAIN reader'.seen
    <3>1. reader.seen[k] < reader.fd /\ reader.seen[k] \in Nat
      BY <1>1, <1>2, <2>3 DEF Passed
    <3> QED
      BY <1>2, <2>3, <3>1
  <2>6. Passed(reader', device)
    BY <1>1, <2>3, <2>4, <2>5 DEF Passed
  <2> QED
    BY <2>1, <2>2, <2>6 DEF ReadParts
<1>5. CASE Copies
  <2>1. PICK n \in 0 .. Len(reader.buffer) :
            /\ reader'.got = reader.got \o SubSeq(reader.buffer, 1, n)
            /\ reader'.buffer = SubSeq(reader.buffer, n + 1, Len(reader.buffer))
    BY <1>5 DEF Copies
  <2>2. reader'.at = "read_data" /\ reader'.fd = reader.fd /\ reader'.seen = reader.seen
    BY <1>5 DEF Copies
  <2> DEFINE head == SubSeq(reader.buffer, 1, n)
  <2>3. /\ head \in Seq(Unit) /\ Len(head) = n /\ \A i \in 1 .. n : head[i] = reader.buffer[i]
        /\ Len(reader'.buffer) = Len(reader.buffer) - n
        /\ \A i \in 1 .. Len(reader.buffer) - n : reader'.buffer[i] = reader.buffer[n + i]
    BY <1>2, <2>1, CutFacts
  <2>4. Joined(reader.got, head, reader'.got)
    <3>1. reader.got \in Seq(Unit)
      BY <1>1, ReaderFields
    <3> QED
      BY <2>1, <2>3, <3>1, JoinedByConcat
  <2> HIDE DEF head
  <2>5. Filled(reader', content)
    BY <1>1, <2>2, <2>3, <2>4, FilledCopied
  <2>6. Passed(reader', device)
    BY <1>1, <2>2 DEF Passed
  <2> QED
    BY <2>2, <2>5, <2>6 DEF ReadParts, Wants
<1>6. CASE Reads
  <2>1. /\ reader.at = "read_block" /\ reader'.at = "read_data" /\ reader.fd \in Block
        /\ device.query /\ reader.fd \notin device.bad /\ reader'.fd = reader.fd + 1 /\ reader'.seen = Append(reader.seen, reader.fd)
        /\ \/ reader'.got = reader.got /\ reader'.buffer = content[reader.fd]
           \/ reader'.got = reader.got \o content[reader.fd] /\ reader'.buffer = reader.buffer
    BY <1>6 DEF Reads, ReadMarked
  <2>2. reader.buffer = <<>> /\ content[reader.fd] \in [1 .. E -> Unit]
    BY <1>1, <2>1 DEF Wants
  <2>3. Filled(reader', content)
    BY <1>1, <2>1, <2>2, FilledRead
  <2>4. /\ Increasing(reader'.seen) /\ \A k \in DOMAIN reader'.seen : reader'.seen[k] < reader.fd + 1
    BY <1>1, <1>2, <2>1, IncreasingAppend DEF Passed
  <2>5. Dense(reader'.seen, reader'.fd)
    BY <1>1, <1>2, <2>1, DenseFacts DEF Passed
  <2>6. Range(reader'.seen) = Range(reader.seen) \union {reader.fd}
    BY <1>2, <2>1, RangeAppend
  <2>7. Passed(reader', device)
    BY <1>1, <2>1, <2>4, <2>5, <2>6 DEF Passed
  <2> QED
    BY <2>1, <2>3, <2>7 DEF ReadParts, Wants
<1> QED
  BY <1>3, <1>4, <1>5, <1>6 DEF ReadCases

\* So does every step: nothing is written or marked while a reader is open.
LEMMA StepKeepsRead == ASSUME BaseInv, ReadInOrder, Step PROVE ReadInOrder'
<1>1. TypeOk /\ OneContext /\ device \in Device /\ ReadParts(reader, content, device)
  BY ReadInOrderParts DEF BaseInv, TypeOk
<1>2. CASE ReaderMoves
  <2>1. reader' \in Reader /\ content' = content /\ device' = device
    BY <1>1, <1>2, ReaderFacts
  <2> QED
    BY <1>1, <1>2, <2>1, ReadFacts, ReaderKeepsOrder, ReadInOrderParts
<1>3. CASE WriterMoves \/ Decays
  <2>1. reader' = NoReader
    <3>1. CASE WriterMoves
      BY <1>1, <3>1, WriterFacts, HealFacts DEF OneContext
    <3>2. CASE Decays
      BY <1>1, <3>2 DEF Decays, OneContext
    <3> QED
      BY <1>3, <3>1, <3>2
  <2> QED
    BY <2>1, NothingRead, ReadInOrderParts
<1>4. CASE UNCHANGED vars
  BY <1>1, <1>4, ReadInOrderParts DEF vars
<1> QED
  BY <1>2, <1>3, <1>4 DEF Step

\* All that is known of the library's state.
LibInv ==
    /\ BaseInv /\ FullInv /\ WrittenInOrder /\ ReaderInv
    /\ ListInOrder /\ ClosedKept /\ ReadInOrder

\* Whoever calls it, every step of the library keeps it.
LEMMA StepKeepsLib == ASSUME LibInv, Step PROVE LibInv'
BY StepKeepsBase, StepKeepsFull, StepKeepsOrder, StepKeepsReader, StepKeepsLists, StepKeepsClosed,
   StepKeepsRead DEF LibInv

\* Closed contexts are in order.
LEMMA ClosedInOrder ==
    ASSUME writer = NoWriter, reader = NoReader, closed = NoStream
    PROVE  OneContext /\ WriterShape /\ FullInv /\ WrittenInOrder /\ ReaderInv /\ ListInOrder /\ ClosedKept /\ ReadInOrder
<1>1. \A b \in Block : ~(b < 0)
  BY UnitFacts DEF Block
<1>2. OneContext /\ WriterShape /\ ReaderInv
  BY DEF OneContext, WriterShape, NoWriter, NoReader, ReaderInv, LagJustified, SeenAccounted
<1>3. FullInv
  BY <1>1, NoWriterFacts DEF FullInv, WriterAhead, PassedAccounted, FailsOnlyWhenFull, Position
<1>4. WrittenInOrder
  <2>1. writer.at = "closed" /\ Forward(writer)
    BY NoWriterFacts DEF Forward
  <2> QED
    BY <2>1, OrderParts
<1>5. ListInOrder
  BY UnitFacts, NoWriterFacts DEF ListInOrder, Range, Dense
<1>6. ClosedKept
  BY DEF ClosedKept, NoStream
<1>7. ReadInOrder
  BY NothingRead, ReadInOrderParts
<1> QED
  BY <1>2, <1>3, <1>4, <1>5, <1>6, <1>7

\* The library's lists stay sorted, the stream of a closed context stays where it was
\* written, and what a reader has got is what the blocks hold, in their order.
THEOREM LibInductive == Spec => []LibInv
<1>1. Init => LibInv
  <2> SUFFICES ASSUME Init PROVE LibInv
    OBVIOUS
  <2>1. writer = NoWriter /\ reader = NoReader /\ closed = NoStream
    BY DEF Init
  <2>2. TypeOk
    <3>1. device \in Device /\ taken = 0
          /\ content = [b \in Block |-> IF b \in device.bad THEN Fill(Torn) ELSE Fill(Erased)]
      BY DEF Init
    <3>2. content \in [Block -> [1 .. E -> Unit]] /\ taken \in 0 .. MaxUnits
      BY <3>1, UnitFacts, BoundAssumption
    <3> QED
      BY <2>1, <3>1, <3>2, ClosedTyped DEF TypeOk
  <2> QED
    BY <2>1, <2>2, ClosedInOrder DEF LibInv, BaseInv
<1>2. LibInv /\ [Next]_vars => LibInv'
  BY StepKeepsLib, StepKinds DEF LibInv, BaseInv, TypeOk
<1> QED
  BY <1>1, <1>2, PTL DEF Spec

-----------------------------------------------------------------------------
(* What a reader gets *)

\* A set of numbers that is not empty has a least element.
LEMMA Least ==
    ASSUME NEW T, T \subseteq Nat, T # {}
    PROVE  \E x \in T : \A y \in T : ~ (y < x)
<1>1. \A x, y \in Nat : y < x => <<y, x>> \in OpToRel(<, Nat)
  BY DEF OpToRel
<1>2. \E x \in T : \A y \in T : ~ (<<y, x>> \in OpToRel(<, Nat))
  BY WFMin, NatLessThanWellFounded
<1> QED
  BY <1>1, <1>2, Zenon

\* A set of numbers that holds 0 and, with a number, the next one holds them all.
LEMMA AllNumbers ==
    ASSUME NEW S, 0 \in S, \A n \in Nat : n \in S => n + 1 \in S
    PROVE  \A n \in Nat : n \in S
<1> DEFINE T == Nat \ S
<1> SUFFICES ASSUME T # {} PROVE FALSE
  OBVIOUS
<1>1. PICK x \in T : \A y \in T : ~ (y < x)
  <2>1. T \subseteq Nat
    OBVIOUS
  <2> HIDE DEF T
  <2> QED
    BY <2>1, Least
<1>2. x \in Nat /\ x # 0
  OBVIOUS
<1>3. x - 1 \in Nat /\ x - 1 < x /\ (x - 1) + 1 = x
  BY <1>2
<1>4. x - 1 \in S
  BY <1>1, <1>3
<1> QED
  BY <1>3, <1>4

\* Every unit of m blocks is a unit of one of them.
LEMMA UnitOfBlock ==
    ASSUME NEW m \in Nat
    PROVE  \A i \in 1 .. E * m : \E k \in 1 .. m, u \in 1 .. E : i = E * (k - 1) + u
<1> DEFINE Covered(n) == \A i \in 1 .. E * n : \E k \in 1 .. n, u \in 1 .. E : i = E * (k - 1) + u
           S == {n \in Nat : Covered(n)}
<1>1. 0 \in S
  <2>1. E * 0 = 0
    BY BlockSum
  <2> QED
    BY <2>1
<1>2. ASSUME NEW n \in Nat, n \in S PROVE n + 1 \in S
  <2> SUFFICES ASSUME NEW i \in 1 .. E * (n + 1)
               PROVE  \E k \in 1 .. n + 1, u \in 1 .. E : i = E * (k - 1) + u
    OBVIOUS
  <2>1. E * (n + 1) = E * n + E /\ E * n \in Nat /\ E \in Nat
    BY BlockSum, UnitFacts
  <2>2. CASE i <= E * n
    <3>1. i \in 1 .. E * n
      BY <2>1, <2>2
    <3>2. PICK k \in 1 .. n, u \in 1 .. E : i = E * (k - 1) + u
      BY <1>2, <3>1
    <3>3. k \in 1 .. n + 1
      OBVIOUS
    <3> QED
      BY <3>2, <3>3
  <2>3. CASE ~(i <= E * n)
    <3>1. (n + 1) - 1 = n /\ n + 1 \in 1 .. n + 1
      OBVIOUS
    <3>2. i - E * n \in 1 .. E /\ i = E * n + (i - E * n)
      <4> DEFINE size == E * n
      <4>1. size \in Nat /\ i \in 1 .. size + E /\ ~(i <= size)
        BY <2>1, <2>3
      <4> HIDE DEF size
      <4>2. i - size \in 1 .. E /\ i = size + (i - size)
        BY <2>1, <4>1
      <4> QED
        BY <4>2 DEF size
    <3>3. i = E * ((n + 1) - 1) + (i - E * n)
      BY <3>1, <3>2
    <3> QED
      BY <3>1, <3>2, <3>3, Zenon
  <2> QED
    BY <2>2, <2>3
<1>3. \A n \in Nat : n \in S
  <2> HIDE DEF S
  <2> QED
    BY <1>1, <1>2, AllNumbers
<1> QED
  BY <1>3

\* Two increasing sequences, each of which holds the elements of the other that lie
\* below one of its own, agree as far as both go.
LEMMA TwoEnumerations ==
    ASSUME NEW s \in Seq(Block), NEW t \in Seq(Block), Increasing(s), Increasing(t),
           \A i \in DOMAIN s, j \in DOMAIN t : s[i] < t[j] => s[i] \in Range(t),
           \A i \in DOMAIN s, j \in DOMAIN t : t[j] < s[i] => t[j] \in Range(s)
    PROVE  \A k \in DOMAIN s \intersect DOMAIN t : s[k] = t[k]
<1>1. /\ DOMAIN s = 1 .. Len(s) /\ DOMAIN t = 1 .. Len(t) /\ Len(s) \in Nat /\ Len(t) \in Nat
      /\ \A i \in DOMAIN s : s[i] \in Nat /\ i \in Nat
      /\ \A j \in DOMAIN t : t[j] \in Nat /\ j \in Nat
  <2>1. \A b \in Block : b \in Nat
    BY UnitFacts DEF Block
  <2> QED
    BY <2>1, LenProperties, ElementOfSeq
<1> DEFINE T == {k \in DOMAIN s \intersect DOMAIN t : s[k] # t[k]}
<1> SUFFICES ASSUME T # {} PROVE FALSE
  OBVIOUS
<1>2. PICK k \in T : \A j \in T : ~(j < k)
  <2>1. T \subseteq Nat
    BY <1>1
  <2> HIDE DEF T
  <2> QED
    BY <2>1, Least
<1>3. k \in DOMAIN s /\ k \in DOMAIN t /\ s[k] # t[k]
  OBVIOUS
<1>4. ASSUME NEW j \in DOMAIN s \union DOMAIN t, j < k PROVE j \in DOMAIN s /\ j \in DOMAIN t /\ s[j] = t[j]
  <2>1. j \in DOMAIN s /\ j \in DOMAIN t
    BY <1>1, <1>3, <1>4
  <2> QED
    BY <1>2, <1>4, <2>1
<1>5. CASE s[k] < t[k]
  <2>1. PICK j \in DOMAIN t : t[j] = s[k]
    BY <1>3, <1>5 DEF Range
  <2>2. j < k
    <3>1. ASSUME k < j PROVE FALSE
      <4>1. t[k] < t[j]
        BY <1>3, <2>1, <3>1 DEF Increasing
      <4> QED
        BY <1>1, <1>3, <1>5, <2>1, <4>1
    <3>2. j # k
      BY <1>1, <1>3, <1>5, <2>1
    <3> QED
      BY <1>1, <1>3, <3>1, <3>2
  <2>3. j \in DOMAIN s /\ s[j] = s[k]
    BY <1>4, <2>1, <2>2
  <2>4. s[j] < s[k]
    BY <1>3, <2>2, <2>3 DEF Increasing
  <2> QED
    BY <1>1, <1>3, <2>3, <2>4
<1>6. CASE t[k] < s[k]
  <2>1. PICK j \in DOMAIN s : s[j] = t[k]
    BY <1>3, <1>6 DEF Range
  <2>2. j < k
    <3>1. ASSUME k < j PROVE FALSE
      <4>1. s[k] < s[j]
        BY <1>3, <2>1, <3>1 DEF Increasing
      <4> QED
        BY <1>1, <1>3, <1>6, <2>1, <4>1
    <3>2. j # k
      BY <1>1, <1>3, <1>6, <2>1
    <3> QED
      BY <1>1, <1>3, <3>1, <3>2
  <2>3. j \in DOMAIN t /\ t[j] = t[k]
    BY <1>4, <2>1, <2>2
  <2>4. t[j] < t[k]
    BY <1>3, <2>2, <2>3 DEF Increasing
  <2> QED
    BY <1>1, <1>3, <2>3, <2>4
<1> QED
  BY <1>1, <1>3, <1>5, <1>6

\* Sequences that agree as far as both go: one is the beginning of the other.
LEMMA AgreeFacts ==
    ASSUME NEW S, NEW s \in Seq(S), NEW t \in Seq(S),
           \A i \in DOMAIN s \intersect DOMAIN t : s[i] = t[i]
    PROVE  Agree(s, t)
<1>1. ASSUME NEW a \in Seq(S), NEW b \in Seq(S), Len(a) <= Len(b),
             \A i \in DOMAIN a \intersect DOMAIN b : a[i] = b[i]
      PROVE  IsPrefix(a, b)
  <2>1. /\ Len(a) \in Nat /\ Len(b) \in Nat /\ DOMAIN a = 1 .. Len(a) /\ DOMAIN b = 1 .. Len(b)
        /\ Len(a) \in 0 .. Len(a) /\ Len(a) \in 0 .. Len(b)
    BY <1>1, LenProperties
  <2>2. /\ SubSeq(a, 1, Len(a)) \in Seq(S) /\ Len(SubSeq(a, 1, Len(a))) = Len(a)
        /\ \A i \in 1 .. Len(a) : SubSeq(a, 1, Len(a))[i] = a[i]
    BY <2>1, CutFacts
  <2>3. /\ SubSeq(b, 1, Len(a)) \in Seq(S) /\ Len(SubSeq(b, 1, Len(a))) = Len(a)
        /\ \A i \in 1 .. Len(a) : SubSeq(b, 1, Len(a))[i] = b[i]
    BY <2>1, CutFacts
  <2>4. \A i \in 1 .. Len(a) : a[i] = b[i]
    BY <1>1, <2>1
  <2>5. SubSeq(a, 1, Len(a)) = SubSeq(b, 1, Len(a))
    BY <2>2, <2>3, <2>4, SeqEqual
  <2> QED
    BY <1>1, <2>5 DEF IsPrefix
<1>2. Len(s) <= Len(t) \/ Len(t) <= Len(s)
  BY LenProperties
<1> QED
  BY <1>1, <1>2 DEF Agree

\* What a context that has seen blocks in that order has got is a beginning of what they hold.
LEMMA SameStream ==
    ASSUME NEW r \in Reader, NEW c, Filled(r, c), NEW stream \in Seq(Unit), NEW placed \in Seq(Block),
           Len(stream) = E * Len(placed),
           \A k \in DOMAIN placed, u \in 1 .. E : c[placed[k]][u] = stream[E * (k - 1) + u],
           \A k \in DOMAIN r.seen \intersect DOMAIN placed : r.seen[k] = placed[k]
    PROVE  \A i \in DOMAIN r.got \intersect DOMAIN stream : r.got[i] = stream[i]
<1>1. /\ r.got \in Seq(Unit) /\ Len(r.got) \in Nat /\ Len(r.buffer) \in Nat /\ Len(r.seen) \in Nat
      /\ Len(placed) \in Nat /\ DOMAIN r.got = 1 .. Len(r.got) /\ DOMAIN stream = 1 .. Len(stream)
      /\ DOMAIN r.seen = 1 .. Len(r.seen) /\ DOMAIN placed = 1 .. Len(placed)
  BY ReaderFields, LenProperties
<1>2. /\ Len(r.got) + Len(r.buffer) = E * Len(r.seen)
      /\ \A k \in DOMAIN r.seen, u \in 1 .. E : Behind(r, E * (k - 1) + u) = c[r.seen[k]][u]
  BY DEF Filled
<1> SUFFICES ASSUME NEW i \in DOMAIN r.got \intersect DOMAIN stream PROVE r.got[i] = stream[i]
  OBVIOUS
<1>3. i \in 1 .. Len(r.got) /\ i \in 1 .. E * Len(placed)
  BY <1>1
<1>4. PICK k \in 1 .. Len(placed), u \in 1 .. E : i = E * (k - 1) + u
  BY <1>1, <1>3, UnitOfBlock
<1>5. k \in DOMAIN r.seen
  <2>1. i \in 1 .. E * Len(r.seen)
    <3> DEFINE size == E * Len(r.seen)
    <3>1. Len(r.got) + Len(r.buffer) = size
      BY <1>2
    <3> HIDE DEF size
    <3>2. \A a, b \in Nat : \A j \in 1 .. a : j \in 1 .. a + b
      OBVIOUS
    <3>3. i \in 1 .. Len(r.got) + Len(r.buffer)
      BY <1>1, <1>3, <3>2
    <3>4. i \in 1 .. size
      BY <3>1, <3>3
    <3> QED
      BY <3>4 DEF size
  <2>2. PICK l \in 1 .. Len(r.seen), v \in 1 .. E : i = E * (l - 1) + v
    BY <1>1, <2>1, UnitOfBlock
  <2>3. ASSUME k > l PROVE FALSE
    <3>1. l \in 1 .. k - 1 /\ k - 1 \in Nat
      BY <1>1, <2>3
    <3>2. i \in 1 .. E * (k - 1) /\ E * (k - 1) \in Nat
      BY <2>2, <3>1, BlockIndex
    <3> DEFINE size == E * (k - 1)
    <3>3. i <= size /\ size \in Nat
      BY <3>2
    <3>4. i = size + u /\ u \in Nat /\ u > 0
      BY <1>4
    <3> HIDE DEF size
    <3> QED
      BY <3>3, <3>4
  <2> QED
    BY <1>1, <2>3
<1>6. Behind(r, i) = r.got[i]
  BY <1>3 DEF Behind
<1>7. Behind(r, i) = c[r.seen[k]][u]
  BY <1>2, <1>4, <1>5
<1>8. r.seen[k] = placed[k] /\ c[placed[k]][u] = stream[i]
  BY <1>1, <1>4, <1>5
<1> QED
  BY <1>6, <1>7, <1>8

\* What a reader gets is the stream of the last context that was closed without an
\* error, whatever the sizes of the calls (drivers that count one failure per read, no
\* block given up or decayed).
THEOREM StreamRoundTrip == Spec => []RoundTrip
<1>1. LibInv => RoundTrip
  <2> SUFFICES ASSUME LibInv, closed.valid, closed.given = {}, device.decayed = {}, ~device.counts
               PROVE  Agree(reader.got, closed.stream)
    BY DEF RoundTrip
  <2>1. /\ reader \in Reader /\ Filled(reader, content) /\ Passed(reader, device)
        /\ Kept(closed, content, device.bad) /\ OneContext /\ SeenAccounted
    BY ReadInOrderParts, KeptParts DEF LibInv, BaseInv, ReaderInv, TypeOk, ReadParts
  <2>2. /\ closed.stream \in Seq(Unit) /\ closed.placed \in Seq(Block) /\ reader.got \in Seq(Unit)
        /\ reader.seen \in Seq(Block) /\ Increasing(closed.placed) /\ Increasing(reader.seen)
    BY <2>1, ReaderFields DEF Kept, Passed
  <2>3. ASSUME NEW i \in DOMAIN reader.seen, NEW j \in DOMAIN closed.placed, reader.seen[i] < closed.placed[j]
        PROVE  reader.seen[i] \in Range(closed.placed)
    <3>1. /\ closed.placed[j] \in Range(closed.placed) /\ reader.seen[i] \in Range(reader.seen)
          /\ reader.seen[i] \in Block
      BY <2>2, LenProperties, ElementOfSeq DEF Range
    <3> QED
      BY <2>1, <2>3, <3>1 DEF Kept, Passed
  <2>4. ASSUME NEW i \in DOMAIN reader.seen, NEW j \in DOMAIN closed.placed, closed.placed[j] < reader.seen[i]
        PROVE  closed.placed[j] \in Range(reader.seen)
    <3>1. /\ closed.placed[j] \in Range(closed.placed) /\ reader.seen[i] \in Range(reader.seen)
          /\ closed.placed[j] \in Block /\ closed.placed[j] \in Nat
          /\ reader.seen[i] \in Nat /\ reader.fd \in Nat /\ reader.seen[i] < reader.fd
      <4>1. closed.placed[j] \in Block /\ reader.seen[i] \in Block
        BY <2>2, LenProperties, ElementOfSeq
      <4> QED
        BY <2>1, <4>1, UnitFacts, ReaderFields DEF Range, Passed, Block
    <3>2. closed.placed[j] < reader.fd
      BY <2>4, <3>1
    <3>3. closed.placed[j] \notin device.bad /\ device.query
      BY <2>1, <3>1 DEF Kept, Passed
    <3>4. reader.at # "closed"
      <4>1. DOMAIN NoReader.seen = {}
        BY NoWriterFacts DEF NoReader
      <4> QED
        BY <2>1, <4>1 DEF OneContext
    <3> QED
      BY <2>1, <3>1, <3>2, <3>3, <3>4 DEF SeenAccounted
  <2>5. \A k \in DOMAIN reader.seen \intersect DOMAIN closed.placed : reader.seen[k] = closed.placed[k]
    BY <2>2, <2>3, <2>4, TwoEnumerations
  <2>6. \A i \in DOMAIN reader.got \intersect DOMAIN closed.stream : reader.got[i] = closed.stream[i]
    <3>1. /\ Len(closed.stream) = E * Len(closed.placed)
          /\ \A k \in DOMAIN closed.placed, u \in 1 .. E :
                content[closed.placed[k]][u] = closed.stream[E * (k - 1) + u]
      BY <2>1 DEF Kept
    <3>2. reader \in Reader /\ Filled(reader, content)
      BY <2>1
    <3>3. closed.stream \in Seq(Unit) /\ closed.placed \in Seq(Block)
      BY <2>2
    <3> DEFINE stream == closed.stream
               placed == closed.placed
    <3>4. /\ stream \in Seq(Unit) /\ placed \in Seq(Block) /\ Len(stream) = E * Len(placed)
          /\ \A k \in DOMAIN placed, u \in 1 .. E : content[placed[k]][u] = stream[E * (k - 1) + u]
          /\ \A k \in DOMAIN reader.seen \intersect DOMAIN placed : reader.seen[k] = placed[k]
      BY <2>5, <3>1, <3>3
    <3> HIDE DEF stream, placed
    <3>5. \A i \in DOMAIN reader.got \intersect DOMAIN stream : reader.got[i] = stream[i]
      BY <3>2, <3>4, SameStream
    <3> QED
      BY <3>5 DEF stream
  <2> QED
    BY <2>2, <2>6, AgreeFacts
<1> QED
  BY <1>1, LibInductive, PTL

\* A reader gets beside the stream only blocks that were given up, it passes over no
\* block of the stream, and all come in order.
THEOREM StraysAreGivenUp == Spec => []StraysOnlyGivenUp
<1>1. LibInv => StraysOnlyGivenUp
  <2> SUFFICES ASSUME LibInv, closed.valid, device.decayed = {}, ~device.counts
               PROVE  /\ \A b \in Range(reader.seen), last \in Range(closed.placed) :
                            b < last => b \in Range(closed.placed) \union closed.given
                      /\ device.query =>
                            \A b \in Range(closed.placed) : b < reader.fd => b \in Range(reader.seen)
                      /\ \A i, j \in DOMAIN reader.seen : i < j => reader.seen[i] < reader.seen[j]
    BY DEF StraysOnlyGivenUp
  <2>1. /\ reader \in Reader /\ Passed(reader, device) /\ Kept(closed, content, device.bad)
        /\ OneContext /\ SeenAccounted
    BY ReadInOrderParts, KeptParts DEF LibInv, BaseInv, ReaderInv, TypeOk, ReadParts
  <2>2. closed.placed \in Seq(Block) /\ reader.seen \in Seq(Block)
    BY <2>1, ReaderFields DEF Kept
  <2>3. (\A b \in Range(closed.placed) : b \in Block) /\ (\A b \in Range(reader.seen) : b \in Block)
    BY <2>2, LenProperties, ElementOfSeq DEF Range
  <2>4. ASSUME NEW b \in Range(reader.seen), NEW last \in Range(closed.placed), b < last
        PROVE  b \in Range(closed.placed) \union closed.given
    BY <2>1, <2>3, <2>4 DEF Kept, Passed
  <2>5. ASSUME device.query, NEW b \in Range(closed.placed), b < reader.fd PROVE b \in Range(reader.seen)
    <3>1. b \in Block /\ b \notin device.bad
      BY <2>1, <2>3, <2>5 DEF Kept
    <3>2. reader.at # "closed"
      BY <2>1, <2>5, <3>1, UnitFacts DEF OneContext, NoReader, Block
    <3> QED
      BY <2>1, <2>5, <3>1, <3>2 DEF SeenAccounted
  <2>6. Increasing(reader.seen)
    BY <2>1 DEF Passed
  <2> QED
    BY <2>4, <2>5, <2>6 DEF Increasing
<1> QED
  BY <1>1, LibInductive, PTL

-----------------------------------------------------------------------------
(* mtd_find_write_start *)

\* One turn of the loop of mtd_find_write_start: b is the next offset of the list.
Turn(at, b) ==
    [pos |-> IF ~at.found /\ b = at.pos THEN at.pos + 1 ELSE at.pos,
     found |-> at.found \/ b > at.pos]

\* The loop over the list, as a function of the number of turns.
IsScan(f, bads, pos, n) ==
    f = [m \in 0 .. n |-> IF m = 0 THEN [pos |-> pos, found |-> FALSE] ELSE Turn(f[m - 1], bads[m])]

\* The loop is defined by its turns.
LEMMA ScanTurns ==
    ASSUME NEW bads \in Seq(Block), NEW pos \in Nat
    PROVE  IsScan(Scan(bads, pos), bads, pos, Len(bads))
<1> DEFINE S == {n \in Nat : \E f : IsScan(f, bads, pos, n)}
<1>1. 0 \in S
  <2> DEFINE f == [m \in 0 .. 0 |-> [pos |-> pos, found |-> FALSE]]
  <2>1. IsScan(f, bads, pos, 0)
    <3>1. \A m \in 0 .. 0 : m = 0
      OBVIOUS
    <3> QED
      BY <3>1 DEF IsScan
  <2> QED
    BY <2>1
<1>2. ASSUME NEW n \in Nat, n \in S PROVE n + 1 \in S
  <2>1. PICK f : IsScan(f, bads, pos, n)
    BY <1>2
  <2> DEFINE g == [m \in 0 .. n + 1 |-> IF m = n + 1 THEN Turn(f[n], bads[n + 1]) ELSE f[m]]
  <2>2. ASSUME NEW m \in 0 .. n + 1
        PROVE  g[m] = IF m = 0 THEN [pos |-> pos, found |-> FALSE] ELSE Turn(g[m - 1], bads[m])
    <3>1. CASE m = n + 1
      <4>1. m # 0 /\ m - 1 = n /\ n \in 0 .. n + 1 /\ n # n + 1
        BY <3>1
      <4>2. g[m - 1] = f[n]
        BY <4>1
      <4>3. g[m] = Turn(f[n], bads[n + 1])
        BY <3>1
      <4> QED
        BY <3>1, <4>1, <4>2, <4>3
    <3>2. CASE m # n + 1
      <4>1. m \in 0 .. n /\ (m # 0 => m - 1 \in 0 .. n + 1 /\ m - 1 # n + 1)
        BY <2>2, <3>2
      <4>2. g[m] = f[m] /\ (m # 0 => g[m - 1] = f[m - 1])
        BY <2>2, <3>2, <4>1
      <4>3. f[m] = IF m = 0 THEN [pos |-> pos, found |-> FALSE] ELSE Turn(f[m - 1], bads[m])
        BY <2>1, <4>1 DEF IsScan
      <4> QED
        BY <4>2, <4>3
    <3> QED
      BY <3>1, <3>2
  <2>3. g = [m \in 0 .. n + 1 |-> g[m]]
    OBVIOUS
  <2> HIDE DEF g
  <2>4. g = [m \in 0 .. n + 1 |-> IF m = 0 THEN [pos |-> pos, found |-> FALSE] ELSE Turn(g[m - 1], bads[m])]
    BY <2>2, <2>3
  <2> QED
    BY <2>4 DEF IsScan
<1>3. Len(bads) \in S
  <2> HIDE DEF S
  <2>1. Len(bads) \in Nat
    BY LenProperties
  <2> QED
    BY <1>1, <1>2, <2>1, AllNumbers
<1>4. \E f : IsScan(f, bads, pos, Len(bads))
  BY <1>3
<1>5. Scan(bads, pos) = CHOOSE f : IsScan(f, bads, pos, Len(bads))
  BY DEF Scan, IsScan, Turn
<1> QED
  BY <1>4, <1>5

\* What the loop knows after n turns over a sorted list.
Searched(at, bads, pos, n) ==
    /\ at.pos \in Nat /\ pos <= at.pos /\ at.found \in BOOLEAN
    /\ \A c \in pos .. at.pos - 1 : c \in Range(bads)
    /\ \A i \in 1 .. n : bads[i] # at.pos
    /\ IF at.found THEN \E i \in 1 .. n : bads[i] > at.pos ELSE \A i \in 1 .. n : bads[i] < at.pos

\* Each turn goes on from there.
LEMMA SearchTurn ==
    ASSUME NEW bads \in Seq(Block), Increasing(bads), NEW pos \in Nat, NEW n \in Nat, n + 1 \in DOMAIN bads,
           NEW at, Searched(at, bads, pos, n)
    PROVE  Searched(Turn(at, bads[n + 1]), bads, pos, n + 1)
<1> DEFINE b == bads[n + 1]
           next == Turn(at, b)
<1>1. /\ DOMAIN bads = 1 .. Len(bads) /\ Len(bads) \in Nat
      /\ \A i \in DOMAIN bads : bads[i] \in Nat
  <2>1. \A c \in Block : c \in Nat
    BY UnitFacts DEF Block
  <2> QED
    BY <2>1, LenProperties, ElementOfSeq
<1>2. \A i \in 1 .. n : i \in DOMAIN bads /\ bads[i] < b /\ bads[i] \in Nat
  <2> TAKE i \in 1 .. n
  <2>1. i \in DOMAIN bads /\ i < n + 1
    BY <1>1
  <2> QED
    BY <1>1, <2>1 DEF Increasing
<1>3. b \in Nat /\ b \in Range(bads)
  BY <1>1 DEF Range
<1>4. \A i \in 1 .. n + 1 : i \in 1 .. n \/ i = n + 1
  OBVIOUS
<1>5. /\ at.pos \in Nat /\ pos <= at.pos /\ at.found \in BOOLEAN
      /\ \A c \in pos .. at.pos - 1 : c \in Range(bads)
      /\ \A i \in 1 .. n : bads[i] # at.pos
      /\ at.found => \E i \in 1 .. n : bads[i] > at.pos
      /\ ~at.found => \A i \in 1 .. n : bads[i] < at.pos
  BY DEF Searched
<1>6. n + 1 \in 1 .. n + 1 /\ \A i \in 1 .. n : i \in 1 .. n + 1
  OBVIOUS
<1>7. CASE ~at.found /\ b = at.pos
  <2>1. next = [pos |-> at.pos + 1, found |-> FALSE]
    <3>1. ~(b > at.pos)
      BY <1>3, <1>7
    <3> QED
      BY <1>7, <3>1 DEF Turn
  <2>2. next.pos = at.pos + 1 /\ next.found = FALSE
    BY <2>1
  <2> HIDE DEF next
  <2>3. \A c \in pos .. next.pos - 1 : c \in Range(bads)
    <3> TAKE c \in pos .. next.pos - 1
    <3>1. c \in pos .. at.pos - 1 \/ c = at.pos
      BY <1>5, <2>2
    <3> QED
      BY <1>3, <1>5, <1>7, <3>1
  <2>4. \A i \in 1 .. n + 1 : bads[i] < next.pos /\ bads[i] # next.pos
    <3> TAKE i \in 1 .. n + 1
    <3>1. bads[i] \in Nat /\ bads[i] <= at.pos
      BY <1>2, <1>3, <1>4, <1>7
    <3> QED
      BY <1>5, <2>2, <3>1
  <2>5. next.pos \in Nat /\ pos <= next.pos
    BY <1>5, <2>2
  <2>6. Searched(next, bads, pos, n + 1)
    BY <2>2, <2>3, <2>4, <2>5 DEF Searched
  <2> QED
    BY <2>6 DEF next
<1>8. CASE ~(~at.found /\ b = at.pos)
  <2>1. next.pos = at.pos /\ next.found = (at.found \/ b > at.pos)
    BY <1>8 DEF Turn
  <2> HIDE DEF next
  <2>2. b # at.pos
    <3>1. CASE at.found
      BY <1>2, <1>3, <1>5, <3>1
    <3> QED
      BY <1>8, <3>1
  <2>3. \A i \in 1 .. n + 1 : bads[i] # next.pos
    BY <1>4, <1>5, <2>1, <2>2
  <2>4. CASE next.found
    <3>1. \E i \in 1 .. n + 1 : bads[i] > next.pos
      <4>1. CASE at.found
        BY <1>5, <1>6, <2>1, <4>1
      <4>2. CASE ~at.found
        BY <1>6, <2>1, <2>4, <4>2
      <4> QED
        BY <4>1, <4>2
    <3>2. Searched(next, bads, pos, n + 1)
      BY <1>5, <2>1, <2>3, <2>4, <3>1 DEF Searched
    <3> QED
      BY <3>2 DEF next
  <2>5. CASE ~next.found
    <3>1. b < at.pos
      <4>1. ~(b > at.pos)
        BY <2>1, <2>5
      <4>2. b \in Nat /\ at.pos \in Nat
        BY <1>3, <1>5
      <4> HIDE DEF b
      <4> QED
        BY <2>2, <4>1, <4>2
    <3>2. \A i \in 1 .. n + 1 : bads[i] < next.pos
      BY <1>4, <1>5, <2>1, <2>5, <3>1
    <3>3. Searched(next, bads, pos, n + 1)
      BY <1>5, <2>1, <2>3, <2>5, <3>2 DEF Searched
    <3> QED
      BY <3>3 DEF next
  <2> QED
    BY <2>4, <2>5
<1> QED
  BY <1>7, <1>8

\* On a sorted list the loop ends at the first position that is not on it.
LEMMA FindWriteStartFacts ==
    ASSUME NEW bads \in Seq(Block), Increasing(bads), NEW pos \in Nat
    PROVE  /\ FindWriteStart(bads, pos) \in Nat /\ pos <= FindWriteStart(bads, pos)
           /\ FindWriteStart(bads, pos) \notin Range(bads)
           /\ \A c \in pos .. FindWriteStart(bads, pos) - 1 : c \in Range(bads)
<1> DEFINE scan == Scan(bads, pos)
<1>1. /\ DOMAIN bads = 1 .. Len(bads) /\ Len(bads) \in Nat /\ IsScan(scan, bads, pos, Len(bads))
  BY LenProperties, ScanTurns
<1> HIDE DEF scan
<1> DEFINE S == {n \in Nat : n <= Len(bads) => Searched(scan[n], bads, pos, n)}
<1>2. /\ scan[0] = [pos |-> pos, found |-> FALSE]
      /\ \A n \in Nat : n + 1 <= Len(bads) => scan[n + 1] = Turn(scan[n], bads[n + 1])
  <2>1. \A m \in 0 .. Len(bads) :
           scan[m] = IF m = 0 THEN [pos |-> pos, found |-> FALSE] ELSE Turn(scan[m - 1], bads[m])
    BY <1>1 DEF IsScan
  <2>2. 0 \in 0 .. Len(bads)
    BY <1>1
  <2>3. ASSUME NEW n \in Nat, n + 1 <= Len(bads) PROVE scan[n + 1] = Turn(scan[n], bads[n + 1])
    <3>1. n + 1 \in 0 .. Len(bads) /\ n + 1 # 0 /\ (n + 1) - 1 = n
      BY <1>1, <2>3
    <3> QED
      BY <2>1, <3>1
  <2> QED
    BY <2>1, <2>2, <2>3
<1>3. 0 \in S
  <2>1. scan[0].pos = pos /\ scan[0].found = FALSE /\ pos .. pos - 1 = {} /\ 1 .. 0 = {} /\ pos <= pos
    BY <1>2
  <2>2. Searched(scan[0], bads, pos, 0)
    BY <2>1 DEF Searched
  <2> QED
    BY <2>2
<1>4. ASSUME NEW n \in Nat, n \in S PROVE n + 1 \in S
  <2> SUFFICES ASSUME n + 1 <= Len(bads) PROVE Searched(scan[n + 1], bads, pos, n + 1)
    OBVIOUS
  <2>1. Searched(scan[n], bads, pos, n) /\ n + 1 \in DOMAIN bads
    BY <1>1, <1>4
  <2> QED
    BY <1>2, <2>1, SearchTurn
<1>5. Searched(scan[Len(bads)], bads, pos, Len(bads))
  <2>1. \A n \in Nat : n \in S
    <3> HIDE DEF S
    <3> QED
      BY <1>3, <1>4, AllNumbers
  <2>2. Len(bads) \in S /\ Len(bads) <= Len(bads)
    BY <1>1, <2>1
  <2> QED
    BY <2>2
<1> QED
  BY <1>1, <1>5 DEF Searched, FindWriteStart, scan, Range

\* What makes a number the least of a set.
LEMMA MinIs ==
    ASSUME NEW T, T \subseteq Nat, NEW q \in T, \A y \in T : q <= y
    PROVE  Min(T) = q
<1>1. \A y \in T : Min(T) <= y /\ Min(T) \in T
  BY DEF Min
<1>2. Min(T) \in T /\ Min(T) <= q
  BY <1>1
<1>3. q <= Min(T) /\ Min(T) \in Nat /\ q \in Nat
  BY <1>2
<1> QED
  BY <1>2, <1>3

\* The writer answers with the first block from p on that holds data, or with its
\* position when there is none, for every p behind it.
THEOREM WriteStartFound == Spec => []FindsWriteStart
<1>1. LibInv => FindsWriteStart
  <2> SUFFICES ASSUME LibInv, writer.at = "open", ~writer.failed, NEW p \in 0 .. writer.fd - 1
               PROVE  FindWriteStart(writer.bad_block_offsets, p) =
                          Min({b \in p .. N : b = writer.fd \/ b \in Range(writer.placed)})
    BY DEF FindsWriteStart
  <2> DEFINE bads == writer.bad_block_offsets
             q == FindWriteStart(bads, p)
             T == {b \in p .. N : b = writer.fd \/ b \in Range(writer.placed)}
  <2>1. /\ writer \in Writer /\ PassedAccounted /\ WriterAhead /\ ListInOrder /\ N \in Nat
    BY UnitFacts DEF LibInv, BaseInv, FullInv, TypeOk
  <2>2. /\ bads \in Seq(Block) /\ writer.placed \in Seq(Block) /\ writer.fd \in Nat /\ writer.fd <= N
        /\ p \in Nat /\ p < writer.fd /\ Position = writer.fd
    BY <2>1, WriterFields DEF Position
  <2>3. /\ Increasing(bads) /\ (\A i \in DOMAIN bads : bads[i] < writer.fd)
        /\ Range(bads) \intersect Range(writer.placed) = {}
    BY <2>1, <2>2 DEF ListInOrder, Increasing
  <2>4. /\ q \in Nat /\ p <= q /\ q \notin Range(bads)
        /\ \A c \in p .. q - 1 : c \in Range(bads)
    BY <2>2, <2>3, FindWriteStartFacts
  <2> HIDE DEF q
  <2>5. \A c \in Range(bads) : c < writer.fd
    BY <2>3 DEF Range
  <2>6. q <= writer.fd
    <3> SUFFICES ASSUME writer.fd < q PROVE FALSE
      BY <2>2, <2>4
    <3>1. writer.fd \in p .. q - 1
      BY <2>2, <2>4
    <3> QED
      BY <2>2, <2>4, <2>5, <3>1
  <2>7. q \in T
    <3>1. q \in p .. N
      BY <2>1, <2>2, <2>4, <2>6
    <3>2. CASE q = writer.fd
      BY <3>1, <3>2
    <3>3. CASE q # writer.fd
      <4>1. q \in Block /\ q < writer.fd
        BY <2>1, <2>2, <2>4, <2>6, <3>3 DEF Block
      <4>2. q \in Range(writer.placed) \union Range(bads)
        BY <2>1, <2>2, <4>1 DEF PassedAccounted
      <4> QED
        BY <2>4, <3>1, <4>2
    <3> QED
      BY <3>2, <3>3
  <2>8. \A y \in T : q <= y
    <3> SUFFICES ASSUME NEW y \in T, y < q PROVE FALSE
      BY <2>1, <2>2, <2>4
    <3>1. y \in p .. q - 1
      BY <2>1, <2>2, <2>4
    <3>2. y \in Range(bads) /\ y < writer.fd
      BY <2>4, <2>5, <3>1
    <3>3. y \in Range(writer.placed)
      BY <2>2, <3>1, <3>2
    <3> QED
      BY <2>3, <3>2, <3>3
  <2>9. T \subseteq Nat
    BY <2>1, <2>2
  <2> HIDE DEF T
  <2>10. Min(T) = q
    BY <2>7, <2>8, <2>9, MinIs
  <2> QED
    BY <2>10 DEF T, q
<1> QED
  BY <1>1, LibInductive, PTL

-----------------------------------------------------------------------------
(* The misc partition.  What the legacy tool does with the library is made of the    *)
(* library's own steps, but for the power cut.                                       *)

\* Fewer blocks have fewer units, by a block at least.
LEMMA LessBlocks == \A x, y \in Int : x < y => E * x + E <= E * y
<1>1. E \in Nat /\ E > 0
  BY UnitFacts
<1> TAKE x, y \in Int
<1>2. ASSUME x < y PROVE E * x + E <= E * y
  <2>1. y - x - 1 \in Nat /\ E * (y - x - 1) \in Nat
    BY <1>1, <1>2
  <2>2. E * y = E * x + E + E * (y - x - 1)
    BY <1>1, SMT
  <2>3. E * x \in Int /\ E * y \in Int
    BY <1>1
  <2> QED
    BY <1>1, <2>1, <2>2, <2>3
<1> QED
  BY <1>2

\* A number has one quotient and one remainder.
LEMMA QuotientIs ==
    ASSUME NEW n \in Int, NEW m \in Int, NEW s \in 0 .. E - 1, n = E * m + s
    PROVE  n \div E = m /\ n % E = s
<1>0. E \in Nat /\ E > 0
  BY UnitFacts
<1>7. PICK q \in Int, r \in 0 .. E - 1 : q = n \div E /\ r = n % E /\ n = E * q + r
  <2> DEFINE q == n \div E
             r == n % E
  <2>1. q \in Int
    BY <1>0
  <2>2. r \in 0 .. E - 1
    BY <1>0
  <2>3. n = E * q + r
    BY <1>0
  <2> HIDE DEF q, r
  <2>4. \E x \in Int, y \in 0 .. E - 1 : x = q /\ y = r /\ n = E * x + y
    BY <2>1, <2>2, <2>3
  <2> QED
    BY <2>4 DEF q, r
<1>1. E \in Nat /\ E > 0 /\ r \in Int /\ s \in Int /\ 0 <= r /\ 0 <= s /\ r < E /\ s < E
  BY UnitFacts
<1>2. \A x, y \in Int : x < y => E * x + E <= E * y
  BY LessBlocks
<1> DEFINE a == E * q
           b == E * m
<1>3. a \in Int /\ b \in Int /\ a + r = b + s
  BY <1>1, <1>7
<1>4. (q < m => a + E <= b) /\ (m < q => b + E <= a) /\ (q = m => a = b)
  BY <1>2
<1> HIDE DEF a, b
<1>5. ~(q < m) /\ ~(m < q)
  BY <1>1, <1>3, <1>4
<1>6. q = m
  BY <1>5
<1> QED
  BY <1>1, <1>3, <1>4, <1>6, <1>7

\* The partition, as the contents c of its blocks.
Held(c) == [i \in 1 .. Size |-> c[BlockOf(i)][((i - 1) % E) + 1]]

\* The unit of the partition behind a unit of a block, and the other way round.
LEMMA HeldFacts ==
    ASSUME NEW c
    PROVE  /\ Size \in Nat /\ Size = E * N /\ Size > 0
           /\ \A i \in 1 .. Size : BlockOf(i) \in Block
           /\ \A i \in 1 .. Size : \E k \in 1 .. N, u \in 1 .. E : i = E * (k - 1) + u /\ BlockOf(i) = k - 1
           /\ \A k \in 1 .. N, u \in 1 .. E :
                 /\ E * (k - 1) + u \in 1 .. Size /\ k - 1 \in Block
                 /\ BlockOf(E * (k - 1) + u) = k - 1
                 /\ Held(c)[E * (k - 1) + u] = c[k - 1][u]
           /\ c \in [Block -> [1 .. E -> Unit]] => Held(c) \in [1 .. Size -> Unit]
<1>1. E \in Nat /\ E > 0 /\ N \in Nat /\ N > 0
  BY UnitFacts
<1>2. Size \in Nat /\ Size = E * N
  BY <1>1, SMT DEF Size
<1>3. Size > 0
  <2>1. E * N = E * (N - 1) + E /\ E * (N - 1) \in Nat
    BY <1>1, SMT
  <2> QED
    BY <1>1, <1>2, <2>1
<1>4. ASSUME NEW k \in 1 .. N, NEW u \in 1 .. E
      PROVE  /\ k - 1 \in Block
             /\ \E i \in 1 .. Size : /\ i = E * (k - 1) + u
                                     /\ BlockOf(i) = k - 1 /\ ((i - 1) % E) + 1 = u
  <2>1. k - 1 \in Block /\ k - 1 \in Int /\ u \in Int /\ u - 1 \in 0 .. E - 1
    BY <1>1 DEF Block
  <2>2. PICK m \in Int : m = E * (k - 1)
    BY <1>1
  <2>3. PICK i \in 1 .. Size : i = m + u
    BY <1>1, <1>2, <2>2, BlockIndex
  <2>4. i - 1 \in Int /\ i - 1 = m + (u - 1)
    BY <2>1, <2>3
  <2>5. i - 1 = E * (k - 1) + (u - 1)
    BY <2>2, <2>4, Zenon
  <2>6. (i - 1) \div E = k - 1 /\ (i - 1) % E = u - 1
    BY <2>1, <2>4, <2>5, QuotientIs
  <2>7. BlockOf(i) = k - 1 /\ ((i - 1) % E) + 1 = u
    BY <2>1, <2>6 DEF BlockOf
  <2>8. E * (k - 1) + u = i
    BY <2>2, <2>3, Zenon
  <2> QED
    BY <2>1, <2>7, <2>8, Zenon
<1>5. \A i \in 1 .. Size : \E k \in 1 .. N, u \in 1 .. E : i = E * (k - 1) + u /\ BlockOf(i) = k - 1
  <2>1. \A i \in 1 .. E * N : \E k \in 1 .. N, u \in 1 .. E : i = E * (k - 1) + u
    BY <1>1, UnitOfBlock
  <2> TAKE i \in 1 .. Size
  <2>2. PICK k \in 1 .. N, u \in 1 .. E : i = E * (k - 1) + u
    BY <1>2, <2>1
  <2> QED
    BY <1>4, <2>2
<1>6. \A i \in 1 .. Size : BlockOf(i) \in Block
  BY <1>4, <1>5
<1>7. ASSUME NEW k \in 1 .. N, NEW u \in 1 .. E
      PROVE  Held(c)[E * (k - 1) + u] = c[k - 1][u]
  <2>1. PICK i \in 1 .. Size : i = E * (k - 1) + u /\ BlockOf(i) = k - 1 /\ ((i - 1) % E) + 1 = u
    BY <1>4, Zenon
  <2>2. Held(c)[i] = c[k - 1][u]
    BY <2>1, Zenon DEF Held
  <2> QED
    BY <2>1, <2>2, Zenon
<1>8. ASSUME c \in [Block -> [1 .. E -> Unit]] PROVE Held(c) \in [1 .. Size -> Unit]
  <2>1. ASSUME NEW i \in 1 .. Size PROVE Held(c)[i] \in Unit
    <3>1. PICK k \in 1 .. N, u \in 1 .. E : i = E * (k - 1) + u
      BY <1>5
    <3>2. c[k - 1][u] \in Unit /\ Held(c)[E * (k - 1) + u] = c[k - 1][u]
      BY <1>4, <1>7, <1>8
    <3> QED
      BY <3>1, <3>2, Zenon
  <2> QED
    BY <2>1 DEF Held
<1> QED
  BY <1>2, <1>3, <1>4, <1>5, <1>6, <1>7, <1>8

\* Before and after a step.
LEMMA PartitionFacts ==
    /\ Partition = Held(content) /\ Partition' = Held(content')
    /\ Size \in Nat /\ Size = E * N /\ Size > 0
    /\ content \in [Block -> [1 .. E -> Unit]] => Partition \in [1 .. Size -> Unit]
    /\ content' = content => Partition' = Partition
BY HeldFacts DEF Partition, Held

\* Data that is what the blocks of a dense list hold is the partition.
LEMMA WholePartition ==
    ASSUME content \in [Block -> [1 .. E -> Unit]], NEW s \in Seq(Block), Len(s) = N, Dense(s, N),
           NEW data \in Seq(Unit), Len(data) = Size,
           \A k \in DOMAIN s, u \in 1 .. E : data[E * (k - 1) + u] = content[s[k]][u]
    PROVE  data = Partition /\ data \in [1 .. Size -> Unit] /\ Range(s) = Block
<1>1. /\ Size \in Nat /\ Partition \in [1 .. Size -> Unit] /\ data \in [1 .. Size -> Unit]
      /\ Partition = Held(content)
      /\ N \in Nat /\ DOMAIN s = 1 .. N /\ \A k \in 1 .. N : s[k] = k - 1
  BY PartitionFacts, BlockSeq, UnitFacts, LenProperties DEF Dense
<1>2. ASSUME NEW i \in 1 .. Size PROVE data[i] = Partition[i]
  <2>1. PICK k \in 1 .. N, u \in 1 .. E : i = E * (k - 1) + u
    BY HeldFacts
  <2>2. data[E * (k - 1) + u] = content[s[k]][u] /\ s[k] = k - 1
    BY <1>1
  <2>3. Partition[E * (k - 1) + u] = content[k - 1][u]
    BY <1>1, HeldFacts
  <2> QED
    BY <2>1, <2>2, <2>3, Zenon
<1>3. \A b \in Block : b + 1 \in 1 .. N /\ s[b + 1] = b
  BY <1>1 DEF Block
<1>4. \A k \in 1 .. N : s[k] \in Block
  BY <1>1 DEF Block
<1>5. Range(s) = Block
  BY <1>1, <1>3, <1>4 DEF Range
<1> QED
  BY <1>1, <1>2, <1>5

\* A read of the whole partition gives what its blocks hold, and succeeds only when
\* none of them is marked.
LEMMA WholeRead ==
    ASSUME LibInv, ReadsAll, ~reader.failed, reader.at = "open"
    PROVE  reader.got = Partition /\ reader.got \in [1 .. Size -> Unit] /\ device.bad = {}
<1>1. /\ reader \in Reader /\ Len(reader.buffer) <= E /\ device \in Device
      /\ content \in [Block -> [1 .. E -> Unit]]
      /\ Filled(reader, content) /\ Passed(reader, device)
  BY ReadInOrderParts DEF LibInv, BaseInv, TypeOk, ReadParts
<1>2. /\ reader.fd \in Nat /\ reader.fd <= N /\ N \in Nat /\ E \in Nat /\ E > 0
      /\ reader.got \in Seq(Unit) /\ reader.seen \in Seq(Block)
      /\ Len(reader.buffer) \in Nat /\ Len(reader.got) \in Nat /\ Len(reader.seen) \in Nat
      /\ reader.want \in Nat /\ DOMAIN reader.seen = 1 .. Len(reader.seen)
  BY <1>1, ReaderFields, UnitFacts, LenProperties
<1>3. Len(reader.got) + reader.want = Size /\ reader.want = 0 /\ Size = E * N /\ Size \in Nat
  BY PartitionFacts DEF ReadsAll
<1>4. Len(reader.got) = E * N
  BY <1>2, <1>3
<1>5. Len(reader.got) + Len(reader.buffer) = E * Len(reader.seen)
  BY <1>1 DEF Filled
<1>6. Len(reader.seen) <= reader.fd
  BY <1>1 DEF Passed, Dense
<1>7. Len(reader.seen) = N
  <2>1. PICK seen \in Nat, got \in Nat, kept \in Nat, whole \in Nat :
          /\ seen = Len(reader.seen) /\ got = Len(reader.got) /\ kept = Len(reader.buffer)
          /\ whole = E * seen
    <3>1. E * Len(reader.seen) \in Nat
      BY <1>2
    <3> QED
      BY <1>2, <3>1
  <2>2. got = E * N /\ got + kept = whole /\ seen <= N
    <3>1. seen <= N
      BY <1>2, <1>6, <2>1
    <3> QED
      BY <1>4, <1>5, <2>1, <3>1, Zenon
  <2>3. seen < N => E * seen + E <= E * N
    BY <1>2, LessBlocks
  <2>4. seen < N => whole + E <= got
    BY <2>1, <2>2, <2>3, Zenon
  <2>5. ~(seen < N)
    BY <1>2, <2>2, <2>4
  <2> QED
    BY <1>2, <2>1, <2>2, <2>5
<1>8. reader.fd = N
  BY <1>2, <1>6, <1>7
<1>9. Dense(reader.seen, N)
  BY <1>1, <1>8 DEF Passed
<1>10. Len(reader.buffer) = 0
  <2>1. Len(reader.got) + Len(reader.buffer) = Len(reader.got)
    BY <1>4, <1>5, <1>7
  <2>2. \A a, b \in Nat : a + b = a => b = 0
    OBVIOUS
  <2> QED
    BY <1>2, <2>1, <2>2
<1>11. ASSUME NEW k \in DOMAIN reader.seen, NEW u \in 1 .. E
       PROVE  reader.got[E * (k - 1) + u] = content[reader.seen[k]][u]
  <2>1. PICK i \in 1 .. Len(reader.got) : i = E * (k - 1) + u
    <3>1. k \in 1 .. N
      BY <1>2, <1>7
    <3> QED
      BY <1>2, <1>4, <3>1, BlockIndex
  <2>2. Behind(reader, E * (k - 1) + u) = content[reader.seen[k]][u]
    BY <1>1 DEF Filled
  <2>3. Behind(reader, i) = reader.got[i]
    BY <1>2 DEF Behind
  <2> QED
    BY <2>1, <2>2, <2>3, Zenon
<1>12. /\ reader.got = Partition /\ reader.got \in [1 .. Size -> Unit] /\ Range(reader.seen) = Block
  BY <1>1, <1>2, <1>3, <1>4, <1>7, <1>9, <1>11, WholePartition, Zenon
<1>13. device.bad = {}
  BY <1>1, <1>12 DEF Passed, Device
<1> QED
  BY <1>12, <1>13

\* A context that was closed without error with as many units as the partition has
\* is the partition.
LEMMA WholeWritten ==
    ASSUME LibInv, closed.valid, Len(closed.stream) = Size
    PROVE  closed.stream = Partition
<1>1. Kept(closed, content, device.bad) /\ content \in [Block -> [1 .. E -> Unit]]
  BY KeptParts DEF LibInv, BaseInv, TypeOk
<1>2. /\ closed.stream \in Seq(Unit) /\ closed.placed \in Seq(Block) /\ Dense(closed.placed, N)
      /\ Len(closed.stream) = E * Len(closed.placed)
      /\ \A k \in DOMAIN closed.placed, u \in 1 .. E :
            content[closed.placed[k]][u] = closed.stream[E * (k - 1) + u]
  BY <1>1 DEF Kept
<1>3. Len(closed.placed) \in Nat /\ N \in Nat /\ E \in Nat /\ E > 0 /\ Size = E * N
  BY <1>2, LenProperties, UnitFacts, PartitionFacts
<1>4. Len(closed.placed) <= N
  BY <1>2 DEF Dense
<1>5. E * Len(closed.placed) = E * N
  BY <1>2, <1>3
<1>6. Len(closed.placed) = N
  <2>1. Len(closed.placed) < N => E * Len(closed.placed) + E <= E * N
    BY <1>3, LessBlocks
  <2>2. PICK whole \in Nat : whole = E * N
    BY <1>3
  <2>3. Len(closed.placed) < N => whole + E <= whole
    BY <1>5, <2>1, <2>2, Zenon
  <2> QED
    BY <1>3, <1>4, <2>2, <2>3
<1> QED
  <2>1. closed.stream \in Seq(Unit) /\ closed.placed \in Seq(Block) /\ Len(closed.placed) = N
        /\ Dense(closed.placed, N) /\ content \in [Block -> [1 .. E -> Unit]]
    BY <1>1, <1>2, <1>6
  <2>2. \A k \in DOMAIN closed.placed, u \in 1 .. E :
            closed.stream[E * (k - 1) + u] = content[closed.placed[k]][u]
    BY <1>2
  <2> QED
    BY <2>1, <2>2, WholePartition, Zenon

\* While the whole partition is read, every unit is either got or still wanted.
LEMMA ReadsOn ==
    ASSUME TypeOk, ReadsAll, ReaderSteps
    PROVE  ReadsAll' /\ UNCHANGED <<device, content, taken, writer, closed>>
<1>1. ReaderMoves
  BY DEF ReaderSteps, ReaderMoves
<1>2. UNCHANGED <<device, content, taken, writer, closed>>
  BY <1>1, ReaderFacts
<1>3. reader.at \in {"read_data", "read_block"}
  BY DEF ReaderSteps, CopyBuffered, EnterReadBlock, ReadReturns, ReadError, EccFailure, ReadSkipsMarked,
         BlockRead, ReadFails, InReadBlock, ReaderStep
<1>4. /\ ~reader.failed /\ Len(reader.got) + reader.want = Size /\ reader \in Reader
      /\ Size \in Nat /\ E \in Nat
  BY <1>3, PartitionFacts, UnitFacts DEF ReadsAll, TypeOk
<1>5. /\ Len(reader.got) \in Nat /\ reader.want \in Nat /\ reader.got \in Seq(Unit) /\ reader.buffer \in Seq(Unit)
      /\ Len(reader.buffer) \in Nat
  BY <1>4, ReaderFields
<1>6. CASE EnterReadBlock \/ ReadError \/ EccFailure \/ ReadSkipsMarked
  <2>1. /\ reader'.at \in {"read_data", "read_block"} /\ reader'.failed = reader.failed
        /\ reader'.got = reader.got /\ reader'.want = reader.want
    BY <1>4, <1>6 DEF EnterReadBlock, ReadError, EccFailure, ReadSkipsMarked, InReadBlock, ReaderStep, Reader
  <2> QED
    BY <1>2, <1>4, <2>1 DEF ReadsAll, Size
<1>7. CASE ReadReturns
  <2>1. /\ reader'.at = "open" /\ reader.want = 0 /\ reader'.failed = reader.failed
        /\ reader'.got = reader.got /\ reader'.want = reader.want
    BY <1>4, <1>7 DEF ReadReturns, ReaderStep, Reader
  <2> QED
    BY <1>2, <1>4, <2>1 DEF ReadsAll, Size
<1>8. CASE ReadFails
  <2>1. reader'.at = "open" /\ reader'.failed
    BY <1>4, <1>8 DEF ReadFails, ReaderStep, Reader
  <2> QED
    BY <1>2, <2>1 DEF ReadsAll
<1>9. CASE CopyBuffered
  <2>1. Copies
    BY <1>1, <1>9, ReadFacts
  <2>2. PICK n \in 0 .. Len(reader.buffer) :
          /\ reader'.got = reader.got \o SubSeq(reader.buffer, 1, n) /\ reader'.want = reader.want - n
    BY <2>1 DEF Copies
  <2>3. PICK head \in Seq(Unit) : Len(head) = n /\ reader'.got = reader.got \o head
    BY <1>5, <2>2, CutFacts
  <2>4. Len(reader'.got) = Len(reader.got) + n /\ n \in Nat
    <3>1. Len(reader.got \o head) = Len(reader.got) + Len(head)
      BY <1>5, ConcatProperties
    <3> QED
      BY <2>3, <3>1
  <2>5. Len(reader'.got) + reader'.want = Size
    <3>1. \A a, b, m \in Nat : (a + m) + (b - m) = a + b
      OBVIOUS
    <3>2. reader'.want = reader.want - n
      BY <2>2
    <3> QED
      BY <1>4, <1>5, <2>4, <3>1, <3>2
  <2> QED
    BY <1>2, <1>4, <2>1, <2>5 DEF Copies, ReadsAll, Size
<1>10. CASE BlockRead
  <2>1. Reads
    BY <1>1, <1>10, ReadFacts
  <2>2. content[reader.fd] \in Seq(Unit) /\ Len(content[reader.fd]) = E
    BY <1>4, <2>1, BlockSeq DEF Reads, TypeOk
  <2>3. Len(reader'.got) + reader'.want = Size
    <3>1. CASE reader.want < E
      BY <1>4, <2>1, <3>1 DEF Reads
    <3>2. CASE ~(reader.want < E)
      <4>1. reader'.got = reader.got \o content[reader.fd] /\ reader'.want = reader.want - E
        BY <2>1, <3>2 DEF Reads
      <4>2. Len(reader'.got) = Len(reader.got) + E
        <5>1. Len(reader.got \o content[reader.fd]) = Len(reader.got) + Len(content[reader.fd])
          BY <1>5, <2>2, ConcatProperties
        <5> QED
          BY <2>2, <4>1, <5>1
      <4> QED
        BY <1>4, <1>5, <4>1, <4>2
    <3> QED
      BY <3>1, <3>2
  <2> QED
    BY <1>2, <1>4, <2>1, <2>3 DEF Reads, ReadsAll, Size
<1> QED
  BY <1>2, <1>6, <1>7, <1>8, <1>9, <1>10 DEF ReaderSteps

\* While the whole partition is written, nothing is left in the block buffer, and each
\* block that the context has used is followed by whole blocks.
LEMMA WritesWhole ==
    ASSUME LibInv, writer.at # "closed", writer.stored = <<>>, Len(writer.stream) = Size
    PROVE  /\ writer \in Writer /\ Fits(writer)
           /\ Len(writer.placed) \in Nat /\ Len(writer.rest) \in Nat
           /\ E * N = E * Len(writer.placed) + Len(writer.rest)
           /\ writer.rest = <<>> \/ Len(writer.rest) >= E
           /\ Len(writer.placed) = N => writer.rest = <<>>
           /\ \A u \in DOMAIN writer.rest : writer.rest[u] = writer.stream[E * Len(writer.placed) + u]
<1>1. /\ writer \in Writer /\ Fits(writer) /\ Ordered(writer, content)
  BY OrderParts DEF LibInv, BaseInv, TypeOk, Fits, WriterShape, Shape
<1>2. /\ Len(writer.placed) \in Nat /\ Len(writer.rest) \in Nat /\ Len(writer.stored) = 0
      /\ writer.rest = <<>> <=> Len(writer.rest) = 0
      /\ N \in Nat /\ E \in Nat /\ E > 0 /\ Size = E * N
  BY <1>1, WriterFields, UnitFacts, PartitionFacts
<1>3. PICK used \in Nat : used = E * Len(writer.placed)
  BY <1>2
<1>4. /\ Len(writer.stream) = used + Len(writer.stored) + Len(writer.rest)
      /\ \A u \in DOMAIN writer.rest : writer.rest[u] = writer.stream[used + Len(writer.stored) + u]
  BY <1>1, <1>3, Zenon DEF Ordered, Complete, Left
<1>5. E * N = used + Len(writer.rest)
  BY <1>2, <1>4
<1>6. \A u \in DOMAIN writer.rest : writer.rest[u] = writer.stream[used + u]
  <2>1. \A m \in Nat : m + 0 = m
    OBVIOUS
  <2> QED
    BY <1>2, <1>4, <2>1
<1>7. writer.rest = <<>> \/ Len(writer.rest) >= E
  <2> SUFFICES ASSUME Len(writer.rest) < E PROVE Len(writer.rest) = 0
    BY <1>2
  <2>1. Len(writer.rest) \in 0 .. E - 1 /\ 0 \in 0 .. E - 1
        /\ Len(writer.placed) \in Int /\ N \in Int
    BY <1>2
  <2>2. PICK n \in Int : n = used + Len(writer.rest)
    BY <1>2
  <2>3. n % E = Len(writer.rest)
    <3>1. n = E * Len(writer.placed) + Len(writer.rest)
      BY <1>3, <2>2
    <3> QED
      BY <2>1, <2>2, <3>1, QuotientIs, Zenon
  <2>4. n % E = 0
    <3>1. n = E * N + 0
      BY <1>2, <1>5, <2>2
    <3> QED
      BY <2>1, <2>2, <3>1, QuotientIs, Zenon
  <2> QED
    BY <2>3, <2>4
<1>8. Len(writer.placed) = N => writer.rest = <<>>
  <2>1. \A m \in Nat : used = used + m => m = 0
    OBVIOUS
  <2> QED
    BY <1>2, <1>3, <1>5, <2>1
<1> QED
  BY <1>1, <1>2, <1>3, <1>5, <1>6, <1>7, <1>8

\* Where such a write goes on, and what it does to the partition when nothing is skipped.
GoesOn ==
    /\ writer'.at \in {"open", "write_data", "write_block"} /\ writer'.stored = <<>>
    /\ writer'.stream = writer.stream /\ ~writer'.closing
InPlace ==
    (device.weak = {} /\ Len(writer.placed) = Position) =>
        /\ Len(writer'.placed) = Position'
        /\ \A i \in 1 .. Size : Partition'[i] \in {Partition[i], writer.stream[i]}

\* A step that changes no block keeps the partition.
LEMMA StaysInPlace ==
    ASSUME content' = content, writer'.placed = writer.placed, Position' = Position
    PROVE  InPlace
BY PartitionFacts DEF InPlace

\* As long as no block is marked, every step goes on with the whole partition.
LEMMA WritesOn ==
    ASSUME LibInv, writer.at \in {"open", "write_data", "write_block"}, writer.stored = <<>>,
           Len(writer.stream) = Size, ~writer.closing, device.bad = {}, WriterSteps
    PROVE  GoesOn /\ InPlace /\ Heals /\ reader' = reader
<1>1. /\ writer \in Writer /\ Fits(writer) /\ Shape(writer) /\ device \in Device
      /\ Len(writer.placed) \in Nat /\ Len(writer.rest) \in Nat
      /\ writer.rest = <<>> \/ Len(writer.rest) >= E
      /\ Len(writer.placed) = N => writer.rest = <<>>
      /\ \A u \in DOMAIN writer.rest : writer.rest[u] = writer.stream[E * Len(writer.placed) + u]
  BY WritesWhole DEF Fits, LibInv, BaseInv, TypeOk
<1>2. /\ Len(writer.stored) = 0 /\ writer.rest \in Seq(Unit) /\ writer.fd \in Nat /\ writer.pos \in Nat
      /\ writer.placed \in Seq(Block) /\ writer.stream \in Seq(Unit)
      /\ writer.rest = <<>> <=> Len(writer.rest) = 0
      /\ N \in Nat /\ E \in Nat /\ E > 0 /\ Direct(writer)
  BY <1>1, WriterFields, UnitFacts DEF Direct
<1>3. writer.at = "write_block" => writer.then = "write_data" /\ Len(writer.rest) >= E
  BY <1>1, <1>2 DEF Shape
<1>4. Heals /\ reader' = reader
  BY <1>1, HealFacts DEF WriterMoves
<1>5. WriteDirect \/ WriteReturns \/ BlockWritten \/ GiveUpBlock \/ OutOfSpace
  <2>1. ~Coalesce
    BY <1>1, <1>2 DEF Coalesce
  <2>2. ~FlushBuffer
    BY <1>2 DEF FlushBuffer
  <2>3. ~PadAndFlush /\ ~EraseRange /\ ~EraseTooMany
    BY DEF PadAndFlush, EraseRange, EraseTooMany, WriterStep
  <2>4. ~SkipMarked
    BY DEF SkipMarked, WriteMarked
  <2> QED
    BY <2>1, <2>2, <2>3, <2>4 DEF WriterSteps
<1>6. CASE WriteDirect
  <2>1. /\ writer' = [writer EXCEPT !.at = "write_block", !.then = "write_data", !.pos = writer.fd]
        /\ content' = content /\ writer.at = "write_data"
    BY <1>6 DEF WriteDirect, EnterWriteBlock, WriterStep
  <2>2. /\ writer'.at = "write_block" /\ writer'.stored = writer.stored /\ writer'.stream = writer.stream
        /\ writer'.closing = writer.closing /\ writer'.placed = writer.placed /\ writer'.pos = writer.fd
    BY <1>1, <2>1 DEF Writer
  <2>3. Position' = Position
    BY <2>1, <2>2 DEF Position
  <2> QED
    BY <1>4, <2>1, <2>2, <2>3, StaysInPlace DEF GoesOn
<1>7. CASE WriteReturns
  <2>1. /\ writer' = [writer EXCEPT !.at = "open"]
        /\ content' = content /\ writer.at = "write_data"
    BY <1>7 DEF WriteReturns, WriterStep
  <2>2. /\ writer'.at = "open" /\ writer'.stored = writer.stored /\ writer'.stream = writer.stream
        /\ writer'.closing = writer.closing /\ writer'.placed = writer.placed /\ writer'.fd = writer.fd
    BY <1>1, <2>1 DEF Writer
  <2>3. Position' = Position
    BY <2>1, <2>2 DEF Position
  <2> QED
    BY <1>4, <2>1, <2>2, <2>3, StaysInPlace DEF GoesOn
<1>8. CASE GiveUpBlock
  <2>1. /\ writer.pos \in device.weak /\ writer.at = "write_block"
        /\ writer' = Skip(writer)
    BY <1>8 DEF GiveUpBlock, AtBlock, WriterStep
  <2>2. /\ writer'.at = "write_block" /\ writer'.stored = writer.stored /\ writer'.stream = writer.stream
        /\ writer'.closing = writer.closing
    BY <1>1, <2>1 DEF Writer, Skip
  <2>3. InPlace
    BY <2>1 DEF InPlace
  <2> QED
    BY <1>4, <2>2, <2>3 DEF GoesOn
<1>9. CASE OutOfSpace
  <2>1. PICK fd : /\ writer' = [writer EXCEPT !.fd = fd, !.failed = TRUE, !.at = "open"]
                  /\ content' = content
    <3>1. writer.then = "write_data"
      BY <1>3, <1>9 DEF OutOfSpace, WriterStep
    <3>2. PICK fd : LET w == [writer EXCEPT !.fd = fd, !.failed = TRUE] IN
                    IF w.then = "erase_blocks" THEN LeaveErase(w) ELSE writer' = [w EXCEPT !.at = "open"] /\ UNCHANGED closed
      BY <1>9 DEF OutOfSpace
    <3>3. [writer EXCEPT !.fd = fd, !.failed = TRUE].then = "write_data"
      BY <1>1, <3>1 DEF Writer
    <3> QED
      BY <1>9, <3>2, <3>3 DEF OutOfSpace
  <2>2. /\ writer'.at = "open" /\ writer'.stored = writer.stored /\ writer'.stream = writer.stream
        /\ writer'.closing = writer.closing
    BY <1>1, <2>1 DEF Writer
  <2>3. writer.at = "write_block" /\ writer.pos = N /\ Len(writer.rest) >= E
    BY <1>3, <1>9 DEF OutOfSpace, WriterStep
  <2>4. Len(writer.placed) # Position
    BY <1>1, <1>2, <2>3 DEF Position
  <2>5. InPlace
    BY <2>4 DEF InPlace
  <2> QED
    BY <1>4, <2>2, <2>5 DEF GoesOn
<1>10. CASE BlockWritten
  <2>1. Writes /\ Fits(writer') /\ writer.at = "write_block"
    BY <1>1, <1>10, BlockWrittenFacts DEF Writes
  <2>2. /\ writer.then = "write_data" /\ Padding(writer) = <<>>
        /\ BlockData(writer) = SubSeq(writer.rest, 1, E) /\ Len(writer.rest) >= E
    BY <1>1, <1>2, <2>1, BlockFacts
  <2>3. writer' = [writer EXCEPT !.at = writer.then, !.fd = writer.pos + 1, !.stored = <<>>,
                     !.rest = IF Direct(writer) THEN SubSeq(@, E + 1, Len(@)) ELSE @,
                     !.stream = @ \o Padding(writer), !.placed = Append(@, writer.pos)]
    BY <1>10 DEF BlockWritten
  <2>4. writer'.closing = writer.closing
    BY <1>1, <2>3 DEF Writer
  <2>5. writer'.stream = writer.stream
    BY <1>2, <2>1, <2>2, ConcatEmptySeq DEF Writes
  <2>6. GoesOn
    BY <2>1, <2>2, <2>4, <2>5 DEF Writes, GoesOn
  <2>7. InPlace
    <3> SUFFICES ASSUME Len(writer.placed) = Position
                 PROVE  /\ Len(writer'.placed) = Position'
                        /\ \A i \in 1 .. Size : Partition'[i] \in {Partition[i], writer.stream[i]}
      BY DEF InPlace
    <3>1. /\ Len(writer.placed) = writer.pos /\ writer.pos \in Block
          /\ content' = [content EXCEPT ![writer.pos] = SubSeq(writer.rest, 1, E)]
          /\ content \in [Block -> [1 .. E -> Unit]]
      BY <2>1, <2>2 DEF Position, Writes, LibInv, BaseInv, TypeOk
    <3>2. Len(writer'.placed) = Position'
      <4>1. Len(writer'.placed) = Len(writer.placed) + 1
        BY <1>2, <2>1, AppendFacts DEF Writes
      <4>2. Position' = writer.pos + 1
        BY <2>1, <2>2 DEF Writes, Position
      <4> QED
        BY <3>1, <4>1, <4>2
    <3>3. ASSUME NEW i \in 1 .. Size PROVE Partition'[i] \in {Partition[i], writer.stream[i]}
      <4>1. PICK k \in 1 .. N, u \in 1 .. E : i = E * (k - 1) + u
        BY HeldFacts
      <4>2. /\ Held(content)[E * (k - 1) + u] = content[k - 1][u] /\ k - 1 \in Block
            /\ Held(content')[E * (k - 1) + u] = content'[k - 1][u]
        BY HeldFacts
      <4>3. CASE k - 1 # writer.pos
        <5>1. content'[k - 1] = content[k - 1]
          BY <3>1, <4>2, <4>3
        <5> QED
          BY <4>1, <4>2, <5>1, PartitionFacts, Zenon
      <4>4. CASE k - 1 = writer.pos
        <5>1. content'[k - 1] = SubSeq(writer.rest, 1, E)
          BY <3>1, <4>2, <4>4
        <5>2. SubSeq(writer.rest, 1, E)[u] = writer.rest[u] /\ u \in DOMAIN writer.rest
          <6>1. E \in 0 .. Len(writer.rest) /\ DOMAIN writer.rest = 1 .. Len(writer.rest)
            BY <1>1, <1>2, <2>2, LenProperties
          <6>2. u \in 1 .. Len(writer.rest)
            BY <1>2, <6>1
          <6> QED
            BY <1>2, <6>1, <6>2, CutFacts
        <5>3. writer.rest[u] = writer.stream[E * (k - 1) + u]
          BY <1>1, <3>1, <4>4, <5>2, Zenon
        <5> QED
          BY <4>1, <4>2, <5>1, <5>2, <5>3, PartitionFacts, Zenon
      <4> QED
        BY <4>3, <4>4
    <3> QED
      BY <3>2, <3>3
  <2> QED
    BY <1>4, <2>6, <2>7
<1> QED
  BY <1>5, <1>6, <1>7, <1>8, <1>9, <1>10

\* The fields of a call.
LEMMA ToolFields ==
    ASSUME NEW t \in Tool
    PROVE  /\ t.pc \in {"idle", "opened", "reading", "write", "patch", "writing", "closing"}
           /\ t.op \in {"read", "write"} /\ t.range \in Ranges \union {NoRange}
           /\ t.data \in Seq(Unit) /\ t.ret \in {0, -1}
BY DEF Tool

\* A call on its way: somewhere else, with other data and another result.
Continued(t, pc, data, ret) == [t EXCEPT !.pc = pc, !.data = data, !.ret = ret]

\* A call that is over, or one that begins.
Fresh(pc, op, range, data, ret) ==
    [pc |-> pc, op |-> op, range |-> range, data |-> data, ret |-> ret]

\* The library reads for the tool.
LEMMA ReadingGoesOn ==
    ASSUME LibInv, MiscInv, ReaderSteps, UNCHANGED toolVars
    PROVE  Step /\ MiscInv'
<1>1. reader.at \in {"read_data", "read_block"}
  BY DEF ReaderSteps, CopyBuffered, EnterReadBlock, ReadReturns, ReadError, EccFailure, ReadSkipsMarked,
         BlockRead, ReadFails, InReadBlock, ReaderStep
<1>2. At("reading") /\ ReadsAll
  BY <1>1 DEF MiscInv, MiscTypeOk, CallState, Tool, At, NoReader
<1>3. ReadsAll' /\ UNCHANGED <<device, content, taken, writer, closed>>
  BY <1>2, ReadsOn DEF LibInv, BaseInv
<1>4. UNCHANGED <<tool, before, known, cut>> /\ Partition' = Partition
  BY <1>3, PartitionFacts DEF toolVars
<1>5. MiscTypeOk'
  BY <1>4 DEF MiscInv, MiscTypeOk
<1>6. CallState'
  BY <1>2, <1>3, <1>4 DEF MiscInv, CallState, At
<1>7. DataState'
  BY <1>2, <1>3, <1>4 DEF MiscInv, DataState, At, Writing
<1>8. OutsideKept'
  BY <1>2, <1>3, <1>4 DEF MiscInv, OutsideKept, At, Position
<1> QED
  BY <1>5, <1>6, <1>7, <1>8 DEF MiscInv, Step, ReaderMoves, ReaderSteps

\* The library writes for the tool.
LEMMA WritingGoesOn ==
    ASSUME LibInv, MiscInv, WriterSteps, UNCHANGED toolVars
    PROVE  Step /\ MiscInv'
<1>1. writer.at \in {"write_data", "erase_blocks", "write_block"}
  BY DEF WriterSteps, Coalesce, FlushBuffer, WriteDirect, WriteReturns, PadAndFlush,
         EraseRange, EraseTooMany, SkipMarked, BlockWritten, GiveUpBlock, OutOfSpace, AtBlock, WriterStep
<1>2. At("writing") \/ At("closing")
  BY <1>1, NoWriterFacts DEF MiscInv, MiscTypeOk, CallState, Tool, At
<1>3. WritesAll /\ device.bad = {} /\ device \in Device /\ Len(writer.stream) = Size /\ OneContext
  <2>1. WritesAll /\ device.bad = {} /\ tool.data \in [1 .. Size -> Unit]
    BY <1>1, <1>2, NoWriterFacts DEF MiscInv, CallState, DataState, Writing, At
  <2>2. Size \in Nat
    BY PartitionFacts
  <2> QED
    BY <2>1, <2>2, BlockSeq DEF WritesAll, LibInv, BaseInv, TypeOk
<1>4. UNCHANGED <<tool, before, known, cut>> /\ known = <<>> /\ reader = NoReader
  BY <1>2 DEF toolVars, MiscInv, DataState, CallState, At
<1>5. MiscTypeOk'
  BY <1>4 DEF MiscInv, MiscTypeOk
<1>6. WriterMoves /\ Heals /\ reader' = reader
  BY <1>3, HealFacts DEF WriterMoves
<1>7. Step
  BY <1>6 DEF Step
<1>8. DataState'
  BY <1>2, <1>4, <1>6 DEF MiscInv, DataState, At, Writing, Heals
<1>9. CASE At("writing")
  <2>1. writer.at \in {"open", "write_data", "write_block"} /\ ~writer.closing
    BY <1>9 DEF MiscInv, CallState
  <2>2. GoesOn /\ InPlace
    BY <1>3, <2>1, WritesOn DEF WritesAll
  <2>3. CallState'
    BY <1>3, <1>4, <1>6, <1>9, <2>2 DEF MiscInv, CallState, At, GoesOn, WritesAll
  <2>4. OutsideKept'
    <3>1. ~cut /\ device'.weak = device.weak
      BY <1>6, <1>9 DEF MiscInv, OutsideKept, At, Heals
    <3>2. ASSUME device.weak = {}
          PROVE  /\ Len(writer'.placed) = Position'
                 /\ \E b \in Block : \A i \in Outside(before.range) : Partition'[i] = before.data[i]
      <4>1. PICK b \in Block : \A i \in Outside(before.range) : Partition[i] = before.data[i]
        BY <3>1, <3>2 DEF MiscInv, OutsideKept
      <4>2. Len(writer.placed) = Position
        BY <1>9, <3>2 DEF MiscInv, OutsideKept
      <4>3. \A i \in Outside(before.range) : tool.data[i] = before.data[i] /\ i \in 1 .. Size
        BY <1>9 DEF MiscInv, DataState, Outside
      <4>4. Len(writer'.placed) = Position' /\ \A i \in 1 .. Size : Partition'[i] \in {Partition[i], tool.data[i]}
        BY <1>3, <2>2, <3>2, <4>2 DEF InPlace, WritesAll
      <4> QED
        BY <4>1, <4>3, <4>4
    <3> QED
      BY <1>4, <1>9, <3>1, <3>2 DEF OutsideKept, At
  <2> QED
    BY <1>5, <1>7, <1>8, <2>3, <2>4 DEF MiscInv
<1>10. CASE At("closing")
  <2>1. writer.at = "erase_blocks" /\ writer.closing /\ writer.blocks = 0 /\ writer.stored = <<>>
    BY <1>1, <1>3, <1>10, NoWriterFacts DEF MiscInv, CallState, At, WritesAll
  <2>2. EraseRange \/ EraseTooMany
    BY <2>1 DEF WriterSteps, Coalesce, FlushBuffer, WriteDirect, WriteReturns, PadAndFlush,
                SkipMarked, BlockWritten, GiveUpBlock, OutOfSpace, AtBlock, WriterStep
  <2>3. writer' = NoWriter /\ (closed'.valid => closed'.stream = tool.data)
    <3>1. LeaveErase(writer)
      BY <2>2 DEF EraseRange, EraseTooMany
    <3> QED
      BY <1>3, <2>1, <3>1 DEF LeaveErase, NoStream, WritesAll
  <2>4. content' = content
    <3>1. CASE EraseTooMany
      BY <3>1 DEF EraseTooMany
    <3>2. CASE EraseRange
      <4>1. EraseTargets(writer) = {}
        <5>1. writer.fd \in Nat /\ \A b \in Block : b \in Nat
          BY WriterFields, UnitFacts DEF LibInv, BaseInv, TypeOk, Block
        <5> QED
          BY <2>1, <5>1 DEF EraseTargets
      <4>2. content' = [b \in Block |-> content[b]]
        BY <3>2, <4>1 DEF EraseRange
      <4> QED
        BY <4>2 DEF LibInv, BaseInv, TypeOk
    <3> QED
      BY <2>2, <3>1, <3>2
  <2>5. CallState'
    BY <1>4, <1>6, <1>10, <2>3 DEF MiscInv, CallState, At
  <2>6. Partition' = Partition /\ device'.weak = device.weak
    BY <1>6, <2>4, PartitionFacts DEF Heals
  <2>7. OutsideKept'
    BY <1>4, <1>10, <2>6 DEF MiscInv, OutsideKept, At
  <2> QED
    BY <1>5, <1>7, <1>8, <2>5, <2>7 DEF MiscInv
<1> QED
  BY <1>2, <1>9, <1>10

\* readMisc_mtd or writeMisc_mtd begins, and opens the partition for reading.
LEMMA BeginKeeps ==
    ASSUME LibInv, MiscInv, NEW op \in {"read", "write"}, NEW range \in Ranges \union {NoRange},
           op = "write" => range \in Ranges, Begin(op, range)
    PROVE  Step /\ MiscInv'
<1>1. /\ At("idle") /\ OpenRead /\ UNCHANGED <<before, known, cut>>
      /\ UNCHANGED <<device, content, taken, writer, closed>>
      /\ reader' = [NoReader EXCEPT !.at = "open"]
  BY DEF Begin, OpenRead, ReaderStep
<1>2. tool' = Fresh("opened", op, range, <<>>, 0)
  BY DEF Begin, NoTool, Fresh
<1>3. tool' \in Tool /\ tool'.pc = "opened" /\ tool'.op = op /\ tool'.range = range
  <2>1. <<>> \in Seq(Unit) /\ 0 \in {0, -1} /\ "opened" \in {"idle", "opened"}
    BY UnitFacts
  <2> QED
    BY <1>2, <2>1 DEF Fresh, Tool
<1>4. Partition' = Partition
  BY <1>1, PartitionFacts
<1>5. MiscTypeOk'
  BY <1>1, <1>3 DEF MiscInv, MiscTypeOk
<1>6. CallState'
  BY <1>1, <1>3 DEF MiscInv, CallState, At
<1>7. DataState'
  BY <1>1, <1>3, <1>4 DEF MiscInv, DataState, At, Writing
<1>8. OutsideKept'
  BY <1>1, <1>3, <1>4 DEF MiscInv, OutsideKept, At
<1> QED
  BY <1>1, <1>5, <1>6, <1>7, <1>8 DEF MiscInv, Step, ReaderMoves

\* The whole partition is asked for.
LEMMA ReadAllKeeps ==
    ASSUME LibInv, MiscInv, ReadAll
    PROVE  Step /\ MiscInv'
<1>1. /\ At("opened") /\ ReadData(Size) /\ UNCHANGED <<before, known, cut>>
      /\ UNCHANGED <<device, content, taken, writer, closed>>
      /\ reader' = [reader EXCEPT !.at = "read_data", !.want = Size] /\ tool \in Tool
      /\ reader = [NoReader EXCEPT !.at = "open"]
  BY DEF ReadAll, ReadData, ReaderStep, MiscInv, MiscTypeOk, CallState
<1>2. tool' = Continued(tool, "reading", tool.data, tool.ret)
  BY <1>1 DEF ReadAll, Tool, Continued
<1>3. tool' \in Tool /\ tool'.pc = "reading" /\ tool'.op = tool.op /\ tool'.range = tool.range
  <2>1. tool.data \in Seq(Unit) /\ tool.ret \in {0, -1}
    BY <1>1, ToolFields
  <2> QED
    BY <1>1, <1>2, <2>1 DEF Continued, Tool
<1>4. Partition' = Partition
  BY <1>1, PartitionFacts
<1>5. MiscTypeOk'
  BY <1>1, <1>3 DEF MiscInv, MiscTypeOk
<1>6. ReadsAll'
  <2>1. Size \in Nat /\ Len(<<>>) = 0
    BY PartitionFacts, UnitFacts
  <2>2. reader'.at = "read_data" /\ ~reader'.failed /\ reader'.got = <<>> /\ reader'.want = Size
    BY <1>1 DEF NoReader
  <2> QED
    BY <2>1, <2>2 DEF ReadsAll, Size
<1>7. CallState'
  BY <1>1, <1>3, <1>6 DEF MiscInv, CallState, At
<1>8. DataState'
  BY <1>1, <1>3, <1>4 DEF MiscInv, DataState, At, Writing
<1>9. OutsideKept'
  BY <1>1, <1>3, <1>4 DEF MiscInv, OutsideKept, At
<1>10. Size \in 1 .. MaxCall
  BY PartitionFacts, PagesAssumption, BoundAssumption
<1> QED
  BY <1>1, <1>5, <1>7, <1>8, <1>9, <1>10 DEF MiscInv, Step, ReaderMoves

\* The read is over, with all of the partition or with an error.
LEMMA ReadDone ==
    ASSUME LibInv, MiscInv, At("reading"), ReadClose
    PROVE  /\ UNCHANGED <<device, content, taken, writer, closed>> /\ reader' = NoReader
           /\ Partition' = Partition /\ writer = NoWriter /\ reader.got \in Seq(Unit) /\ tool \in Tool
           /\ ~reader.failed => /\ reader.got = Partition /\ reader.got \in [1 .. Size -> Unit]
                                /\ device.bad = {}
           /\ Step
<1>1. UNCHANGED <<device, content, taken, writer, closed>> /\ reader' = NoReader /\ reader.at = "open"
  BY DEF ReadClose, ReaderStep
<1>2. ReadsAll /\ writer = NoWriter /\ tool \in Tool
  BY DEF MiscInv, MiscTypeOk, CallState, At
<1>3. reader.got \in Seq(Unit)
  BY ReaderFields DEF LibInv, BaseInv, TypeOk
<1> QED
  BY <1>1, <1>2, <1>3, WholeRead, PartitionFacts DEF Step, ReaderMoves

\* It ends the call, unless a write follows a read that got everything.
LEMMA ReadEndsKeeps ==
    ASSUME LibInv, MiscInv, ReadEnds
    PROVE  Step /\ MiscInv'
<1>1. At("reading") /\ ReadClose /\ UNCHANGED <<before, known, cut>>
  BY DEF ReadEnds
<1>2. /\ UNCHANGED <<device, content, taken, writer, closed>> /\ reader' = NoReader
      /\ Partition' = Partition /\ writer = NoWriter /\ reader.got \in Seq(Unit) /\ tool \in Tool
      /\ ~reader.failed => reader.got = Partition
      /\ Step
  BY <1>1, ReadDone
<1>3. PICK ret \in {0, -1} : ret = (IF reader.failed THEN -1 ELSE 0)
  OBVIOUS
<1>4. tool' = Fresh("idle", tool.op, NoRange, reader.got, ret)
  BY <1>3 DEF ReadEnds, Return, NoTool, Fresh
<1>5. tool' \in Tool /\ tool'.pc = "idle" /\ tool'.op = tool.op /\ tool'.data = reader.got /\ tool'.ret = ret
  <2>1. tool.op \in {"read", "write"}
    BY <1>2, ToolFields
  <2> QED
    BY <1>2, <1>4, <2>1 DEF Fresh, Tool
<1>6. MiscTypeOk'
  BY <1>1, <1>5 DEF MiscInv, MiscTypeOk
<1>7. CallState'
  BY <1>2, <1>5 DEF CallState, At
<1>8. DataState'
  BY <1>1, <1>2, <1>3, <1>5 DEF MiscInv, DataState, At, Writing
<1>9. OutsideKept'
  BY <1>1, <1>2, <1>5 DEF MiscInv, OutsideKept, At
<1> QED
  BY <1>2, <1>6, <1>7, <1>8, <1>9 DEF MiscInv

\* writeMisc_mtd has its copy of the partition.
LEMMA ReadForWriteKeeps ==
    ASSUME LibInv, MiscInv, ReadForWrite
    PROVE  Step /\ MiscInv'
<1>1. At("reading") /\ ReadClose /\ UNCHANGED <<before, known, cut>> /\ ~reader.failed /\ tool.op = "write"
  BY DEF ReadForWrite
<1>2. /\ UNCHANGED <<device, content, taken, writer, closed>> /\ reader' = NoReader
      /\ Partition' = Partition /\ writer = NoWriter /\ reader.got \in Seq(Unit) /\ tool \in Tool
      /\ reader.got = Partition /\ reader.got \in [1 .. Size -> Unit] /\ device.bad = {}
      /\ Step
  BY <1>1, ReadDone
<1>3. tool' = Continued(tool, "write", reader.got, tool.ret)
  BY <1>2 DEF ReadForWrite, Tool, Continued
<1>4. /\ tool' \in Tool /\ tool'.pc = "write" /\ tool'.op = "write" /\ tool'.data = reader.got
      /\ tool'.range = tool.range
  <2>1. tool.ret \in {0, -1}
    BY <1>2, ToolFields
  <2> QED
    BY <1>1, <1>2, <1>3, <2>1 DEF Continued, Tool
<1>5. MiscTypeOk'
  BY <1>1, <1>4 DEF MiscInv, MiscTypeOk
<1>6. CallState'
  BY <1>2, <1>4 DEF CallState, At
<1>7. DataState'
  <2>1. [1 .. Size -> Unit]' = [1 .. Size -> Unit]
    BY DEF Size
  <2> QED
    BY <1>1, <1>2, <1>4, <2>1 DEF MiscInv, DataState, At, Writing
<1>8. OutsideKept'
  BY <1>1, <1>2, <1>4 DEF MiscInv, OutsideKept, At
<1> QED
  BY <1>2, <1>5, <1>6, <1>7, <1>8 DEF MiscInv

\* The partition is opened for writing, and what it holds is remembered.
LEMMA BeginWriteKeeps ==
    ASSUME LibInv, MiscInv, BeginWrite
    PROVE  Step /\ MiscInv'
<1>1. /\ At("write") /\ OpenWrite /\ before' = [data |-> tool.data, range |-> tool.range]
      /\ known' = <<>> /\ ~cut' /\ tool \in Tool /\ device \in Device
  BY DEF BeginWrite, MiscInv, MiscTypeOk, LibInv, BaseInv, TypeOk
<1>2. /\ UNCHANGED <<device, content, taken, reader>> /\ writer' = [NoWriter EXCEPT !.at = "open"]
      /\ taken < MaxUnits
  BY <1>1 DEF OpenWrite, WriterStep
<1>3. /\ tool.data \in [1 .. Size -> Unit] /\ tool.data = Partition /\ tool.op = "write"
      /\ tool.range \in Ranges /\ device.bad = {} /\ reader = NoReader
  BY <1>1 DEF MiscInv, DataState, CallState, At, Writing
<1>4. tool' = Continued(tool, "patch", tool.data, tool.ret)
  BY <1>1 DEF BeginWrite, Tool, Continued
<1>5. /\ tool' \in Tool /\ tool'.pc = "patch" /\ tool'.op = "write" /\ tool'.data = tool.data
      /\ tool'.range = tool.range
  BY <1>1, <1>3, <1>4 DEF Continued, Tool
<1>6. Partition' = Partition /\ [1 .. Size -> Unit]' = [1 .. Size -> Unit]
  BY <1>2, PartitionFacts DEF Size
<1>7. MiscTypeOk'
  <2>1. cut' = FALSE /\ known' \in Seq(Unit)
    BY <1>1, UnitFacts DEF BeginWrite
  <2>2. before' \in [data : [1 .. Size -> Unit], range : Ranges]
    BY <1>1, <1>3
  <2> QED
    BY <1>1, <1>5, <1>6, <2>1, <2>2 DEF MiscTypeOk
<1>8. CallState'
  BY <1>2, <1>3, <1>5 DEF CallState, At
<1>9. DataState'
  BY <1>1, <1>2, <1>3, <1>5, <1>6 DEF MiscInv, DataState, At, Writing
<1>10. OutsideKept'
  <2>1. 0 \in Block /\ before'.data = Partition
    BY <1>1, <1>3, UnitFacts DEF Block
  <2>2. \A i : before'.data[i] = Partition'[i]
    BY <1>6, <2>1
  <2> QED
    BY <1>1, <1>5, <2>1, <2>2 DEF OutsideKept, At
<1>11. Step
  <2>1. WriterMoves
    BY <1>1 DEF WriterMoves
  <2> QED
    BY <1>1, <2>1, HealFacts DEF Step
<1> QED
  BY <1>7, <1>8, <1>9, <1>10, <1>11 DEF MiscInv

\* The caller's range is put into the copy, and all of it is handed over.
LEMMA WriteAllKeeps ==
    ASSUME LibInv, MiscInv, WriteAll
    PROVE  Step /\ MiscInv'
<1>1. /\ At("patch") /\ HandOver(Patched) /\ taken' = taken + 1
      /\ UNCHANGED <<before, known, cut>> /\ tool \in Tool /\ device \in Device
      /\ taken \in 0 .. MaxUnits /\ MaxUnits \in Nat /\ writer \in Writer
  BY BoundAssumption DEF WriteAll, MiscInv, MiscTypeOk, LibInv, BaseInv, TypeOk
<1>2. /\ writer = [NoWriter EXCEPT !.at = "open"] /\ taken < MaxUnits /\ reader = NoReader
      /\ tool.data \in [1 .. Size -> Unit] /\ tool.data = Partition /\ tool.op = "write"
      /\ before.data = tool.data /\ before.range = tool.range /\ device.bad = {} /\ known = <<>>
  BY <1>1 DEF MiscInv, DataState, CallState, At, Writing
<1>3. taken + 1 \in 0 .. MaxUnits /\ taken + 1 \in Unit
  <2>1. taken + 1 \in 1 .. MaxUnits
    BY <1>1, <1>2
  <2> QED
    BY <1>1, <2>1, UnitFacts
<1>4. PICK data \in [1 .. Size -> Unit] :
          /\ data = Patched /\ data \in Seq(Unit) /\ Len(data) = Size
          /\ \A i \in Outside(before.range) : data[i] = before.data[i]
  <2>1. Patched \in [1 .. Size -> Unit]
    BY <1>2, <1>3 DEF Patched
  <2>2. Patched \in Seq(Unit) /\ Len(Patched) = Size
    BY <2>1, BlockSeq, PartitionFacts
  <2>3. ASSUME NEW i \in Outside(before.range) PROVE Patched[i] = before.data[i]
    <3>1. i \in 1 .. Size /\ (i < tool.range.first \/ tool.range.last < i)
      BY <1>2, <2>3 DEF Outside
    <3>2. tool.range.first \in Int /\ tool.range.last \in Int /\ i \in Int
      <4>1. tool.range \in Ranges
        BY <1>1, <1>2 DEF MiscInv, DataState, At
      <4> QED
        BY <3>1, <4>1, RangeAssumption, PartitionFacts
    <3>3. ~(tool.range.first <= i /\ i <= tool.range.last)
      BY <3>1, <3>2
    <3> QED
      BY <1>2, <3>1, <3>3 DEF Patched
  <2> QED
    BY <2>1, <2>2, <2>3
<1>5. /\ UNCHANGED <<device, content, reader, closed>>
      /\ writer' = [writer EXCEPT !.at = "write_data", !.rest = data, !.stream = writer.stream \o data]
  BY <1>1, <1>4 DEF HandOver, WriterStep
<1>6. /\ writer'.at = "write_data" /\ writer'.stored = <<>> /\ writer'.stream = data /\ ~writer'.closing
      /\ writer'.placed = <<>> /\ writer'.fd = 0
  <2>1. /\ writer'.at = "write_data" /\ writer'.stored = writer.stored /\ writer'.stream = writer.stream \o data
        /\ writer'.closing = writer.closing /\ writer'.placed = writer.placed /\ writer'.fd = writer.fd
    BY <1>1, <1>5 DEF Writer
  <2>2. <<>> \o data = data
    BY <1>4, ConcatEmptySeq
  <2> QED
    BY <1>2, <2>1, <2>2 DEF NoWriter
<1>7. tool' = Continued(tool, "writing", data, tool.ret)
  BY <1>1, <1>4 DEF WriteAll, Tool, Continued
<1>8. /\ tool' \in Tool /\ tool'.pc = "writing" /\ tool'.op = "write" /\ tool'.data = data
      /\ tool'.range = tool.range
  BY <1>1, <1>2, <1>4, <1>7 DEF Continued, Tool
<1>9. Partition' = Partition /\ [1 .. Size -> Unit]' = [1 .. Size -> Unit]
  BY <1>5, PartitionFacts DEF Size
<1>10. MiscTypeOk'
  BY <1>1, <1>8, <1>9 DEF MiscInv, MiscTypeOk
<1>11. CallState'
  BY <1>2, <1>5, <1>6, <1>8 DEF CallState, At, WritesAll
<1>12. DataState'
  BY <1>1, <1>2, <1>4, <1>5, <1>8, <1>9 DEF MiscInv, DataState, At, Writing, Outside
<1>13. OutsideKept'
  <2>1. Len(writer'.placed) = Position'
    BY <1>6, UnitFacts DEF Position
  <2> QED
    BY <1>1, <1>5, <1>8, <1>9, <2>1 DEF MiscInv, OutsideKept, At
<1>14. Step
  <2>1. Hands
    BY <1>1, <1>3, <1>4 DEF Hands
  <2> QED
    BY <1>1, <2>1, HealFacts DEF Step, WriterMoves
<1> QED
  BY <1>10, <1>11, <1>12, <1>13, <1>14 DEF MiscInv

\* mtd_write_close is called.
LEMMA WriteEndsKeeps ==
    ASSUME LibInv, MiscInv, WriteEnds
    PROVE  Step /\ MiscInv'
<1>1. /\ At("writing") /\ WriteClose /\ UNCHANGED <<before, known, cut>> /\ tool \in Tool
      /\ device \in Device /\ writer \in Writer
  BY DEF WriteEnds, MiscInv, MiscTypeOk, LibInv, BaseInv, TypeOk
<1>2. /\ UNCHANGED <<device, content, taken, reader, closed>>
      /\ writer' = [writer EXCEPT !.at = "erase_blocks", !.blocks = 0, !.closing = TRUE]
  BY <1>1 DEF WriteClose, WriterStep
<1>3. WritesAll /\ reader = NoReader /\ known = <<>> /\ tool.op = "write"
  BY <1>1 DEF MiscInv, CallState, DataState, At, Writing
<1>4. /\ writer'.at = "erase_blocks" /\ writer'.closing /\ writer'.blocks = 0
      /\ writer'.stored = writer.stored /\ writer'.stream = writer.stream
  BY <1>1, <1>2 DEF Writer
<1>5. PICK ret \in {0, -1} : ret = (IF writer.failed THEN -1 ELSE 0)
  OBVIOUS
<1>6. tool' = Continued(tool, "closing", tool.data, ret)
  BY <1>1, <1>5 DEF WriteEnds, Tool, Continued
<1>7. /\ tool' \in Tool /\ tool'.pc = "closing" /\ tool'.op = "write" /\ tool'.data = tool.data
      /\ tool'.range = tool.range
  BY <1>1, <1>3, <1>6 DEF Continued, Tool
<1>8. Partition' = Partition /\ [1 .. Size -> Unit]' = [1 .. Size -> Unit]
  BY <1>2, PartitionFacts DEF Size
<1>9. MiscTypeOk'
  BY <1>1, <1>7, <1>8 DEF MiscInv, MiscTypeOk
<1>10. ~closed'.valid
  <2>1. writer.at # "closed"
    BY <1>1 DEF WriteClose, WriterStep
  <2> QED
    BY <1>2, <2>1 DEF LibInv, ClosedKept
<1>11. CallState'
  BY <1>2, <1>3, <1>4, <1>7, <1>10 DEF CallState, At, WritesAll
<1>12. DataState'
  BY <1>1, <1>2, <1>3, <1>7, <1>8 DEF MiscInv, DataState, At, Writing
<1>13. OutsideKept'
  BY <1>1, <1>2, <1>7, <1>8 DEF MiscInv, OutsideKept, At
<1>14. Step
  <2>1. WriterMoves
    BY <1>1 DEF WriterMoves
  <2> QED
    BY <1>1, <2>1, HealFacts DEF Step
<1> QED
  BY <1>9, <1>11, <1>12, <1>13, <1>14 DEF MiscInv

\* The call returns 0 only when its copy is what the partition holds.
LEMMA FinishKeeps ==
    ASSUME LibInv, MiscInv, Finish
    PROVE  Step /\ MiscInv'
<1>1. /\ At("closing") /\ writer.at = "closed" /\ UNCHANGED vars /\ UNCHANGED <<before, cut>>
      /\ tool \in Tool
  BY DEF Finish, MiscInv, MiscTypeOk
<1>2. /\ writer = NoWriter /\ reader = NoReader /\ tool.data \in [1 .. Size -> Unit]
      /\ closed.valid => closed.stream = tool.data
  BY <1>1, NoWriterFacts DEF MiscInv, CallState, DataState, At, Writing, LibInv, BaseInv, OneContext
<1>3. tool.data \in Seq(Unit) /\ Len(tool.data) = Size
  BY <1>2, BlockSeq, PartitionFacts
<1>4. PICK ret \in {0, -1} : /\ ret = (IF tool.ret = 0 /\ closed.valid THEN 0 ELSE -1)
                             /\ tool' = Fresh("idle", "write", NoRange, <<>>, ret)
                             /\ known' = IF ret = 0 THEN tool.data ELSE <<>>
  <2> DEFINE r == IF tool.ret = 0 /\ closed.valid THEN 0 ELSE -1
  <2>1. tool' = Fresh("idle", "write", NoRange, <<>>, r) /\ known' = IF r = 0 THEN tool.data ELSE <<>>
    BY DEF Finish, NoTool, Fresh
  <2>2. r \in {0, -1}
    OBVIOUS
  <2> QED
    BY <2>1, <2>2
<1>5. tool' \in Tool /\ tool'.pc = "idle" /\ tool'.op = "write"
  <2>1. <<>> \in Seq(Unit)
    BY UnitFacts
  <2> QED
    BY <1>4, <2>1 DEF Fresh, Tool
<1>6. known' = <<>> \/ (known' = tool.data /\ known' = Partition)
  <2>1. ASSUME ret = 0 PROVE tool.data = Partition
    BY <1>2, <1>3, <1>4, <2>1, WholeWritten
  <2> QED
    BY <1>4, <2>1
<1>7. /\ Partition' = Partition /\ UNCHANGED <<device, content, taken, writer, reader, closed>>
      /\ Size' = Size /\ [1 .. Size -> Unit]' = [1 .. Size -> Unit]
  BY <1>1, PartitionFacts DEF vars, Size
<1>8. MiscTypeOk'
  BY <1>1, <1>3, <1>5, <1>6, <1>7, UnitFacts DEF MiscInv, MiscTypeOk
<1>9. CallState'
  BY <1>2, <1>5, <1>7 DEF CallState, At
<1>10. DataState'
  BY <1>1, <1>5, <1>6, <1>7 DEF MiscInv, DataState, At, Writing
<1>11. OutsideKept'
  BY <1>1, <1>5, <1>7 DEF MiscInv, OutsideKept, At
<1> QED
  BY <1>1, <1>8, <1>9, <1>10, <1>11 DEF MiscInv, Step

\* Contexts that a step has closed are in order.
LEMMA ClosedAfter ==
    (writer' = NoWriter /\ reader' = NoReader /\ closed' = NoStream) =>
        /\ OneContext' /\ WriterShape' /\ FullInv' /\ WrittenInOrder' /\ ReaderInv' /\ ListInOrder'
        /\ ClosedKept' /\ ReadInOrder'
<1> DEFINE Closed == writer = NoWriter /\ reader = NoReader /\ closed = NoStream
           Sound == /\ OneContext /\ WriterShape /\ FullInv /\ WrittenInOrder /\ ReaderInv /\ ListInOrder
                    /\ ClosedKept /\ ReadInOrder
<1>1. Closed => Sound
  BY ClosedInOrder
<1> HIDE DEF Closed, Sound
<1>2. Closed' => Sound'
  BY <1>1, PTL
<1> QED
  BY <1>2 DEF Closed, Sound, NoWriter, NoReader, NoStream

\* A power cut closes both contexts; at most the block that was being written is lost.
LEMMA PowerCutKeeps ==
    ASSUME LibInv, MiscInv, PowerCut
    PROVE  LibInv' /\ MiscInv'
<1>1. /\ writer' = NoWriter /\ reader' = NoReader /\ closed' = NoStream /\ tool' = NoTool /\ cut' = TRUE
      /\ UNCHANGED <<device, taken, before, known>> /\ ~At("idle")
  BY DEF PowerCut
<1>2. /\ content \in [Block -> [1 .. E -> Unit]] /\ TypeOk /\ Fits(writer)
  BY DEF LibInv, BaseInv, TypeOk, WriterShape, Fits, Shape
<1>3. \/ content' = content
      \/ /\ writer.at = "write_block" /\ writer.pos \in Block
         /\ content' \in [Block -> [1 .. E -> Unit]]
         /\ \A b \in Block : b # writer.pos => content'[b] = content[b]
  <2>1. CASE writer.at = "write_block" /\ writer.pos \in Block \ device.bad
    <3>1. PICK u \in {content[writer.pos], Fill(Erased), Fill(Torn), BlockData(writer)} :
            content' = [content EXCEPT ![writer.pos] = u]
      BY <2>1 DEF PowerCut
    <3>2. u \in [1 .. E -> Unit]
      <4>1. /\ content[writer.pos] \in [1 .. E -> Unit] /\ BlockData(writer) \in [1 .. E -> Unit]
            /\ Fill(Erased) \in [1 .. E -> Unit] /\ Fill(Torn) \in [1 .. E -> Unit]
        <5>1. \A v \in Unit : Fill(v) \in [1 .. E -> Unit]
          BY UnitFacts
        <5>2. Erased \in Unit /\ Torn \in Unit
          BY UnitFacts
        <5>3. BlockData(writer) \in [1 .. E -> Unit]
          BY <1>2, <2>1, BlockFacts
        <5> QED
          BY <1>2, <2>1, <5>1, <5>2, <5>3
      <4> QED
        BY <3>1, <4>1
    <3> QED
      BY <1>2, <2>1, <3>1, <3>2
  <2>2. CASE ~(writer.at = "write_block" /\ writer.pos \in Block \ device.bad)
    BY <2>2 DEF PowerCut
  <2> QED
    BY <2>1, <2>2
<1>4. content' \in [Block -> [1 .. E -> Unit]]
  BY <1>2, <1>3
<1>5. TypeOk'
  BY <1>1, <1>2, <1>4, ClosedTyped DEF TypeOk
<1>6. LibInv'
  <2>1. /\ OneContext' /\ WriterShape' /\ FullInv' /\ WrittenInOrder' /\ ReaderInv' /\ ListInOrder'
        /\ ClosedKept' /\ ReadInOrder'
    BY <1>1, ClosedAfter
  <2> QED
    BY <1>5, <2>1 DEF LibInv, BaseInv
<1>7. tool' = Fresh("idle", "read", NoRange, <<>>, 0)
  BY <1>1 DEF NoTool, Fresh
<1>8. tool' \in Tool /\ tool'.pc = "idle" /\ tool'.op = "read" /\ tool'.data = <<>>
  <2>1. <<>> \in Seq(Unit)
    BY UnitFacts
  <2> QED
    BY <1>7, <2>1 DEF Fresh, Tool
<1>9. writer.at = "write_block" => At("writing")
  <2>1. tool.pc \in {"idle", "opened", "reading", "write", "patch", "writing", "closing"}
    BY ToolFields DEF MiscInv, MiscTypeOk
  <2> QED
    BY <2>1, NoWriterFacts DEF MiscInv, CallState, At
<1>10. known # <<>> => content' = content
  BY <1>3, <1>9 DEF MiscInv, DataState, At
<1>11. MiscTypeOk'
  BY <1>1, <1>8 DEF MiscInv, MiscTypeOk, Size
<1>12. CallState'
  BY <1>1, <1>8 DEF CallState, At
<1>13. DataState'
  BY <1>1, <1>8, <1>10, PartitionFacts DEF MiscInv, DataState, At, Writing
<1>14. OutsideKept'
  <2> SUFFICES ASSUME device.weak = {}
               PROVE  \E b \in Block : \A i \in Outside(before.range) :
                        BlockOf(i) # b => Partition'[i] = before.data[i]
    BY <1>1, <1>8 DEF OutsideKept, At, Outside, Size, BlockOf
  <2>1. PICK b \in Block : \A i \in Outside(before.range) :
                             (~cut \/ BlockOf(i) # b) => Partition[i] = before.data[i]
    BY DEF MiscInv, OutsideKept
  <2>2. CASE content' = content
    BY <2>1, <2>2, PartitionFacts
  <2>3. CASE content' # content
    <3>1. /\ writer.at = "write_block" /\ writer.pos \in Block
          /\ \A c \in Block : c # writer.pos => content'[c] = content[c]
      BY <1>3, <2>3
    <3>2. ~cut
      BY <1>9, <3>1 DEF MiscInv, OutsideKept, At
    <3>3. ASSUME NEW i \in Outside(before.range), BlockOf(i) # writer.pos
          PROVE  Partition'[i] = before.data[i]
      <4>1. i \in 1 .. Size /\ Partition[i] = before.data[i]
        BY <2>1, <3>2 DEF Outside
      <4>2. PICK k \in 1 .. N, u \in 1 .. E : i = E * (k - 1) + u /\ BlockOf(i) = k - 1
        BY <4>1, HeldFacts
      <4>3. /\ Held(content)[E * (k - 1) + u] = content[k - 1][u] /\ k - 1 \in Block
            /\ Held(content')[E * (k - 1) + u] = content'[k - 1][u]
        BY HeldFacts
      <4>4. content'[k - 1] = content[k - 1]
        BY <3>1, <3>3, <4>2, <4>3
      <4> QED
        BY <4>1, <4>2, <4>3, <4>4, PartitionFacts, Zenon
    <3> QED
      BY <3>1, <3>3
  <2> QED
    BY <2>2, <2>3
<1> QED
  BY <1>6, <1>11, <1>12, <1>13, <1>14 DEF MiscInv

\* Whatever the tool, the library and the power do, the partition and the tool's copy
\* of it stay related as readMisc_mtd and writeMisc_mtd need it.
THEOREM MiscInductive == MiscSpec => [](LibInv /\ MiscInv)
<1>1. MiscInit => LibInv /\ MiscInv
  <2> SUFFICES ASSUME MiscInit PROVE LibInv /\ MiscInv
    OBVIOUS
  <2>1. /\ device \in Device /\ device.query /\ content = [b \in Block |-> Fill(1)] /\ taken = 1
        /\ writer = NoWriter /\ reader = NoReader /\ closed = NoStream /\ tool = NoTool /\ cut = FALSE
        /\ known = [i \in 1 .. Size |-> 1] /\ before \in [data : {known}, range : Ranges]
    BY DEF MiscInit
  <2>2. 1 \in Unit /\ 1 \in 0 .. MaxUnits /\ Fill(1) \in [1 .. E -> Unit]
    <3>1. 1 \in 1 .. MaxUnits
      BY UnitAssumption, BoundAssumption
    <3> QED
      BY <3>1, UnitFacts, BoundAssumption
  <2>3. TypeOk
    BY <2>1, <2>2, ClosedTyped DEF TypeOk
  <2>4. LibInv
    BY <2>1, <2>3, ClosedInOrder DEF LibInv, BaseInv
  <2>5. known \in [1 .. Size -> Unit] /\ known \in Seq(Unit) /\ Len(known) = Size
    <3>1. known \in [1 .. Size -> Unit]
      BY <2>1, <2>2
    <3> QED
      BY <3>1, BlockSeq, PartitionFacts
  <2>6. known = Partition
    <3>1. \A i \in 1 .. Size : Partition[i] = 1
      <4> TAKE i \in 1 .. Size
      <4>1. PICK k \in 1 .. N, u \in 1 .. E : i = E * (k - 1) + u
        BY HeldFacts
      <4>2. Held(content)[E * (k - 1) + u] = content[k - 1][u] /\ k - 1 \in Block
        BY HeldFacts
      <4>3. content[k - 1][u] = 1
        BY <2>1, <4>2 DEF Fill
      <4> QED
        BY <4>1, <4>2, <4>3, PartitionFacts, Zenon
    <3>2. Partition = [i \in 1 .. Size |-> Partition[i]]
      BY DEF Partition
    <3> QED
      BY <2>1, <3>1, <3>2
  <2>7. tool = Fresh("idle", "read", NoRange, <<>>, 0)
    BY <2>1 DEF NoTool, Fresh
  <2>8. tool \in Tool /\ tool.pc = "idle" /\ tool.op = "read" /\ tool.data = <<>>
    <3>1. <<>> \in Seq(Unit)
      BY UnitFacts
    <3> QED
      BY <2>7, <3>1 DEF Fresh, Tool
  <2>9. before \in [data : [1 .. Size -> Unit], range : Ranges] /\ before.data = known
    BY <2>1, <2>5
  <2>10. MiscTypeOk
    BY <2>1, <2>5, <2>8, <2>9 DEF MiscTypeOk
  <2>11. CallState
    BY <2>1, <2>8 DEF CallState, At
  <2>12. DataState
    BY <2>1, <2>6, <2>8 DEF DataState, At, Writing
  <2>13. OutsideKept
    <3>1. 0 \in Block
      BY UnitFacts DEF Block
    <3> QED
      BY <2>1, <2>6, <2>8, <2>9, <3>1 DEF OutsideKept, At
  <2> QED
    BY <2>4, <2>10, <2>11, <2>12, <2>13 DEF MiscInv
<1>2. LibInv /\ MiscInv /\ [MiscNext]_allVars => (LibInv /\ MiscInv)'
  <2> SUFFICES ASSUME LibInv, MiscInv, [MiscNext]_allVars PROVE LibInv' /\ MiscInv'
    OBVIOUS
  <2>1. CASE PowerCut
    BY <2>1, PowerCutKeeps
  <2>2. CASE UNCHANGED allVars
    <3>1. UNCHANGED vars /\ UNCHANGED <<device, content, taken, writer, reader, closed, tool, before, known, cut>>
      BY <2>2 DEF allVars, vars
    <3>2. LibInv'
      BY <3>1, StepKeepsLib DEF Step
    <3>3. MiscInv'
      BY <3>1 DEF MiscInv, MiscTypeOk, CallState, DataState, OutsideKept, ReadsAll, WritesAll, At,
                  Writing, Partition, Outside, Position
    <3> QED
      BY <3>2, <3>3
  <2>3. CASE Library \/ ToolSteps \/ Begin("read", NoRange) \/ \E r \in Ranges : Begin("write", r)
    <3>1. ASSUME Library PROVE Step /\ MiscInv'
      BY <3>1, ReadingGoesOn, WritingGoesOn DEF Library
    <3>2. ASSUME ToolSteps PROVE Step /\ MiscInv'
      BY <3>2, ReadAllKeeps, ReadEndsKeeps, ReadForWriteKeeps, BeginWriteKeeps, WriteAllKeeps,
         WriteEndsKeeps, FinishKeeps DEF ToolSteps
    <3>3. ASSUME Begin("read", NoRange) PROVE Step /\ MiscInv'
      BY <3>3, BeginKeeps
    <3>4. ASSUME NEW r \in Ranges, Begin("write", r) PROVE Step /\ MiscInv'
      BY <3>4, BeginKeeps
    <3> QED
      BY <2>3, <3>1, <3>2, <3>3, <3>4, StepKeepsLib
  <2> QED
    BY <2>1, <2>2, <2>3 DEF MiscNext
<1> QED
  BY <1>1, <1>2, PTL DEF MiscSpec

\* Every state of the tool and of its library is well typed.
THEOREM MiscTypeCorrect == MiscSpec => [](TypeOk /\ MiscTypeOk)
<1>1. LibInv /\ MiscInv => TypeOk /\ MiscTypeOk
  BY DEF LibInv, BaseInv, MiscInv
<1> QED
  BY <1>1, MiscInductive, PTL

\* What readMisc_mtd returns with 0 after writeMisc_mtd has returned 0 is what was
\* written and, around it, what was there.
THEOREM MiscReadsBack == MiscSpec => []ReadsWhatWasWritten
<1>1. LibInv /\ MiscInv => ReadsWhatWasWritten
  BY DEF MiscInv, DataState, ReadsWhatWasWritten
<1> QED
  BY <1>1, MiscInductive, PTL

\* writeMisc_mtd changes nothing outside of its range on flash without weak blocks, but
\* for one block that a power cut can destroy.
THEOREM MiscKeepsOthers == MiscSpec => []OthersKept
<1>1. LibInv /\ MiscInv => OthersKept
  <2> SUFFICES ASSUME LibInv, MiscInv, device.weak = {}
               PROVE  Cardinality({BlockOf(i) : i \in {j \in Outside(before.range) :
                                                         Partition[j] # before.data[j]}})
                        <= IF cut THEN 1 ELSE 0
    BY DEF OthersKept
  <2> DEFINE Lost == {BlockOf(i) : i \in {j \in Outside(before.range) : Partition[j] # before.data[j]}}
  <2>1. PICK b \in Block : \A i \in Outside(before.range) :
                             (~cut \/ BlockOf(i) # b) => Partition[i] = before.data[i]
    BY DEF MiscInv, OutsideKept
  <2>2. cut \in BOOLEAN
    BY DEF MiscInv, MiscTypeOk
  <2>3. CASE ~cut
    <3>1. Lost = {}
      BY <2>1, <2>3
    <3> HIDE DEF Lost
    <3>2. Cardinality(Lost) = 0
      BY <3>1, FS_EmptySet
    <3> QED
      BY <2>3, <3>2 DEF Lost
  <2>4. CASE cut
    <3>1. Lost \subseteq {b}
      BY <2>1
    <3> HIDE DEF Lost
    <3>2. Lost = {} \/ Lost = {b}
      BY <3>1
    <3>3. Cardinality(Lost) = 0 \/ Cardinality(Lost) = 1
      BY <3>2, FS_EmptySet, FS_Singleton
    <3>4. Cardinality(Lost) <= 1
      BY <3>3
    <3> QED
      BY <2>4, <3>4 DEF Lost
  <2> QED
    BY <2>2, <2>3, <2>4
<1> QED
  BY <1>1, MiscInductive, PTL

=============================================================================
