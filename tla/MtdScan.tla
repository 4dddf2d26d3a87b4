------------------------------- MODULE MtdScan -------------------------------
(***************************************************************************)
(* The table of MTD partitions of flash/src/mtd_flash.c: how it is filled  *)
(* from /proc/mtd, how a partition is found in it by name, and how         *)
(* readMisc_mtd and writeMisc_mtd of ota/src/bootloader.c use the two:     *)
(* scan, ignore the result of the scan, find.                              *)
(*                                                                         *)
(* /proc/mtd is listing, the name of the partition under each number.  It  *)
(* changes while nobody looks, when devices come and go.  A line of it is  *)
(* a pair of number and name; sizes are not used by any caller.            *)
(***************************************************************************)
EXTENDS Integers, Sequences, FiniteSets

CONSTANTS Names,
          CutTo,         \* CutTo[n]: what name n may be cut to at the end of the buffer
          Allocated,     \* entries of the table, 32 in the code
          BufferLines,   \* whole lines that fit in the 2047 bytes read
          Nothing        \* no name, no partition

ASSUME MtdScanAssumption ==
    /\ Nothing \notin Names /\ Nothing \notin Nat \X Names
    /\ CutTo \in [Names -> SUBSET Names]
    /\ Allocated \in Nat \ {0} /\ BufferLines \in Nat

\* Numbers of partitions; the code relies on there being no more than the table has.
Index == 0 .. Allocated - 1

Line == Index \X Names

VARIABLES
    listing,    \* /proc/mtd
    table,      \* partitions: <<>> until they are allocated
    count,      \* partition_count
    pc,         \* where mtd_scan_partitions is
    rest,       \* the lines of the buffer that are still to be read
    found,      \* the last answer of mtd_find_partition_by_name since the scan
    strings,    \* history: names that strdup allocated and nobody freed
    seen,       \* history: the lines of the last scan's read
    cutLine     \* history: the line that read ended in, or Nothing

vars == <<listing, table, count, pc, rest, found, strings, seen, cutLine>>

Entry == [device_index : Index \union {-1}, name : Names \union {Nothing}]
Unused == [device_index |-> -1, name |-> Nothing]
NoAnswer == [asked |-> Nothing, part |-> Nothing]

TypeOk ==
    /\ listing \in [Index -> Names \union {Nothing}]
    /\ table = <<>> \/ table \in [Index -> Entry]
    /\ count \in -1 .. Allocated
    /\ pc \in {"idle", "read", "parse"}
    /\ rest \in Seq(Line) /\ Len(rest) <= Allocated
    /\ found.asked \in Names \union {Nothing} /\ found.part \in Line \union {Nothing}
    /\ strings \in Nat
    /\ seen \subseteq Line
    /\ cutLine \in Line \union {Nothing}

Init ==
    /\ listing \in [Index -> Names \union {Nothing}]
    /\ table = <<>>
    /\ count = -1
    /\ pc = "idle" /\ rest = <<>>
    /\ found = NoAnswer
    /\ strings = 0
    /\ seen = {} /\ cutLine = Nothing

-----------------------------------------------------------------------------
(* mtd_scan_partitions *)

Named(t) == {i \in DOMAIN t : t[i].name # Nothing}

\* Mutated forms of ScanReset: only the entries that the last scan counted are
\* reset, and the names are forgotten without being freed.
ScanResetCounted ==
    /\ pc = "idle"
    /\ LET counted == {i \in Named(table) : i < count} IN
          /\ table' = [i \in Index |-> IF table # <<>> /\ i \notin counted
                                       THEN table[i] ELSE Unused]
          /\ strings' = strings - Cardinality(counted)
    /\ count' = 0
    /\ pc' = "read"
    /\ found' = NoAnswer /\ seen' = {} /\ cutLine' = Nothing
    /\ UNCHANGED <<listing, rest>>
ScanResetLeaks ==
    /\ pc = "idle"
    /\ table' = [i \in Index |-> Unused]
    /\ count' = 0
    /\ pc' = "read"
    /\ found' = NoAnswer /\ seen' = {} /\ cutLine' = Nothing
    /\ UNCHANGED <<listing, rest, strings>>

\* The table is allocated by the first scan, and emptied by every one.
ScanReset ==
    /\ pc = "idle"
    /\ table' = [i \in Index |-> Unused]
    /\ strings' = strings - Cardinality(Named(table))
    /\ count' = 0
    /\ pc' = "read"
    /\ found' = NoAnswer /\ seen' = {} /\ cutLine' = Nothing
    /\ UNCHANGED <<listing, rest>>

\* No memory for the table: -1, and nothing changes.
ScanAllocFails ==
    /\ pc = "idle"
    /\ table = <<>>
    /\ found' = NoAnswer
    /\ UNCHANGED <<listing, table, count, pc, rest, strings, seen, cutLine>>

\* /proc/mtd cannot be opened or read: the table stays empty.
ScanReadFails ==
    /\ pc = "read"
    /\ count' = -1
    /\ pc' = "idle"
    /\ UNCHANGED <<listing, table, rest, found, strings, seen, cutLine>>

\* The numbers of set S as /proc/mtd lists them: one sequence, in ascending order.
Ascending(S) ==
    {s \in [1 .. Cardinality(S) -> S] : \A j, k \in 1 .. Cardinality(S) : j < k => s[j] < s[k]}

\* One read.  The line at the end of the buffer is lost, or passes for a line
\* with a shorter name: sscanf does not ask for the closing quote.
ScanRead ==
    /\ pc = "read"
    /\ \E numbers \in Ascending({i \in Index : listing[i] # Nothing}) :
       LET lines == [k \in DOMAIN numbers |-> <<numbers[k], listing[numbers[k]]>>]
           whole == SubSeq(lines, 1, IF Len(lines) < BufferLines THEN Len(lines) ELSE BufferLines)
           cut == IF Len(lines) <= BufferLines THEN {}
                  ELSE {<<lines[BufferLines + 1][1], n>> : n \in CutTo[lines[BufferLines + 1][2]]}
       IN /\ seen' = {whole[k] : k \in DOMAIN whole}
          /\ \/ rest' = whole /\ cutLine' = Nothing
             \/ \E line \in cut : rest' = Append(whole, line) /\ cutLine' = line
    /\ pc' = "parse"
    /\ UNCHANGED <<listing, table, count, found, strings>>

ScanLine ==
    /\ pc = "parse"
    /\ rest # <<>>
    /\ LET mtdnum == Head(rest)[1] IN
          table' = [table EXCEPT ![mtdnum] = [device_index |-> mtdnum, name |-> Head(rest)[2]]]
    /\ strings' = strings + 1
    /\ count' = count + 1
    /\ rest' = Tail(rest)
    /\ UNCHANGED <<listing, pc, found, seen, cutLine>>

\* strdup fails: the entry has its number and no name, and the scan gives up.
ScanLineFails ==
    /\ pc = "parse"
    /\ rest # <<>>
    /\ table' = [table EXCEPT ![Head(rest)[1]].device_index = Head(rest)[1]]
    /\ count' = -1
    /\ rest' = <<>>
    /\ pc' = "idle"
    /\ UNCHANGED <<listing, found, strings, seen, cutLine>>

ScanReturns ==
    /\ pc = "parse"
    /\ rest = <<>>
    /\ pc' = "idle"
    /\ UNCHANGED <<listing, table, count, rest, found, strings, seen, cutLine>>

-----------------------------------------------------------------------------
(* mtd_find_partition_by_name *)

\* Entries that are looked at
Listed(t) == {i \in Named(t) : t[i].device_index >= 0}

\* Mutated form of Hits: the search stops at the first number that is not in use.
HitsBeforeGap(name) ==
    {i \in Listed(table) : table[i].name = name /\ \A j \in 0 .. i : j \in Listed(table)}

Hits(name) == {i \in Listed(table) : table[i].name = name}

\* The first entry with the name, whatever the scan before it returned
Find(name) ==
    /\ pc = "idle"
    /\ found' = [asked |-> name,
                 part |-> IF Hits(name) = {} THEN Nothing
                          ELSE LET i == CHOOSE i \in Hits(name) : \A j \in Hits(name) : i <= j
                               IN <<table[i].device_index, table[i].name>>]
    /\ UNCHANGED <<listing, table, count, pc, rest, strings, seen, cutLine>>

\* External: partitions come, go and change their numbers.
Relist ==
    /\ listing' \in [Index -> Names \union {Nothing}]
    /\ UNCHANGED <<table, count, pc, rest, found, strings, seen, cutLine>>

Next ==
    \/ ScanReset \/ ScanAllocFails \/ ScanReadFails \/ ScanRead
    \/ ScanLine \/ ScanLineFails \/ ScanReturns
    \/ \E name \in Names : Find(name)
    \/ Relist

Spec == Init /\ [][Next]_vars

-----------------------------------------------------------------------------
(* Properties *)

\* A partition that is found was in /proc/mtd when the last scan read it, under
\* that number and name, and no lower number had the name; after a scan that
\* failed to read nothing is found at all.  Callers ignore the result of the scan
\* (bootloader.c:215 and :261), so this is all that keeps them from a partition of
\* an earlier layout.  The line that the end of the buffer cut is excepted.
FoundIsCurrent ==
    found.part # Nothing /\ found.part # cutLine =>
        /\ found.part \in seen
        /\ \A line \in seen : line[2] = found.asked => found.part[1] <= line[1]

\* A partition that is not found, although the scan returned no error, was not in
\* the part of /proc/mtd that the buffer holds, with gaps in the numbers or not
\* (mtd_flash.c:171).
MissedIsAbsent ==
    (found.asked # Nothing /\ found.part = Nothing /\ count >= 0)
        => \A line \in seen : line[2] # found.asked

\* Over any number of scans, failing ones included, exactly the names in the
\* table are allocated, and a scan that did not fail returned their number
\* (mtd_flash.c:86-92, :137-144).
NamesAccounted ==
    /\ strings = Cardinality(Named(table))
    /\ pc = "idle" /\ count >= 0 => count = Cardinality(Named(table))

\* The inductive invariant behind the properties.  A named entry is under its own
\* number and comes from a line of the last read; the lines that are not stored
\* yet, or never were because strdup failed, have higher numbers.
Stored(line) == line[1] \in Named(table) /\ table[line[1]].name = line[2]

Filled ==
    /\ \A i \in Named(table) : /\ table[i].device_index = i
                              /\ <<i, table[i].name>> \in seen \union {cutLine}
    /\ \A line \in seen : Stored(line) \/ \A i \in Named(table) : i < line[1]
    /\ strings = Cardinality(Named(table))

\* How far the scan has come
Scanned ==
    /\ pc = "idle" /\ count >= 0 => \A line \in seen : Stored(line)
    /\ pc = "read" => table # <<>> /\ Named(table) = {} /\ seen = {}
    /\ pc = "parse" =>
          /\ table # <<>>
          /\ \A line \in seen : Stored(line) \/ \E k \in DOMAIN rest : rest[k] = line
          /\ \A k \in DOMAIN rest : rest[k] \in seen \union {cutLine}
          /\ \A k \in DOMAIN rest, i \in Named(table) : i < rest[k][1]
          /\ \A j, k \in DOMAIN rest : j < k => rest[j][1] < rest[k][1]
    /\ pc # "idle" \/ count >= 0 => count = Cardinality(Named(table))

\* An answer stands for what the table holds.
Answered ==
    /\ pc # "idle" => found = NoAnswer
    /\ found.part # Nothing => found.asked # Nothing
    /\ found.asked # Nothing =>
          IF found.part = Nothing
          THEN Hits(found.asked) = {}
          ELSE \E i \in Hits(found.asked) : /\ found.part = <<i, found.asked>>
                                            /\ \A j \in Hits(found.asked) : i <= j

ScanInv == Filled /\ Scanned /\ Answered
=============================================================================
