--------------------------- MODULE MtdScanProofs ---------------------------
(***************************************************************************)
(* Theorems about MtdScan, for tables and /proc/mtd of any size: types,    *)
(* that every name is freed once, and that a partition is found exactly    *)
(* when the last scan read it.                                             *)
(***************************************************************************)
EXTENDS MtdScan, FiniteSetTheorems, TLAPS

\* The table is finite.
LEMMA IndexFacts ==
    /\ Index \subseteq Nat /\ Line \subseteq Nat \X Names /\ Nothing \notin Line /\ 0 \in Index
    /\ IsFiniteSet(Index) /\ Cardinality(Index) = Allocated
<1>1. Allocated - 1 \in Int /\ 0 \in Int /\ ~(0 > Allocated - 1)
  BY MtdScanAssumption
<1>2. IsFiniteSet(Index) /\ Cardinality(Index) = Allocated
  BY <1>1, FS_Interval, MtdScanAssumption DEF Index
<1> QED
  BY <1>2, MtdScanAssumption DEF Index, Line

\* A function on 1 .. m is a sequence of length m.
LEMMA IsSequence ==
    ASSUME NEW T, NEW m \in Nat, NEW s \in [1 .. m -> T]
    PROVE  s \in Seq(T) /\ Len(s) = m
OBVIOUS

\* The first m elements of a sequence
LEMMA PrefixFacts ==
    ASSUME NEW T, NEW s \in Seq(T), NEW m \in 0 .. Len(s)
    PROVE  /\ SubSeq(s, 1, m) \in Seq(T) /\ Len(SubSeq(s, 1, m)) = m
           /\ DOMAIN SubSeq(s, 1, m) = 1 .. m
           /\ \A k \in 1 .. m : SubSeq(s, 1, m)[k] = s[k]
OBVIOUS

\* The entries with a name are entries of the table, so there are finitely many.
LEMMA NamedFacts ==
    ASSUME NEW t, t = <<>> \/ t \in [Index -> Entry]
    PROVE  /\ t = <<>> => Named(t) = {}
           /\ t # <<>> => /\ t \in [Index -> Entry]
                         /\ \A i : i \in Named(t) <=> i \in Index /\ t[i].name # Nothing
           /\ Named(t) \subseteq Index
           /\ IsFiniteSet(Named(t)) /\ Cardinality(Named(t)) \in 0 .. Allocated
<1>1. t = <<>> => Named(t) = {}
  BY DEF Named
<1>2. t # <<>> => /\ t \in [Index -> Entry]
                  /\ \A i : i \in Named(t) <=> i \in Index /\ t[i].name # Nothing
  BY DEF Named
<1>3. Named(t) \subseteq Index
  BY <1>1, <1>2
<1>4. IsFiniteSet(Named(t)) /\ Cardinality(Named(t)) <= Allocated
  BY <1>3, IndexFacts, FS_Subset
<1>5. Cardinality(Named(t)) \in Nat
  BY <1>4, FS_CardinalityType
<1> QED
  BY <1>1, <1>2, <1>3, <1>4, <1>5, MtdScanAssumption

\* Among numbers of partitions there is a lowest one.
LEMMA LowestFacts ==
    ASSUME NEW S, S \subseteq Index, S # {}
    PROVE  \E i \in S : \A j \in S : i <= j
<1> DEFINE R == OpToRel(<, Nat)
<1>1. IsWellFoundedOn(R, Nat)
  BY NatLessThanWellFounded
<1>2. S \subseteq Nat
  BY IndexFacts
<1>3. \A i, j \in Nat : <<j, i>> \in R <=> j < i
  BY DEF OpToRel
<1> HIDE DEF R
<1>4. PICK i \in S : \A j \in S : ~(<<j, i>> \in R)
  BY <1>1, <1>2, WFMin
<1>5. \A j \in S : ~(j < i) /\ j \in Nat /\ i \in Nat
  BY <1>2, <1>3, <1>4
<1>6. \A j \in S : i <= j
  BY <1>5
<1> QED
  BY <1>4, <1>6

-----------------------------------------------------------------------------
(* Types *)

\* What one read of /proc/mtd leaves to parse: lines in ascending order, those of
\* the buffer and possibly one that is cut.
LEMMA ReadFacts ==
    ASSUME TypeOk, ScanRead
    PROVE  /\ rest' \in Seq(Line) /\ Len(rest') <= Allocated
           /\ seen' \subseteq Line /\ cutLine' \in Line \union {Nothing}
           /\ \A line \in seen' : \E k \in DOMAIN rest' : rest'[k] = line
           /\ \A k \in DOMAIN rest' : rest'[k] \in seen' \union {cutLine'}
           /\ \A j, k \in DOMAIN rest' : j < k => rest'[j][1] < rest'[k][1]
<1> DEFINE present == {i \in Index : listing[i] # Nothing}
           n == Cardinality(present)
<1>1. PICK numbers \in Ascending(present) :
        LET lines == [k \in DOMAIN numbers |-> <<numbers[k], listing[numbers[k]]>>]
            whole == SubSeq(lines, 1, IF Len(lines) < BufferLines THEN Len(lines) ELSE BufferLines)
            cut == IF Len(lines) <= BufferLines THEN {}
                   ELSE {<<lines[BufferLines + 1][1], m>> : m \in CutTo[lines[BufferLines + 1][2]]}
        IN /\ seen' = {whole[k] : k \in DOMAIN whole}
           /\ \/ rest' = whole /\ cutLine' = Nothing
              \/ \E line \in cut : rest' = Append(whole, line) /\ cutLine' = line
  BY DEF ScanRead
<1>2. n \in Nat /\ n <= Allocated
  <2>1. IsFiniteSet(present) /\ n <= Allocated
    BY IndexFacts, FS_Subset
  <2> QED
    BY <2>1, FS_CardinalityType
<1>3. /\ numbers \in [1 .. n -> present]
      /\ \A j, k \in 1 .. n : j < k => numbers[j] < numbers[k]
  BY DEF Ascending
<1> DEFINE lines == [k \in DOMAIN numbers |-> <<numbers[k], listing[numbers[k]]>>]
           len == IF Len(lines) < BufferLines THEN Len(lines) ELSE BufferLines
           whole == SubSeq(lines, 1, len)
           cut == IF Len(lines) <= BufferLines THEN {}
                  ELSE {<<lines[BufferLines + 1][1], m>> : m \in CutTo[lines[BufferLines + 1][2]]}
<1>4. /\ lines \in Seq(Line) /\ Len(lines) = n
      /\ \A j, k \in 1 .. n : j < k => lines[j][1] < lines[k][1]
  <2>1. \A k \in 1 .. n : lines[k] = <<numbers[k], listing[numbers[k]]>> /\ lines[k] \in Line
    BY <1>3 DEF TypeOk, Line
  <2>2. lines \in [1 .. n -> Line]
    BY <1>3, <2>1
  <2>3. lines \in Seq(Line) /\ Len(lines) = n
    BY <1>2, <2>2, IsSequence
  <2> QED
    BY <1>3, <2>1, <2>3
<1> HIDE DEF lines
<1>5. len \in Nat /\ len <= n /\ len <= BufferLines
  BY <1>2, <1>4, MtdScanAssumption
<1> HIDE DEF n, len
<1>6. /\ whole \in Seq(Line) /\ Len(whole) = len /\ DOMAIN whole = 1 .. len
      /\ \A k \in 1 .. len : whole[k] = lines[k]
  <2>1. len \in 0 .. Len(lines)
    BY <1>2, <1>4, <1>5
  <2> QED
    BY <1>4, <2>1, PrefixFacts
<1> HIDE DEF whole, cut
<1>7. /\ seen' = {whole[k] : k \in 1 .. len}
      /\ \/ rest' = whole /\ cutLine' = Nothing
         \/ \E line \in cut : rest' = Append(whole, line) /\ cutLine' = line
  BY <1>1, <1>6 DEF whole, cut, len, lines
<1>n. seen' \subseteq Line
  BY <1>6, <1>7
<1>8. CASE rest' = whole /\ cutLine' = Nothing
  <2>1. \A j, k \in 1 .. len : j < k => rest'[j][1] < rest'[k][1]
    BY <1>2, <1>4, <1>5, <1>6, <1>8
  <2>2. Len(rest') <= Allocated /\ DOMAIN rest' = 1 .. len
    BY <1>2, <1>5, <1>6, <1>8, MtdScanAssumption
  <2>3. \A line \in seen' : \E k \in 1 .. len : rest'[k] = line
    BY <1>7, <1>8
  <2> QED
    BY <1>6, <1>7, <1>n, <1>8, <2>1, <2>2, <2>3
<1>9. ASSUME NEW line \in cut, rest' = Append(whole, line), cutLine' = line
      PROVE  /\ rest' \in Seq(Line) /\ Len(rest') = len + 1 /\ len + 1 <= n
             /\ line \in Line
             /\ \A k \in 1 .. len : rest'[k] = lines[k] /\ rest'[k] = whole[k]
             /\ rest'[len + 1] = line /\ line[1] = lines[len + 1][1]
  <2>1. len = BufferLines /\ len + 1 <= n
    BY <1>2, <1>4, <1>9, MtdScanAssumption DEF cut, len
  <2>2. PICK m \in CutTo[lines[len + 1][2]] : line = <<lines[len + 1][1], m>>
    BY <1>4, <1>9, <2>1 DEF cut
  <2>3. lines[len + 1] \in Line
    BY <1>4, <1>5, <2>1
  <2>4. line \in Line /\ line[1] = lines[len + 1][1]
    BY <2>2, <2>3, MtdScanAssumption DEF Line
  <2> QED
    BY <1>5, <1>6, <1>9, <2>1, <2>4
<1>10. CASE \E line \in cut : rest' = Append(whole, line) /\ cutLine' = line
  <2>1. PICK line \in cut : rest' = Append(whole, line) /\ cutLine' = line
    BY <1>10
  <2>2. /\ rest' \in Seq(Line) /\ Len(rest') = len + 1 /\ len + 1 <= n /\ line \in Line
        /\ \A k \in 1 .. len : rest'[k] = lines[k] /\ rest'[k] = whole[k]
        /\ rest'[len + 1] = line /\ line[1] = lines[len + 1][1]
    BY <1>9, <2>1
  <2>3. \A k \in DOMAIN rest' : rest'[k][1] = lines[k][1] /\ k \in 1 .. n
    BY <1>2, <1>5, <2>2
  <2>4. \A j, k \in DOMAIN rest' : j < k => rest'[j][1] < rest'[k][1]
    BY <1>4, <2>3
  <2>5. \A l \in seen' : \E k \in DOMAIN rest' : rest'[k] = l
    BY <1>5, <1>7, <2>2
  <2>6. \A k \in DOMAIN rest' : rest'[k] \in seen' \union {cutLine'}
    <3>1. \A k \in DOMAIN rest' : k \in 1 .. len \/ k = len + 1
      BY <1>5, <2>2
    <3> QED
      BY <1>7, <2>1, <2>2, <3>1
  <2>7. Len(rest') <= Allocated
    BY <1>2, <1>5, <2>2, MtdScanAssumption
  <2> QED
    BY <1>n, <2>1, <2>2, <2>4, <2>5, <2>6, <2>7
<1> QED
  BY <1>7, <1>8, <1>10

-----------------------------------------------------------------------------
(* The invariant *)

LEMMA InvInit == Init => TypeOk /\ ScanInv
<1> SUFFICES ASSUME Init PROVE TypeOk /\ ScanInv
  OBVIOUS
<1>1. Named(table) = {} /\ Cardinality({}) = 0
  BY FS_EmptySet DEF Init, Named
<1>2. TypeOk
  <2>1. rest \in Seq(Line) /\ Len(rest) <= Allocated
    BY MtdScanAssumption DEF Init
  <2> QED
    BY <2>1, MtdScanAssumption DEF Init, TypeOk, NoAnswer
<1>3. ScanInv
  <2>1. seen = {} /\ count = -1 /\ pc = "idle" /\ strings = 0
    BY DEF Init
  <2>n. Filled /\ Scanned
    BY <1>1, <2>1 DEF Filled, Scanned
  <2>2. Answered
    BY DEF Init, Answered, NoAnswer
  <2> QED
    BY <2>n, <2>2 DEF ScanInv
<1> QED
  BY <1>2, <1>3

\* An answer stays good while the table does.
LEMMA AnswerKept ==
    ASSUME Answered, found' = found, table' = table, pc' # "idle" => found = NoAnswer
    PROVE  Answered'
BY DEF Answered, Hits, Listed, Named

LEMMA NoAnswerIsGood == ASSUME found' = NoAnswer PROVE Answered'
BY DEF Answered, NoAnswer

\* The scan empties the table and frees every name in it.
LEMMA InvReset == TypeOk /\ ScanInv /\ ScanReset => TypeOk' /\ ScanInv'
<1> SUFFICES ASSUME TypeOk, ScanInv, ScanReset PROVE TypeOk' /\ ScanInv'
  OBVIOUS
<1>1. table' \in [Index -> Entry] /\ table' # <<>> /\ Named(table') = {}
  <2>1. table' \in [Index -> Entry] /\ \A i \in Index : table'[i].name = Nothing
    BY DEF ScanReset, Unused, Entry
  <2>2. table' # <<>>
    BY <2>1, IndexFacts
  <2> QED
    BY <2>1, <2>2, NamedFacts
<1>2. Cardinality({}) = 0
  BY FS_EmptySet
<1>3. strings' = 0
  <2>1. strings = Cardinality(Named(table)) /\ Cardinality(Named(table)) \in Nat
    BY NamedFacts, MtdScanAssumption DEF ScanInv, Filled, TypeOk
  <2> QED
    BY <2>1 DEF ScanReset
<1>4. TypeOk'
  BY <1>1, <1>3, MtdScanAssumption DEF ScanReset, TypeOk, NoAnswer
<1>5. ScanInv'
  BY <1>1, <1>2, <1>3, NoAnswerIsGood DEF ScanReset, ScanInv, Filled, Scanned
<1> QED
  BY <1>4, <1>5

LEMMA InvAllocFails == TypeOk /\ ScanInv /\ ScanAllocFails => TypeOk' /\ ScanInv'
BY NoAnswerIsGood
   DEF ScanAllocFails, TypeOk, ScanInv, Filled, Scanned, NoAnswer, Named, Stored, Entry

LEMMA InvReadFails == TypeOk /\ ScanInv /\ ScanReadFails => TypeOk' /\ ScanInv'
<1> SUFFICES ASSUME TypeOk, ScanInv, ScanReadFails PROVE TypeOk' /\ ScanInv'
  OBVIOUS
<1>1. TypeOk'
  BY MtdScanAssumption DEF ScanReadFails, TypeOk
<1>2. Filled' /\ Scanned'
  BY DEF ScanReadFails, ScanInv, Filled, Scanned, Stored, Named
<1>3. Answered'
  BY AnswerKept DEF ScanReadFails, ScanInv
<1> QED
  BY <1>1, <1>2, <1>3 DEF ScanInv

\* The lines of the read are all still to be stored.
LEMMA InvRead == TypeOk /\ ScanInv /\ ScanRead => TypeOk' /\ ScanInv'
<1> SUFFICES ASSUME TypeOk, ScanInv, ScanRead PROVE TypeOk' /\ ScanInv'
  OBVIOUS
<1>1. pc = "read" /\ pc' = "parse" /\ UNCHANGED <<listing, table, count, found, strings>>
  BY DEF ScanRead
<1>2. table # <<>> /\ Named(table) = {} /\ Named(table') = {} /\ found = NoAnswer
  BY <1>1 DEF ScanInv, Scanned, Answered
<1>3. TypeOk'
  BY <1>1, ReadFacts DEF TypeOk
<1>4. Filled'
  BY <1>1, <1>2 DEF ScanInv, Filled, Stored
<1>5. Scanned'
  BY <1>1, <1>2, ReadFacts DEF ScanInv, Scanned
<1>6. Answered'
  BY <1>1, <1>2, NoAnswerIsGood
<1> QED
  BY <1>3, <1>4, <1>5, <1>6 DEF ScanInv

\* The line that is parsed goes to an entry of its own.
LEMMA HeadFacts ==
    ASSUME TypeOk, ScanInv, pc = "parse", rest # <<>>
    PROVE  /\ table \in [Index -> Entry] /\ found = NoAnswer
           /\ Head(rest) = rest[1] /\ 1 \in DOMAIN rest /\ rest[1] \in Line
           /\ rest[1][1] \in Index /\ rest[1][1] \notin Named(table)
           /\ rest[1][2] \in Names /\ rest[1] = <<rest[1][1], rest[1][2]>>
           /\ \A i \in Named(table) : i < rest[1][1]
<1>1. Head(rest) = rest[1] /\ 1 \in DOMAIN rest /\ rest[1] \in Line
  BY DEF TypeOk
<1>2. \A i \in Named(table) : i < rest[1][1]
  BY <1>1 DEF ScanInv, Scanned
<1>3. rest[1][1] \in Index /\ rest[1][2] \in Names /\ rest[1] = <<rest[1][1], rest[1][2]>>
  BY <1>1 DEF Line
<1>4. rest[1][1] \notin Named(table)
  <2> SUFFICES ASSUME rest[1][1] \in Named(table) PROVE FALSE
    OBVIOUS
  <2>1. rest[1][1] < rest[1][1] /\ rest[1][1] \in Nat
    BY <1>2, <1>3, IndexFacts
  <2> QED
    BY <2>1
<1> QED
  BY <1>1, <1>2, <1>3, <1>4 DEF TypeOk, ScanInv, Scanned, Answered

LEMMA InvLine == TypeOk /\ ScanInv /\ ScanLine => TypeOk' /\ ScanInv'
<1> SUFFICES ASSUME TypeOk, ScanInv, ScanLine PROVE TypeOk' /\ ScanInv'
  OBVIOUS
<1> DEFINE n == rest[1][1]
           m == rest[1][2]
<1>1. /\ pc = "parse" /\ pc' = "parse" /\ rest # <<>> /\ rest' = Tail(rest)
      /\ strings' = strings + 1 /\ count' = count + 1
      /\ UNCHANGED <<listing, found, seen, cutLine>>
  BY DEF ScanLine
<1>2. /\ n \in Index /\ m \in Names /\ rest[1] = <<n, m>> /\ n \notin Named(table)
      /\ \A i \in Named(table) : i < n
      /\ table \in [Index -> Entry] /\ found = NoAnswer
  BY <1>1, HeadFacts
<1>3. table' = [table EXCEPT ![n] = [device_index |-> n, name |-> m]]
  BY <1>1, HeadFacts DEF ScanLine
<1> HIDE DEF n, m
<1>4. /\ table' \in [Index -> Entry] /\ table' # <<>>
      /\ table'[n].device_index = n /\ table'[n].name = m
      /\ \A i \in Index \ {n} : table'[i] = table[i]
  <2>1. [device_index |-> n, name |-> m] \in Entry
    BY <1>2 DEF Entry
  <2>2. table' \in [Index -> Entry]
    BY <1>2, <1>3, <2>1
  <2> QED
    BY <1>2, <1>3, <2>2
<1>5. Named(table') = Named(table) \union {n}
  <2>1. \A i : i \in Named(table) <=> i \in Index /\ table[i].name # Nothing
    BY <1>2, NamedFacts
  <2>2. \A i : i \in Named(table') <=> i \in Index /\ table'[i].name # Nothing
    BY <1>4, NamedFacts
  <2> QED
    BY <1>2, <1>4, <2>1, <2>2, MtdScanAssumption
<1>6. /\ Cardinality(Named(table')) = Cardinality(Named(table)) + 1
      /\ Cardinality(Named(table')) \in 0 .. Allocated
  <2>1. IsFiniteSet(Named(table))
    BY <1>2, NamedFacts
  <2>2. Cardinality(Named(table')) = Cardinality(Named(table)) + 1
    BY <1>2, <1>5, <2>1, FS_AddElement
  <2> QED
    BY <1>4, <2>2, NamedFacts
<1>7. /\ rest' \in Seq(Line) /\ Len(rest') <= Allocated
      /\ \A k \in DOMAIN rest' : k + 1 \in DOMAIN rest /\ rest'[k] = rest[k + 1] /\ k \in Nat /\ 1 < k + 1
      /\ \A k \in DOMAIN rest : k = 1 \/ \E j \in DOMAIN rest' : rest'[j] = rest[k]
  <2>1. rest \in Seq(Line) /\ Len(rest) <= Allocated /\ Len(rest) \in Nat \ {0}
    BY <1>1 DEF TypeOk
  <2>2. /\ rest' \in Seq(Line) /\ Len(rest') = Len(rest) - 1
        /\ \A k \in 1 .. Len(rest) - 1 : rest'[k] = rest[k + 1]
    BY <1>1, <2>1
  <2>3. \A k \in DOMAIN rest : k = 1 \/ (k - 1 \in DOMAIN rest' /\ rest'[k - 1] = rest[k])
    BY <2>1, <2>2
  <2> QED
    BY <2>1, <2>2, <2>3, MtdScanAssumption
<1>8. \A j, k \in DOMAIN rest : j < k => rest[j][1] < rest[k][1]
  BY <1>1 DEF ScanInv, Scanned
<1>9. \A line : Stored(line) => Stored(line)'
  BY <1>2, <1>4, <1>5, NamedFacts DEF Stored
<1>10. \A line : line = rest[1] => Stored(line)'
  BY <1>2, <1>4, <1>5 DEF Stored
<1>11. \A line \in seen : Stored(line)' \/ \E k \in DOMAIN rest' : rest'[k] = line
  <2>1. \A line \in seen : Stored(line) \/ \E k \in DOMAIN rest : rest[k] = line
    BY <1>1 DEF ScanInv, Scanned
  <2> QED
    BY <1>7, <1>9, <1>10, <2>1
<1>12. \A k \in DOMAIN rest', i \in Named(table') : i < rest'[k][1]
  <2> SUFFICES ASSUME NEW k \in DOMAIN rest', NEW i \in Named(table') PROVE i < rest'[k][1]
    OBVIOUS
  <2>1. rest'[k] = rest[k + 1] /\ k + 1 \in DOMAIN rest /\ 1 < k + 1 /\ 1 \in DOMAIN rest
    BY <1>1, <1>7, HeadFacts
  <2>2. n < rest[k + 1][1]
    BY <1>8, <2>1 DEF n
  <2>3. CASE i = n
    BY <2>1, <2>2, <2>3
  <2>4. CASE i \in Named(table)
    BY <1>1, <2>1, <2>4 DEF ScanInv, Scanned
  <2> QED
    BY <1>5, <2>3, <2>4
<1>13. count = Cardinality(Named(table)) /\ strings = Cardinality(Named(table))
  BY <1>1 DEF ScanInv, Scanned, Filled
<1>14. TypeOk'
  BY <1>1, <1>4, <1>6, <1>7, <1>13, MtdScanAssumption DEF TypeOk
<1>15. Filled'
  <2>1. <<n, m>> \in seen \union {cutLine}
    BY <1>1, <1>2, HeadFacts DEF ScanInv, Scanned
  <2>2. \A i \in Named(table') : /\ table'[i].device_index = i
                                 /\ <<i, table'[i].name>> \in seen \union {cutLine}
    BY <1>2, <1>4, <1>5, <2>1, NamedFacts DEF ScanInv, Filled
  <2>3. \A line \in seen : Stored(line)' \/ \A i \in Named(table') : i < line[1]
    BY <1>11, <1>12
  <2> QED
    BY <1>1, <1>6, <1>13, <2>2, <2>3 DEF Filled
<1>16. Scanned'
  <2>1. \A k \in DOMAIN rest' : rest'[k] \in seen \union {cutLine}
    BY <1>1, <1>7 DEF ScanInv, Scanned
  <2>2. ASSUME NEW j \in DOMAIN rest', NEW k \in DOMAIN rest', j < k
        PROVE  rest'[j][1] < rest'[k][1]
    <3>1. j + 1 < k + 1 /\ j + 1 \in DOMAIN rest /\ k + 1 \in DOMAIN rest
      BY <1>7, <2>2
    <3>2. rest'[j] = rest[j + 1] /\ rest'[k] = rest[k + 1]
      BY <1>7
    <3> QED
      BY <1>8, <3>1, <3>2
  <2> QED
    BY <1>1, <1>4, <1>6, <1>11, <1>12, <1>13, <2>1, <2>2 DEF Scanned
<1>17. Answered'
  BY <1>1, <1>2, NoAnswerIsGood
<1> QED
  BY <1>14, <1>15, <1>16, <1>17 DEF ScanInv

\* What is in the table after strdup has failed was read before the lines that are
\* not, and has lower numbers.
LEMMA InvLineFails == TypeOk /\ ScanInv /\ ScanLineFails => TypeOk' /\ ScanInv'
<1> SUFFICES ASSUME TypeOk, ScanInv, ScanLineFails PROVE TypeOk' /\ ScanInv'
  OBVIOUS
<1> DEFINE n == rest[1][1]
<1>1. /\ pc = "parse" /\ pc' = "idle" /\ rest # <<>> /\ rest' = <<>> /\ count' = -1
      /\ UNCHANGED <<listing, found, strings, seen, cutLine>>
  BY DEF ScanLineFails
<1>2. n \in Index /\ n \notin Named(table) /\ table \in [Index -> Entry] /\ found = NoAnswer
  BY <1>1, HeadFacts
<1>3. table' = [table EXCEPT ![n].device_index = n]
  BY <1>1, HeadFacts DEF ScanLineFails
<1> HIDE DEF n
<1>4. /\ table' \in [Index -> Entry]
      /\ \A i \in Index : table'[i].name = table[i].name
      /\ \A i \in Index \ {n} : table'[i] = table[i]
  <2>1. table[n] \in Entry
    BY <1>2
  <2>2. /\ [table[n] EXCEPT !.device_index = n] \in Entry
        /\ [table[n] EXCEPT !.device_index = n].name = table[n].name
    BY <1>2, <2>1 DEF Entry
  <2>3. table' = [table EXCEPT ![n] = [table[n] EXCEPT !.device_index = n]]
    BY <1>3
  <2>4. table'[n] = [table[n] EXCEPT !.device_index = n]
    BY <1>2, <2>3
  <2>5. table' \in [Index -> Entry] /\ \A i \in Index \ {n} : table'[i] = table[i]
    BY <1>2, <2>2, <2>3
  <2> QED
    BY <2>2, <2>4, <2>5
<1>5. Named(table') = Named(table) /\ Named(table) \subseteq Index
  <2>1. \A i : i \in Named(table) <=> i \in Index /\ table[i].name # Nothing
    BY <1>2, NamedFacts DEF Named
  <2>2. \A i : i \in Named(table') <=> i \in Index /\ table'[i].name # Nothing
    BY <1>4, NamedFacts DEF Named
  <2> QED
    BY <1>4, <2>1, <2>2
<1>6. TypeOk'
  BY <1>1, <1>4, MtdScanAssumption DEF TypeOk
<1>7. Filled'
  BY <1>1, <1>2, <1>4, <1>5 DEF ScanInv, Filled, Stored
<1>8. Scanned'
  BY <1>1 DEF Scanned
<1>9. Answered'
  BY <1>1, <1>2, NoAnswerIsGood
<1> QED
  BY <1>6, <1>7, <1>8, <1>9 DEF ScanInv

LEMMA InvReturns == TypeOk /\ ScanInv /\ ScanReturns => TypeOk' /\ ScanInv'
<1> SUFFICES ASSUME TypeOk, ScanInv, ScanReturns PROVE TypeOk' /\ ScanInv'
  OBVIOUS
<1>1. /\ pc = "parse" /\ pc' = "idle" /\ rest = <<>>
      /\ UNCHANGED <<listing, table, count, rest, found, strings, seen, cutLine>>
  BY DEF ScanReturns
<1>2. TypeOk'
  BY <1>1 DEF TypeOk
<1>3. Filled'
  BY <1>1 DEF ScanInv, Filled, Stored, Named
<1>4. Scanned'
  <2>1. \A line \in seen : Stored(line)
    BY <1>1 DEF ScanInv, Scanned
  <2> QED
    BY <1>1, <2>1 DEF ScanInv, Scanned, Stored, Named
<1>5. Answered'
  BY <1>1, AnswerKept DEF ScanInv
<1> QED
  BY <1>2, <1>3, <1>4, <1>5 DEF ScanInv

\* The answer is the lowest entry of that name, if there is one.
LEMMA InvFind ==
    ASSUME TypeOk, ScanInv, NEW name \in Names, Find(name)
    PROVE  TypeOk' /\ ScanInv'
<1>1. /\ pc = "idle" /\ UNCHANGED <<listing, table, count, pc, rest, strings, seen, cutLine>>
      /\ found' = [asked |-> name,
                   part |-> IF Hits(name) = {} THEN Nothing
                            ELSE LET i == CHOOSE i \in Hits(name) : \A j \in Hits(name) : i <= j
                                 IN <<table[i].device_index, table[i].name>>]
  BY DEF Find
<1>2. Hits(name)' = Hits(name) /\ found'.asked = name /\ name # Nothing
  BY <1>1, MtdScanAssumption DEF Hits, Listed, Named
<1>3. \A i \in Hits(name) : i \in Index /\ table[i].device_index = i /\ table[i].name = name
  BY NamedFacts DEF TypeOk, Hits, Listed, ScanInv, Filled
<1>4. CASE Hits(name) = {}
  <2>1. found'.part = Nothing
    BY <1>1, <1>4
  <2>2. Answered'
    BY <1>1, <1>2, <1>4, <2>1 DEF Answered
  <2> QED
    BY <1>1, <1>2, <2>1, <2>2 DEF TypeOk, ScanInv, Filled, Scanned, Stored, Named
<1>5. CASE Hits(name) # {}
  <2> DEFINE i == CHOOSE i \in Hits(name) : \A j \in Hits(name) : i <= j
  <2>1. i \in Hits(name) /\ \A j \in Hits(name) : i <= j
    BY <1>3, <1>5, LowestFacts
  <2>2. found'.part = <<table[i].device_index, table[i].name>>
    BY <1>1, <1>5
  <2> HIDE DEF i
  <2>3. found'.part = <<i, name>> /\ <<i, name>> \in Line /\ <<i, name>> # Nothing
    BY <1>3, <2>1, <2>2, IndexFacts DEF Line
  <2>4. Answered'
    BY <1>1, <1>2, <2>1, <2>3 DEF Answered
  <2> QED
    BY <1>1, <1>2, <2>3, <2>4 DEF TypeOk, ScanInv, Filled, Scanned, Stored, Named
<1> QED
  BY <1>4, <1>5

\* /proc/mtd may change at any time: no step but the read looks at it.
LEMMA InvRelist == TypeOk /\ ScanInv /\ Relist => TypeOk' /\ ScanInv'
<1> SUFFICES ASSUME TypeOk, ScanInv, Relist PROVE TypeOk' /\ ScanInv'
  OBVIOUS
<1>1. Answered'
  BY AnswerKept DEF Relist, ScanInv, Answered
<1> QED
  BY <1>1 DEF Relist, TypeOk, ScanInv, Filled, Scanned, Stored, Named

LEMMA InvStep == TypeOk /\ ScanInv /\ [Next]_vars => TypeOk' /\ ScanInv'
<1> SUFFICES ASSUME TypeOk, ScanInv, [Next]_vars PROVE TypeOk' /\ ScanInv'
  OBVIOUS
<1>1. CASE UNCHANGED vars
  BY <1>1 DEF vars, TypeOk, ScanInv, Filled, Scanned, Stored, Named, Answered, Hits, Listed
<1> QED
  BY <1>1, InvReset, InvAllocFails, InvReadFails, InvRead, InvLine, InvLineFails, InvReturns,
     InvFind, InvRelist DEF Next

\* The table, the buffer and the answers keep their types, and the table holds
\* lines of the last read only, each under its own number, over any number of
\* scans that fail at any point.
THEOREM ScanInductive == Spec => [](TypeOk /\ ScanInv)
<1>1. Init => TypeOk /\ ScanInv
  BY InvInit
<1>2. (TypeOk /\ ScanInv) /\ [Next]_vars => (TypeOk /\ ScanInv)'
  BY InvStep
<1> QED
  BY <1>1, <1>2, PTL DEF Spec

\* The count and the buffer stay within the table that is allocated.
THEOREM TypeCorrect == Spec => []TypeOk
BY ScanInductive, PTL

-----------------------------------------------------------------------------
(* The properties *)

\* Every name is freed once, and counted once (mtd_flash.c:86-92, :137-144).
THEOREM NamesAreAccounted == Spec => []NamesAccounted
<1>1. ScanInv => NamesAccounted
  BY DEF ScanInv, Filled, Scanned, NamesAccounted
<1> QED
  BY <1>1, ScanInductive, PTL

\* A line that is stored is looked at by the search.
LEMMA StoredIsHit ==
    ASSUME ScanInv, NEW line, Stored(line), line[1] \in Nat
    PROVE  line[1] \in Hits(line[2])
<1>1. table[line[1]].device_index = line[1]
  BY DEF ScanInv, Filled, Stored
<1>2. line[1] \in Listed(table) /\ table[line[1]].name = line[2]
  BY <1>1 DEF Stored, Listed
<1> QED
  BY <1>2 DEF Hits

\* A caller that ignores the result of the scan (bootloader.c:215 and :261) is
\* never given a partition of an earlier layout.
THEOREM FoundMeansCurrent == Spec => []FoundIsCurrent
<1>1. TypeOk /\ ScanInv => FoundIsCurrent
  <2> SUFFICES ASSUME TypeOk, ScanInv, found.part # Nothing, found.part # cutLine
               PROVE  /\ found.part \in seen
                      /\ \A line \in seen : line[2] = found.asked => found.part[1] <= line[1]
    BY DEF FoundIsCurrent
  <2>1. PICK i \in Hits(found.asked) : /\ found.part = <<i, found.asked>>
                                       /\ \A j \in Hits(found.asked) : i <= j
    BY DEF ScanInv, Answered
  <2>2. i \in Named(table) /\ table[i].name = found.asked /\ i \in Nat
    BY <2>1, NamedFacts, IndexFacts DEF Hits, Listed, TypeOk
  <2>3. found.part \in seen
    BY <2>1, <2>2 DEF ScanInv, Filled
  <2>4. ASSUME NEW line \in seen, line[2] = found.asked
        PROVE  i <= line[1]
    <3>1. line[1] \in Nat
      BY <2>4, IndexFacts DEF TypeOk
    <3>2. CASE Stored(line)
      <4>1. line[1] \in Hits(found.asked)
        BY <2>4, <3>1, <3>2, StoredIsHit
      <4> QED
        BY <2>1, <4>1
    <3>3. CASE \A j \in Named(table) : j < line[1]
      BY <2>2, <3>1, <3>3
    <3> QED
      BY <2>4, <3>2, <3>3 DEF ScanInv, Filled
  <2> QED
    BY <2>1, <2>3, <2>4
<1> QED
  BY <1>1, ScanInductive, PTL

\* Gaps in the numbers hide no partition (mtd_flash.c:171).
THEOREM MissedMeansAbsent == Spec => []MissedIsAbsent
<1>1. TypeOk /\ ScanInv => MissedIsAbsent
  <2> SUFFICES ASSUME TypeOk, ScanInv, found.asked # Nothing, found.part = Nothing, count >= 0,
                      NEW line \in seen, line[2] = found.asked
               PROVE  FALSE
    BY DEF MissedIsAbsent
  <2>1. pc = "idle" /\ Hits(found.asked) = {}
    BY DEF ScanInv, Answered, NoAnswer
  <2>2. Stored(line) /\ line[1] \in Nat
    BY <2>1, IndexFacts DEF ScanInv, Scanned, TypeOk
  <2>3. line[1] \in Hits(found.asked)
    BY <2>2, StoredIsHit
  <2> QED
    BY <2>1, <2>3
<1> QED
  BY <1>1, ScanInductive, PTL
=============================================================================
