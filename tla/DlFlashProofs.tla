--------------------------- MODULE DlFlashProofs ---------------------------
(***************************************************************************)
(* Theorems about DlFlash, for any threads, partitions and descriptors:    *)
(* its types, that the table of a library that is initialised is complete  *)
(* and the device's own, and that its users keep their descriptors and the *)
(* blocks they were asked for.                                             *)
(***************************************************************************)
EXTENDS DlFlash, TLAPS

LEMMA OrderFacts ==
    /\ Len(OpOrder) = 5
    /\ \A k \in 1 .. 5 : OpOrder[k] \in Op
    /\ \A o \in Op : \E k \in 1 .. 5 : OpOrder[k] = o
<1>1. Len(OpOrder) = 5 BY DEF OpOrder
<1>2. \A k \in 1 .. 5 : OpOrder[k] \in Op BY DEF OpOrder, Op
<1>3. /\ OpOrder[1] = "open" /\ OpOrder[2] = "read" /\ OpOrder[3] = "write"
      /\ OpOrder[4] = "erase" /\ OpOrder[5] = "close"
  BY DEF OpOrder
<1> QED BY <1>1, <1>2, <1>3 DEF Op

-----------------------------------------------------------------------------
(* Types *)

\* The program counter of a call tells which of its records it is in.
UsingPc == {"open", "info", "giveup", "seek", "transfer", "close", "return"}

LEMMA CallFacts ==
    ASSUME TypeOk, NEW t \in Threads
    PROVE  /\ call[t].pc = "fill" => call[t] \in Initialising /\ call[t].at \in 1 .. 7
           /\ call[t].pc \in UsingPc => call[t] \in Using
BY OrderFacts DEF TypeOk, Idle, Initialising, Using, UsingPc

\* A call that uses the library stays a well-formed record in each of its steps.
LEMMA UsingFacts ==
    ASSUME NEW c \in Using
    PROVE  /\ \A pc \in UsingPc : [c EXCEPT !.pc = pc] \in Using
           /\ \A r \in {0, -1} : Ends(c, r) \in Using
           /\ NextBlock(c) \in Using
           /\ \A d \in Descriptors \union {StubDescriptor}, pc \in UsingPc :
                 [c EXCEPT !.fd = d, !.pc = pc] \in Using
           /\ \A p \in Partitions \X Nat : [c EXCEPT !.done = @ \union {p}] \in Using
<1>1. \A pc \in UsingPc : [c EXCEPT !.pc = pc] \in Using
  BY DEF Using, UsingPc
<1>2. \A r \in {0, -1} : Ends(c, r) \in Using
  BY DEF Using, Ends
<1>3. NextBlock(c) \in Using
  <2>1. CASE c.at < c.last
    <3>1. c.at + 1 \in Block
      BY <2>1, BlockAssumption DEF Using, Block
    <3> QED
      BY <2>1, <3>1 DEF NextBlock, Using
  <2>2. CASE ~(c.at < c.last)
    BY <1>2, <2>2 DEF NextBlock
  <2> QED
    BY <2>1, <2>2
<1>4. \A d \in Descriptors \union {StubDescriptor}, pc \in UsingPc :
         [c EXCEPT !.fd = d, !.pc = pc] \in Using
  BY DEF Using, UsingPc
<1>5. \A p \in Partitions \X Nat : [c EXCEPT !.done = @ \union {p}] \in Using
  BY DEF Using
<1> QED
  BY <1>1, <1>2, <1>3, <1>4, <1>5

LEMMA GotoTyped ==
    ASSUME TypeOk, NEW t \in Threads,
           NEW c \in {Idle} \union Initialising \union Using, Goto(t, c)
    PROVE  call' \in [Threads -> {Idle} \union Initialising \union Using]
BY DEF TypeOk, Goto

LEMMA CloseTyped ==
    ASSUME TypeOk, NEW d, CloseDescriptor(d)
    PROVE  file' \in [Descriptors -> Partitions \union {Closed}]
BY DEF TypeOk, CloseDescriptor, BlockClose

LEMMA TypeInit == Init => TypeOk
<1> SUFFICES ASSUME Init PROVE TypeOk
  OBVIOUS
<1>2. pos \in [Descriptors -> Nat]
  BY DEF Init
<1>3. file \in [Descriptors -> Partitions \union {Closed}]
  BY DEF Init
<1>4. call \in [Threads -> {Idle} \union Initialising \union Using]
  BY DEF Init
<1>5. ops \in [Op -> {"none", "block", "nand", "nor"}]
  BY DEF Init
<1> QED
  BY <1>2, <1>3, <1>4, <1>5 DEF Init, TypeOk

LEMMA TypeStep == TypeOk /\ [Next]_vars => TypeOk'
<1> SUFFICES ASSUME TypeOk, [Next]_vars PROVE TypeOk'
  OBVIOUS
<1> DEFINE AnyCall == {Idle} \union Initialising \union Using
<1>1. CASE UNCHANGED vars
  BY <1>1 DEF vars, ctrl, table, TypeOk
<1>2. ASSUME NEW t \in Threads, InitStart(t) PROVE TypeOk'
  <2>1. [pc |-> "init"] \in AnyCall
    BY DEF Initialising
  <2> QED
    BY <1>2, <2>1, GotoTyped DEF InitStart, TypeOk, ctrl, table
<1>3. ASSUME NEW t \in Threads, InitCheck(t) PROVE TypeOk'
  <2>1. [pc |-> "fill", at |-> 1] \in AnyCall /\ Idle \in AnyCall
    BY OrderFacts DEF Initialising
  <2>2. call' \in [Threads -> AnyCall]
    BY <1>3, <2>1, GotoTyped DEF InitCheck
  <2> QED
    BY <1>3, <2>2 DEF InitCheck, TypeOk, ctrl, table
<1>4. ASSUME NEW t \in Threads, Fill(t) PROVE TypeOk'
  <2>1. call[t] \in Initialising /\ call[t].at \in 1 .. 7 /\ call[t].pc = "fill"
    BY <1>4, CallFacts DEF Fill
  <2>2. call[t].at < 7 => [call[t] EXCEPT !.at = @ + 1] \in AnyCall
    BY <2>1, OrderFacts DEF Initialising
  <2>3. call' \in [Threads -> AnyCall]
    <3>1. CASE call[t].at < 7
      BY <1>4, <2>2, <3>1, OrderFacts, GotoTyped DEF Fill, AfterStore
    <3>2. CASE ~(call[t].at < 7)
      BY <1>4, <3>2, OrderFacts, GotoTyped DEF Fill, AfterStore
    <3> QED
      BY <3>1, <3>2
  <2>4. Driver[device] \in {"none", "block", "nand", "nor"}
    BY DEF TypeOk, Device, Driver, NandDriver, NorDriver
  <2>5. ops' \in [Op -> {"none", "block", "nand", "nor"}]
    BY <1>4, <2>1, <2>4, OrderFacts DEF Fill, TypeOk
  <2>6. blockSize' \in {0, 1} /\ isInit' \in BOOLEAN
    BY <1>4 DEF Fill, TypeOk
  <2> QED
    BY <1>4, <2>3, <2>5, <2>6 DEF Fill, TypeOk, table
<1>5. ASSUME NEW t \in Threads, Deinit(t) PROVE TypeOk'
  BY <1>5 DEF Deinit, TypeOk, table
<1>6. ASSUME NEW t \in Threads, NEW use \in Use, NEW part \in Partitions, NEW last \in Block,
             Begin(t, use, part, last)
      PROVE TypeOk'
  <2>1. 0 \in Block
    BY BlockAssumption DEF Block
  <2>2. [pc |-> "open", use |-> use, part |-> part, last |-> last, at |-> 0,
         fd |-> StubDescriptor, ret |-> -1, done |-> {}] \in AnyCall
    BY <2>1 DEF Using
  <2>3. call' \in [Threads -> AnyCall]
    BY <1>6, <2>2, GotoTyped DEF Begin
  <2> QED
    BY <1>6, <2>3 DEF Begin, TypeOk, ctrl, table
<1>7. ASSUME NEW t \in Threads, Open(t) PROVE TypeOk'
  <2>1. call[t] \in Using
    BY <1>7, CallFacts DEF Open, UsingPc
  <2>2. ASSUME NEW d \in Descriptors \union {StubDescriptor}
        PROVE  [call[t] EXCEPT !.fd = d,
                               !.pc = IF call[t].use = "image" THEN "info" ELSE "seek"] \in AnyCall
    BY <2>1, UsingFacts DEF UsingPc
  <2>3. [call[t] EXCEPT !.pc = "return"] \in AnyCall
    BY <2>1, UsingFacts DEF UsingPc
  <2>4. call' \in [Threads -> AnyCall]
    BY <1>7, <2>2, <2>3, GotoTyped DEF Open
  <2>5. /\ file' \in [Descriptors -> Partitions \union {Closed}]
        /\ pos' \in [Descriptors -> Nat]
    <3>1. call[t].part \in Partitions
      BY <2>1 DEF Using
    <3>3. CASE UNCHANGED table
      BY <3>3 DEF TypeOk, table
    <3>4. CASE \E d \in Descriptors : /\ file' = [file EXCEPT ![d] = call[t].part]
                                     /\ pos' = [pos EXCEPT ![d] = 0]
      BY <3>1, <3>4 DEF TypeOk
    <3> QED
      BY <1>7, <3>3, <3>4 DEF Open, BlockOpen
  <2> QED
    BY <1>7, <2>4, <2>5 DEF Open, TypeOk, ctrl
<1>8. ASSUME NEW t \in Threads, Info(t) PROVE TypeOk'
  <2>1. call[t] \in Using
    BY <1>8, CallFacts DEF Info, UsingPc
  <2>2. call' \in [Threads -> AnyCall]
    BY <1>8, <2>1, UsingFacts, GotoTyped DEF Info, UsingPc
  <2> QED
    BY <1>8, <2>2 DEF Info, TypeOk, ctrl, table
<1>9. ASSUME NEW t \in Threads, Seek(t) PROVE TypeOk'
  <2>1. call[t] \in Using
    BY <1>9, CallFacts DEF Seek, UsingPc
  <2>2. /\ Ends(call[t], -1) \in AnyCall /\ NextBlock(call[t]) \in AnyCall
        /\ [call[t] EXCEPT !.pc = "transfer"] \in AnyCall
    BY <2>1, UsingFacts DEF UsingPc
  <2>3. call' \in [Threads -> AnyCall]
    BY <1>9, <2>2, GotoTyped DEF Seek
  <2>4. call[t].at \in Nat
    BY <2>1 DEF Using, Block
  <2>5. pos' \in [Descriptors -> Nat]
    BY <1>9, <2>4 DEF Seek, TypeOk
  <2> QED
    BY <1>9, <2>3, <2>5 DEF Seek, TypeOk, ctrl
<1>10. ASSUME NEW t \in Threads, Transfer(t) PROVE TypeOk'
  <2>1. call[t] \in Using
    BY <1>10, CallFacts DEF Transfer, UsingPc
  <2>2. CASE Goto(t, Ends(call[t], -1)) /\ UNCHANGED pos
    <3>1. call' \in [Threads -> AnyCall]
      BY <2>1, <2>2, UsingFacts, GotoTyped
    <3> QED
      BY <1>10, <2>2, <3>1 DEF Transfer, TypeOk, ctrl
  <2>3. ASSUME IsOpen(call[t].fd),
               pos' = [pos EXCEPT ![call[t].fd] = @ + 1],
               Goto(t, NextBlock([call[t] EXCEPT !.done = @ \union {<<file[call[t].fd], pos[call[t].fd]>>}]))
        PROVE  TypeOk'
    <3>1. <<file[call[t].fd], pos[call[t].fd]>> \in Partitions \X Nat
      BY <2>3 DEF IsOpen, TypeOk
    <3>2. [call[t] EXCEPT !.done = @ \union {<<file[call[t].fd], pos[call[t].fd]>>}] \in Using
      BY <2>1, <3>1, UsingFacts
    <3>3. NextBlock([call[t] EXCEPT !.done = @ \union {<<file[call[t].fd], pos[call[t].fd]>>}]) \in Using
      BY <3>2, UsingFacts
    <3>4. call' \in [Threads -> AnyCall]
      BY <2>3, <3>3, GotoTyped
    <3>5. pos[call[t].fd] + 1 \in Nat
      BY <2>3 DEF TypeOk, IsOpen
    <3>6. pos' \in [Descriptors -> Nat]
      BY <2>3, <3>5 DEF TypeOk
    <3> QED
      BY <1>10, <3>4, <3>6 DEF Transfer, TypeOk, ctrl
  <2> QED
    BY <1>10, <2>2, <2>3 DEF Transfer
<1>11. ASSUME NEW t \in Threads, GiveUp(t) PROVE TypeOk'
  <2>1. call[t] \in Using
    BY <1>11, CallFacts DEF GiveUp, UsingPc
  <2>2. call' \in [Threads -> AnyCall]
    BY <1>11, <2>1, UsingFacts, GotoTyped DEF GiveUp
  <2> QED
    BY <1>11, <2>2, CloseTyped DEF GiveUp, TypeOk, ctrl
<1>12. ASSUME NEW t \in Threads, Close(t) PROVE TypeOk'
  <2>1. call[t] \in Using
    BY <1>12, CallFacts DEF Close, UsingPc
  <2>2. call' \in [Threads -> AnyCall]
    BY <1>12, <2>1, UsingFacts, GotoTyped DEF Close, UsingPc
  <2> QED
    BY <1>12, <2>2, CloseTyped DEF Close, TypeOk, ctrl
<1>13. ASSUME NEW t \in Threads, Return(t) PROVE TypeOk'
  <2>1. call' \in [Threads -> AnyCall]
    BY <1>13, GotoTyped DEF Return
  <2> QED
    BY <1>13, <2>1 DEF Return, TypeOk, ctrl, table
<1> QED
  BY <1>1, <1>2, <1>3, <1>4, <1>5, <1>6, <1>7, <1>8, <1>9, <1>10, <1>11, <1>12, <1>13 DEF Next

\* The record of the library, the descriptors and the calls keep their types.
THEOREM TypeCorrect == Spec => []TypeOk
<1>1. Init => TypeOk
  BY TypeInit
<1>2. TypeOk /\ [Next]_vars => TypeOk'
  BY TypeStep
<1> QED
  BY <1>1, <1>2, PTL DEF Spec

-----------------------------------------------------------------------------
(* The table *)

LEMMA TableInit == Init => TableInv
BY DEF Init, TableInv, TableFitsDevice, Idle

\* A step that leaves the table alone and starts no filling keeps the invariant.
LEMMA TableUntouched ==
    ASSUME TypeOk, TableInv, NEW t \in Threads, NEW c, Goto(t, c), c.pc # "fill",
           UNCHANGED <<device, ctrl>>
    PROVE  TableInv'
<1>1. \A u \in Threads : call'[u].pc = "fill" => call'[u] = call[u]
  BY DEF Goto, TypeOk
<1> QED
  BY <1>1 DEF TableInv, TableFitsDevice, ctrl

LEMMA TableStep == TypeOk /\ TableInv /\ [Next]_vars => TableInv'
<1> SUFFICES ASSUME TypeOk, TableInv, [Next]_vars PROVE TableInv'
  OBVIOUS
<1>1. CASE UNCHANGED vars
  BY <1>1 DEF vars, ctrl, table, TableInv, TableFitsDevice
<1>2. ASSUME NEW t \in Threads, InitStart(t) PROVE TableInv'
  BY <1>2, TableUntouched DEF InitStart
<1>3. ASSUME NEW t \in Threads, InitCheck(t) PROVE TableInv'
  <2>1. CASE Goto(t, Idle)
    BY <1>3, <2>1, TableUntouched DEF InitCheck, Idle
  <2>2. CASE device # "other" /\ Goto(t, [pc |-> "fill", at |-> 1])
    <3>1. \A u \in Threads : call'[u] = IF u = t THEN [pc |-> "fill", at |-> 1] ELSE call[u]
      BY <2>2 DEF Goto, TypeOk
    <3> QED
      BY <1>3, <2>2, <3>1, OrderFacts DEF InitCheck, TableInv, TableFitsDevice, ctrl
  <2> QED
    BY <1>3, <2>1, <2>2 DEF InitCheck
<1>4. ASSUME NEW t \in Threads, Fill(t) PROVE TableInv'
  <2> DEFINE k == call[t].at
  <2>1. k \in 1 .. 7 /\ call[t].pc = "fill" /\ device # "other" /\ device' = device
    BY <1>4, CallFacts DEF Fill, TableInv
  <2>2. \A j \in 1 .. 5 : ops[OpOrder[j]] = Driver[device] => ops'[OpOrder[j]] = Driver[device]
    BY <1>4, OrderFacts DEF Fill, TypeOk
  <2>3. k \in 1 .. 5 => ops'[OpOrder[k]] = Driver[device]
    BY <1>4, OrderFacts DEF Fill, TypeOk
  <2>4. \A j \in 1 .. 5 : j < k => ops[OpOrder[j]] = Driver[device]
    BY <2>1, OrderFacts DEF TableInv
  <2>5. blockSize # 0 => blockSize' # 0
    BY <1>4 DEF Fill
  <2>6. k = 6 /\ device = "emmc" => blockSize' # 0
    BY <1>4, OrderFacts DEF Fill
  <2>7. TableFitsDevice'
    <3>1. CASE isInit
      <4>1. \A o \in Op : ops'[o] = Driver[device]
        BY <2>2, <3>1, OrderFacts DEF TableInv, TableFitsDevice
      <4> QED
        BY <2>1, <2>5, <3>1, <4>1 DEF TableInv, TableFitsDevice
    <3>2. CASE ~isInit /\ k = 7
      <4>1. \A o \in Op : ops'[o] = Driver[device]
        BY <2>2, <2>4, <3>2, OrderFacts
      <4>2. device = "emmc" => blockSize # 0
        BY <1>4, <2>1, <3>2, OrderFacts DEF TableInv
      <4> QED
        BY <2>1, <2>5, <4>1, <4>2 DEF TableFitsDevice
    <3>3. CASE ~isInit /\ k # 7
      <4>1. isInit' = (isInit \/ k = 7)
        BY <1>4, OrderFacts DEF Fill
      <4> QED
        BY <3>3, <4>1 DEF TableFitsDevice
    <3> QED
      BY <3>1, <3>2, <3>3
  <2>8. ASSUME NEW u \in Threads, call'[u].pc = "fill"
        PROVE  /\ device' # "other"
               /\ \A j \in 1 .. Len(OpOrder) : j < call'[u].at => ops'[OpOrder[j]] = Driver[device']
               /\ call'[u].at = Len(OpOrder) + 2 /\ device' = "emmc" => blockSize' # 0
    <3>1. CASE u # t
      <4>1. call'[u] = call[u]
        BY <1>4, <3>1 DEF Fill, Goto, TypeOk
      <4> QED
        BY <2>1, <2>2, <2>5, <2>8, <4>1, OrderFacts DEF TableInv
    <3>2. CASE u = t
      <4>1. k < 7 /\ call'[u].at = k + 1
        BY <1>4, <2>1, <2>8, <3>2, OrderFacts, CallFacts DEF Fill, AfterStore, Goto, TypeOk, Idle, Initialising
      <4>2. \A j \in 1 .. 5 : j < k + 1 => ops'[OpOrder[j]] = Driver[device]
        BY <2>1, <2>2, <2>3, <2>4
      <4> QED
        BY <2>1, <2>6, <4>1, <4>2, OrderFacts
    <3> QED
      BY <3>1, <3>2
  <2> QED
    BY <2>7, <2>8 DEF TableInv
<1>5. ASSUME NEW t \in Threads, Deinit(t) PROVE TableInv'
  BY <1>5 DEF Deinit, TableInv, TableFitsDevice
<1>6. ASSUME NEW t \in Threads, NEW use \in Use, NEW part \in Partitions, NEW last \in Block,
             Begin(t, use, part, last)
      PROVE TableInv'
  BY <1>6, TableUntouched DEF Begin
<1>7. ASSUME NEW t \in Threads, \/ Open(t) \/ Info(t) \/ Seek(t) \/ Transfer(t)
                                \/ GiveUp(t) \/ Close(t) \/ Return(t)
      PROVE TableInv'
  <2>1. call[t] \in Using
    BY <1>7, CallFacts DEF Open, Info, Seek, Transfer, GiveUp, Close, Return, UsingPc
  <2>2. UNCHANGED <<device, ctrl>>
    BY <1>7 DEF Open, Info, Seek, Transfer, GiveUp, Close, Return
  <2>3. call'[t].pc # "fill"
    <3>1. \A c \in Using : Ends(c, 0).pc # "fill" /\ Ends(c, -1).pc # "fill" /\ NextBlock(c).pc # "fill"
      BY UsingFacts DEF Using
    <3>3. \A c : Goto(t, c) => call'[t] = c
      BY DEF Goto, TypeOk
    <3>4. CASE Open(t)
      BY <2>1, <3>3, <3>4 DEF Open, Using
    <3>5. CASE Info(t)
      BY <2>1, <3>3, <3>5 DEF Info, Using
    <3>6. CASE Seek(t)
      BY <2>1, <3>1, <3>3, <3>6 DEF Seek, Using
    <3>7. CASE Transfer(t)
      BY <2>1, <3>3, <3>7 DEF Transfer, Ends, NextBlock, Using
    <3>8. CASE GiveUp(t)
      BY <2>1, <3>1, <3>3, <3>8 DEF GiveUp
    <3>9. CASE Close(t)
      BY <2>1, <3>3, <3>9 DEF Close, Using
    <3>10. CASE Return(t)
      BY <3>3, <3>10 DEF Return, Idle
    <3> QED
      BY <1>7, <3>4, <3>5, <3>6, <3>7, <3>8, <3>9, <3>10
  <2>4. \A u \in Threads \ {t} : call'[u] = call[u]
    BY <1>7 DEF Open, Info, Seek, Transfer, GiveUp, Close, Return, Goto, TypeOk
  <2> QED
    BY <2>2, <2>3, <2>4 DEF TableInv, TableFitsDevice, ctrl
<1> QED
  BY <1>1, <1>2, <1>3, <1>4, <1>5, <1>6, <1>7 DEF Next

\* The invariant holds, for any threads that initialise the library, use it and
\* shut it down in any order.
THEOREM TableInductive == Spec => []TableInv
<1>1. Init => TypeOk /\ TableInv
  BY TypeInit, TableInit
<1>2. (TypeOk /\ TableInv) /\ [Next]_vars => (TypeOk /\ TableInv)'
  BY TypeStep, TableStep
<1> QED
  BY <1>1, <1>2, PTL DEF Spec

\* Whoever sees the flag of dl_flash_init sees the complete table of the device.
THEOREM TableIsComplete == Spec => []TableFitsDevice
<1>1. TableInv => TableFitsDevice
  BY DEF TableInv
<1> QED
  BY <1>1, TableInductive, PTL

-----------------------------------------------------------------------------
(* Descriptors and places *)

\* Of which back end the table is, as long as the library is initialised.
LEMMA TableFacts ==
    ASSUME TypeOk, TableInv, isInit, NEW o \in Op
    PROVE  /\ device = "emmc" => ops[o] = "block" /\ blockSize # 0
           /\ device # "emmc" => ops[o] # "block" /\ ops[o] # "none"
BY DEF TypeOk, Device, TableInv, TableFitsDevice, Driver, NandDriver, NorDriver

\* A step of the call to its next record, or to no call at all
LEMMA GotoFacts ==
    ASSUME TypeOk, NEW t \in Threads, NEW c, Goto(t, c)
    PROVE  call'[t] = c /\ \A u \in Threads \ {t} : call'[u] = call[u]
BY DEF TypeOk, Goto

\* The fields of a record after the end of the loop, or after one turn of it.
LEMMA LoopFacts ==
    ASSUME NEW c \in Using
    PROVE  /\ \A r \in {0, -1} :
                 /\ Ends(c, r).pc = "close" /\ Ends(c, r).ret = r
                 /\ Ends(c, r).use = c.use /\ Ends(c, r).part = c.part /\ Ends(c, r).last = c.last
                 /\ Ends(c, r).at = c.at /\ Ends(c, r).fd = c.fd /\ Ends(c, r).done = c.done
           /\ c.at < c.last => /\ NextBlock(c).pc = "seek" /\ NextBlock(c).at = c.at + 1
                               /\ NextBlock(c).use = c.use /\ NextBlock(c).part = c.part
                               /\ NextBlock(c).last = c.last /\ NextBlock(c).fd = c.fd
                               /\ NextBlock(c).done = c.done /\ NextBlock(c).ret = c.ret
           /\ ~(c.at < c.last) => NextBlock(c) = Ends(c, 0)
           /\ c.at \in Nat /\ c.last \in Nat
BY DEF Using, Ends, NextBlock, Block

\* What a step of one call has to leave alone for the other calls to be unharmed.
LEMMA UseFrame ==
    ASSUME UseInv, ~raced, NEW t \in Threads,
           UNCHANGED <<device, raced>>, isInit => isInit',
           \A u \in Threads \ {t} : call'[u] = call[u],
           HoldsOwn(call[t])', KeepsToPart(call[t])',
           \A d \in Descriptors :
              \/ file'[d] = file[d] /\ pos'[d] = pos[d]
              \/ \A u \in Threads \ {t} : Holding(call[u]) => call[u].fd # d,
           Holding(call'[t]) /\ device = "emmc" =>
              \A u \in Threads \ {t} : Holding(call[u]) => call[u].fd # call'[t].fd,
           \A d \in Descriptors : file'[d] # Closed =>
              \/ Holding(call'[t]) /\ call'[t].fd = d
              \/ file[d] # Closed /\ ~(Holding(call[t]) /\ call[t].fd = d)
    PROVE  UseInv'
<1>1. ASSUME NEW u \in Threads \ {t}
      PROVE  HoldsOwn(call[u])' /\ KeepsToPart(call[u])'
  <2>1. call'[u] = call[u] /\ HoldsOwn(call[u]) /\ KeepsToPart(call[u])
    BY DEF UseInv
  <2>2. HoldsOwn(call[u])'
    BY <2>1 DEF HoldsOwn, Holding, IsOpen
  <2>3. call[u].pc = "transfer" => pos'[call[u].fd] = call[u].at
    BY <2>1 DEF HoldsOwn, KeepsToPart, Holding, IsOpen
  <2>4. KeepsToPart(call[u])'
    BY <2>1, <2>3 DEF KeepsToPart
  <2> QED
    BY <2>2, <2>4
<1>2. ASSUME NEW v \in Threads, NEW u \in Threads, v # u, device' = "emmc",
             Holding(call'[v]), Holding(call'[u])
      PROVE  call'[v].fd # call'[u].fd
  <2>1. CASE v # t /\ u # t
    BY <1>2, <2>1 DEF UseInv
  <2>2. CASE v = t \/ u = t
    BY <1>2, <2>2
  <2> QED
    BY <2>1, <2>2
<1>3. ASSUME NEW d \in Descriptors, file'[d] # Closed
      PROVE  \E u \in Threads : Holding(call'[u]) /\ call'[u].fd = d
  <2>1. CASE Holding(call'[t]) /\ call'[t].fd = d
    BY <2>1
  <2>2. CASE file[d] # Closed /\ ~(Holding(call[t]) /\ call[t].fd = d)
    <3>1. PICK u \in Threads : Holding(call[u]) /\ call[u].fd = d
      BY <2>2 DEF UseInv
    <3>2. call'[u] = call[u]
      BY <2>2, <3>1
    <3> QED
      BY <3>1, <3>2
  <2> QED
    BY <1>3, <2>1, <2>2
<1>4. \A v \in Threads : HoldsOwn(call[v])' /\ KeepsToPart(call[v])'
  BY <1>1
<1> QED
  BY <1>2, <1>3, <1>4 DEF UseInv

\* A step that opens and closes nothing, and moves no position but its own.
LEMMA UseKept ==
    ASSUME UseInv, ~raced, NEW t \in Threads,
           UNCHANGED <<device, raced, file>>, isInit => isInit',
           \A u \in Threads \ {t} : call'[u] = call[u],
           HoldsOwn(call[t])', KeepsToPart(call[t])',
           \/ ~Holding(call[t]) /\ ~Holding(call'[t]) /\ pos' = pos
           \/ /\ Holding(call[t]) /\ Holding(call'[t]) /\ call'[t].fd = call[t].fd
              /\ pos' = pos \/ /\ device = "emmc"
                               /\ \A d \in Descriptors \ {call[t].fd} : pos'[d] = pos[d]
    PROVE  UseInv'
<1>1. \A u \in Threads \ {t} : Holding(call[t]) /\ device = "emmc" /\ Holding(call[u])
                                  => call[u].fd # call[t].fd
  BY DEF UseInv
<1>2. \A d \in Descriptors : file'[d] # Closed =>
         \/ Holding(call'[t]) /\ call'[t].fd = d
         \/ file[d] # Closed /\ ~(Holding(call[t]) /\ call[t].fd = d)
  OBVIOUS
<1> QED
  BY <1>1, <1>2, UseFrame

\* No step takes a descriptor from its thread, or a place from its descriptor.
LEMMA NextUse ==
    TypeOk /\ TableInv /\ GeometryIsOfBlocks /\ UseInv /\ [Next]_vars => UseInv'
<1> SUFFICES ASSUME TypeOk, TableInv, GeometryIsOfBlocks, UseInv, [Next]_vars, ~raced'
             PROVE  UseInv'
  BY DEF UseInv
<1> USE DEF ctrl, table
<1>1. CASE UNCHANGED vars
  BY <1>1 DEF vars, UseInv, HoldsOwn, KeepsToPart, Holding, IsOpen
<1>2. ASSUME NEW t \in Threads, InitStart(t) \/ InitCheck(t) \/ Fill(t)
      PROVE  UseInv'
  <2>1. /\ UNCHANGED <<device, raced, file, pos>>
        /\ isInit => isInit'
        /\ \A u \in Threads \ {t} : call'[u] = call[u]
        /\ call[t].pc \in {"idle", "init", "fill"}
    BY <1>2 DEF InitStart, InitCheck, Fill, Goto, TypeOk
  <2>2. call'[t].pc \in {"idle", "init", "fill"}
    <3>1. CASE InitStart(t) \/ InitCheck(t)
      BY <3>1, GotoFacts DEF InitStart, InitCheck, Idle
    <3>2. CASE Fill(t)
      <4>1. call[t] \in Initialising /\ call'[t] = AfterStore(call[t])
        BY <3>2, CallFacts, GotoFacts DEF Fill
      <4> QED
        BY <3>2, <4>1 DEF Fill, AfterStore, Initialising, Idle
    <3> QED
      BY <1>2, <3>1, <3>2
  <2>3. HoldsOwn(call[t])' /\ KeepsToPart(call[t])'
    BY <2>2 DEF HoldsOwn, KeepsToPart, Holding
  <2>4. ~Holding(call[t]) /\ ~Holding(call'[t])
    BY <2>1, <2>2 DEF Holding
  <2> QED
    BY <2>1, <2>3, <2>4, UseKept
<1>3. ASSUME NEW t \in Threads, Deinit(t)
      PROVE  UseInv'
  <2>1. \A u \in Threads : call[u].pc \in {"idle", "init", "fill"} /\ call'[u] = call[u]
    BY <1>3 DEF Deinit
  <2>2. UNCHANGED <<device, file, pos>> /\ ~raced
    BY <1>3 DEF Deinit
  <2>3. \A u \in Threads : HoldsOwn(call[u])' /\ KeepsToPart(call[u])' /\ ~Holding(call[u])
    BY <2>1 DEF HoldsOwn, KeepsToPart, Holding
  <2> QED
    BY <2>1, <2>2, <2>3 DEF UseInv
<1>4. ASSUME NEW t \in Threads, NEW use \in Use, NEW part \in Partitions, NEW last \in Block,
             Begin(t, use, part, last)
      PROVE  UseInv'
  <2>1. /\ call'[t] = [pc |-> "open", use |-> use, part |-> part, last |-> last, at |-> 0,
                       fd |-> StubDescriptor, ret |-> -1, done |-> {}]
        /\ \A u \in Threads \ {t} : call'[u] = call[u]
    BY <1>4, GotoFacts DEF Begin
  <2>2. HoldsOwn(call[t])' /\ KeepsToPart(call[t])'
    BY <2>1 DEF HoldsOwn, KeepsToPart, Holding, Block
  <2>3. ~Holding(call[t]) /\ ~Holding(call'[t])
    BY <1>4, <2>1 DEF Begin, Holding
  <2> QED
    BY <1>4, <2>1, <2>2, <2>3, UseKept DEF Begin
<1>5. ASSUME NEW t \in Threads, Open(t)
      PROVE  UseInv'
  <2>1. /\ call[t] \in Using /\ call[t].pc = "open" /\ ~Holding(call[t])
        /\ UNCHANGED <<device, isInit, raced>> /\ KeepsToPart(call[t])
    BY <1>5, CallFacts DEF Open, UsingPc, Holding, UseInv
  <2>2. CASE Goto(t, [call[t] EXCEPT !.pc = "return"]) /\ UNCHANGED table
    <3>1. call'[t] = [call[t] EXCEPT !.pc = "return"] /\ \A u \in Threads \ {t} : call'[u] = call[u]
      BY <2>2, GotoFacts
    <3>2. /\ call'[t].pc = "return" /\ call'[t].at = call[t].at /\ call'[t].last = call[t].last
          /\ call'[t].done = call[t].done /\ call'[t].part = call[t].part
          /\ call'[t].use = call[t].use /\ call'[t].ret = call[t].ret
      BY <2>1, <3>1 DEF Using
    <3>3. HoldsOwn(call[t])' /\ KeepsToPart(call[t])'
      BY <2>1, <3>2 DEF HoldsOwn, KeepsToPart, Holding
    <3> QED
      BY <2>1, <2>2, <3>1, <3>2, <3>3, UseKept DEF Holding
  <2>3. ASSUME ~Refused("open"), NEW d, NEW pc,
               pc = IF call[t].use = "image" THEN "info" ELSE "seek",
               Goto(t, [call[t] EXCEPT !.fd = d, !.pc = pc]),
               \/ ops["open"] # "block" /\ d = StubDescriptor /\ UNCHANGED table
               \/ ops["open"] = "block" /\ d \in Descriptors /\ BlockOpen(call[t].part, d)
        PROVE  UseInv'
    <3>1. /\ call'[t] = [call[t] EXCEPT !.fd = d, !.pc = pc]
          /\ \A u \in Threads \ {t} : call'[u] = call[u]
      BY <2>3, GotoFacts
    <3>2. /\ call'[t].pc = pc /\ call'[t].fd = d
          /\ call'[t].at = call[t].at /\ call'[t].last = call[t].last
          /\ call'[t].done = call[t].done /\ call'[t].part = call[t].part
          /\ call'[t].use = call[t].use /\ call'[t].ret = call[t].ret
      BY <2>1, <3>1 DEF Using
    <3>3. isInit /\ (device = "emmc" <=> ops["open"] = "block")
      BY <2>3, TableFacts DEF Refused, Op
    <3>4. pc \in {"info", "seek"} /\ (pc = "seek" => call[t].use # "image")
      BY <2>3
    <3>5. CASE ops["open"] # "block"
      <4>1. StubDescriptor \notin Descriptors
        BY DescriptorAssumption DEF StubDescriptor
      <4>2. HoldsOwn(call[t])' /\ KeepsToPart(call[t])'
        BY <2>1, <2>3, <3>2, <3>3, <3>4, <3>5, <4>1 DEF HoldsOwn, KeepsToPart
      <4> QED
        BY <2>1, <2>3, <3>1, <3>2, <3>3, <3>5, <4>1, <4>2, UseFrame
    <3>6. CASE ops["open"] = "block"
      <4>1. /\ d \in Descriptors /\ file[d] = Closed
            /\ file'[d] = call[t].part
            /\ \A e \in Descriptors \ {d} : file'[e] = file[e] /\ pos'[e] = pos[e]
        BY <2>3, <3>6 DEF BlockOpen, TypeOk
      <4>2. call[t].part \in Partitions
        BY <2>1 DEF Using
      <4>3. \A u \in Threads \ {t} : Holding(call[u]) => call[u].fd # d
        <5> SUFFICES ASSUME NEW u \in Threads \ {t}, Holding(call[u]), call[u].fd = d
                     PROVE  FALSE
          OBVIOUS
        <5>1. HoldsOwn(call[u])
          BY <2>1 DEF UseInv
        <5> QED
          BY <3>3, <3>6, <4>1, <5>1 DEF HoldsOwn, IsOpen
      <4>4. call[t].at = 0
        BY <2>1 DEF KeepsToPart
      <4>5. HoldsOwn(call[t])' /\ KeepsToPart(call[t])'
        <5>1. HoldsOwn(call[t])'
          BY <2>1, <2>3, <3>2, <3>3, <3>4, <3>6, <4>1, <4>2, PartitionAssumption DEF HoldsOwn, IsOpen
        <5>2. KeepsToPart(call[t])'
          BY <2>1, <2>3, <3>2, <3>4, <4>4 DEF KeepsToPart
        <5> QED
          BY <5>1, <5>2
      <4> QED
        <5>1. Holding(call'[t])
          BY <2>3, <3>2, <3>4 DEF Holding
        <5>2. \A e \in Descriptors : file'[e] # Closed =>
                 \/ Holding(call'[t]) /\ call'[t].fd = e
                 \/ file[e] # Closed /\ ~(Holding(call[t]) /\ call[t].fd = e)
          BY <2>1, <3>2, <4>1, <5>1
        <5>3. \A e \in Descriptors :
                 \/ file'[e] = file[e] /\ pos'[e] = pos[e]
                 \/ \A u \in Threads \ {t} : Holding(call[u]) => call[u].fd # e
          BY <4>1, <4>3
        <5>4. \A u \in Threads \ {t} : Holding(call[u]) => call[u].fd # call'[t].fd
          BY <3>2, <4>3
        <5> HIDE DEF UseInv
        <5> QED
          BY <2>1, <3>1, <4>5, <5>2, <5>3, <5>4, UseFrame
    <3> QED
      BY <3>5, <3>6
  <2>4. \/ Goto(t, [call[t] EXCEPT !.pc = "return"]) /\ UNCHANGED table
        \/ /\ ~Refused("open")
           /\ \E d : \/ /\ ops["open"] # "block" /\ d = StubDescriptor /\ UNCHANGED table
                        /\ Goto(t, [call[t] EXCEPT !.fd = d,
                                      !.pc = IF call[t].use = "image" THEN "info" ELSE "seek"])
                     \/ /\ ops["open"] = "block" /\ d \in Descriptors /\ BlockOpen(call[t].part, d)
                        /\ Goto(t, [call[t] EXCEPT !.fd = d,
                                      !.pc = IF call[t].use = "image" THEN "info" ELSE "seek"])
    BY <1>5 DEF Open
  <2> QED
    BY <2>2, <2>3, <2>4
<1>6. ASSUME NEW t \in Threads, Info(t)
      PROVE  UseInv'
  <2>1. /\ call[t] \in Using /\ call[t].pc = "info" /\ HoldsOwn(call[t]) /\ KeepsToPart(call[t])
        /\ UNCHANGED <<device, isInit, raced, file, pos>>
    BY <1>6, CallFacts DEF Info, UsingPc, UseInv
  <2>2. isInit /\ (device = "emmc" <=> blockSize # 0)
    BY <2>1, TableFacts DEF HoldsOwn, Holding, Op, GeometryIsOfBlocks
  <2>3. /\ call'[t] = [call[t] EXCEPT !.pc = IF device = "emmc" THEN "seek" ELSE "giveup"]
        /\ \A u \in Threads \ {t} : call'[u] = call[u]
    BY <1>6, <2>2, GotoFacts DEF Info
  <2>4. /\ call'[t].pc = IF device = "emmc" THEN "seek" ELSE "giveup"
        /\ call'[t].at = call[t].at /\ call'[t].last = call[t].last
        /\ call'[t].done = call[t].done /\ call'[t].part = call[t].part
        /\ call'[t].use = call[t].use /\ call'[t].ret = call[t].ret /\ call'[t].fd = call[t].fd
    BY <2>1, <2>3 DEF Using
  <2>5. HoldsOwn(call[t])' /\ KeepsToPart(call[t])'
    BY <2>1, <2>4 DEF HoldsOwn, KeepsToPart, Holding, IsOpen
  <2> QED
    BY <2>1, <2>3, <2>4, <2>5, UseKept DEF Holding
<1>7. ASSUME NEW t \in Threads, Seek(t)
      PROVE  UseInv'
  <2> DEFINE c == call[t]
  <2>1. /\ c \in Using /\ c.pc = "seek" /\ HoldsOwn(c) /\ KeepsToPart(c)
        /\ UNCHANGED <<device, isInit, raced, file>>
        /\ Holding(c) /\ isInit
    BY <1>7, CallFacts DEF Seek, UsingPc, UseInv, HoldsOwn, Holding
  <2>2. \/ call'[t] = Ends(c, -1) /\ pos' = pos
        \/ ops[Verb(c)] # "block" /\ call'[t] = NextBlock(c) /\ pos' = pos
        \/ /\ ops[Verb(c)] = "block" /\ IsOpen(c.fd) /\ pos' = [pos EXCEPT ![c.fd] = c.at]
           /\ call'[t] = Ends(c, -1) \/ call'[t] = [c EXCEPT !.pc = "transfer"]
    BY <1>7, GotoFacts DEF Seek
  <2>3. \A u \in Threads \ {t} : call'[u] = call[u]
    BY <1>7, GotoFacts DEF Seek
  <2>4. device = "emmc" <=> ops[Verb(c)] = "block"
    BY <2>1, TableFacts DEF Verb, Op
  <2>5. CASE call'[t] = Ends(c, -1)
    <3>1. HoldsOwn(call[t])' /\ KeepsToPart(call[t])'
      BY <2>1, <2>5, LoopFacts DEF HoldsOwn, KeepsToPart, Holding, IsOpen
    <3> QED
      BY <2>1, <2>2, <2>3, <2>4, <2>5, <3>1, LoopFacts, UseKept DEF Holding, IsOpen, TypeOk
  <2>6. CASE ops[Verb(c)] # "block" /\ call'[t] = NextBlock(c) /\ pos' = pos
    <3>1. device # "emmc" /\ c.use # "image"
      BY <2>1, <2>4, <2>6 DEF HoldsOwn
    <3>2. HoldsOwn(call[t])' /\ KeepsToPart(call[t])'
      BY <2>1, <2>6, <3>1, LoopFacts DEF HoldsOwn, KeepsToPart, Holding
    <3> QED
      BY <2>1, <2>3, <2>6, <3>2, LoopFacts, UseKept DEF Holding
  <2>7. CASE /\ ops[Verb(c)] = "block" /\ IsOpen(c.fd) /\ pos' = [pos EXCEPT ![c.fd] = c.at]
             /\ call'[t] = [c EXCEPT !.pc = "transfer"]
    <3>1. /\ call'[t].pc = "transfer"
          /\ call'[t].at = c.at /\ call'[t].last = c.last /\ call'[t].done = c.done
          /\ call'[t].part = c.part /\ call'[t].use = c.use /\ call'[t].ret = c.ret
          /\ call'[t].fd = c.fd
      BY <2>1, <2>7 DEF Using
    <3>2. pos'[c.fd] = c.at /\ \A d \in Descriptors \ {c.fd} : pos'[d] = pos[d]
      BY <2>7 DEF TypeOk, IsOpen
    <3>3. HoldsOwn(call[t])' /\ KeepsToPart(call[t])'
      BY <2>1, <2>4, <2>7, <3>1, <3>2 DEF HoldsOwn, KeepsToPart, Holding, IsOpen
    <3> QED
      BY <2>1, <2>3, <2>4, <2>7, <3>1, <3>2, <3>3, UseKept DEF Holding
  <2> QED
    BY <2>2, <2>5, <2>6, <2>7
<1>8. ASSUME NEW t \in Threads, Transfer(t)
      PROVE  UseInv'
  <2> DEFINE c == call[t]
  <2>1. /\ c \in Using /\ c.pc = "transfer" /\ HoldsOwn(c) /\ KeepsToPart(c)
        /\ UNCHANGED <<device, isInit, raced, file>>
        /\ Holding(c) /\ isInit /\ device = "emmc" /\ IsOpen(c.fd) /\ file[c.fd] = c.part
    BY <1>8, CallFacts DEF Transfer, UsingPc, UseInv, HoldsOwn, Holding
  <2>2. \A u \in Threads \ {t} : call'[u] = call[u]
    BY <1>8, GotoFacts DEF Transfer
  <2>3. CASE call'[t] = Ends(c, -1) /\ pos' = pos
    <3>1. HoldsOwn(call[t])' /\ KeepsToPart(call[t])'
      BY <2>1, <2>3, LoopFacts DEF HoldsOwn, KeepsToPart, Holding, IsOpen
    <3> QED
      BY <2>1, <2>2, <2>3, <3>1, LoopFacts, UseKept DEF Holding
  <2>4. CASE /\ pos' = [pos EXCEPT ![c.fd] = @ + 1]
             /\ call'[t] = NextBlock([c EXCEPT !.done = @ \union {<<file[c.fd], pos[c.fd]>>}])
    <3> DEFINE d == [c EXCEPT !.done = @ \union {<<file[c.fd], pos[c.fd]>>}]
    <3>1. <<file[c.fd], pos[c.fd]>> = <<c.part, c.at>> /\ <<c.part, c.at>> \in Partitions \X Nat
      BY <2>1 DEF KeepsToPart, Using, Block
    <3>2. d \in Using
      BY <2>1, <3>1, UsingFacts
    <3>3. /\ d.pc = c.pc /\ d.at = c.at /\ d.last = c.last /\ d.part = c.part /\ d.use = c.use
          /\ d.ret = c.ret /\ d.fd = c.fd /\ d.done = c.done \union {<<c.part, c.at>>}
      BY <2>1, <3>1 DEF Using
    <3>4. \A e \in Descriptors \ {c.fd} : pos'[e] = pos[e]
      BY <2>4 DEF TypeOk
    <3>5. d.at <= d.last /\ d.at \in Nat /\ d.last \in Nat /\ d.ret = -1
      BY <2>1, <3>2, <3>3, LoopFacts DEF KeepsToPart
    <3>6. /\ d.done \subseteq {d.part} \X (0 .. d.last)
          /\ {d.part} \X (0 .. d.at) \subseteq d.done
      <4>1. c.done \subseteq {d.part} \X (0 .. d.last) /\ {d.part} \X (0 .. (d.at - 1)) \subseteq c.done
        BY <2>1, <3>3 DEF KeepsToPart
      <4>2. <<c.part, c.at>> \in {d.part} \X (0 .. d.last)
        BY <3>3, <3>5
      <4>3. \A k \in 0 .. d.at : k = d.at \/ k \in 0 .. (d.at - 1)
        BY <3>5
      <4> QED
        BY <3>3, <4>1, <4>2, <4>3
    <3> HIDE DEF d
    <3>7. call'[t] = NextBlock(d)
      BY <2>4 DEF d
    <3>8. CASE d.at < d.last
      <4>1. /\ call'[t].pc = "seek" /\ call'[t].at = d.at + 1 /\ call'[t].use = d.use
            /\ call'[t].part = d.part /\ call'[t].last = d.last /\ call'[t].fd = d.fd
            /\ call'[t].done = d.done /\ call'[t].ret = d.ret
        BY <3>2, <3>7, <3>8, LoopFacts
      <4>2. d.at + 1 - 1 = d.at /\ d.at + 1 <= d.last
        BY <3>5, <3>8
      <4>3. HoldsOwn(call[t])' /\ KeepsToPart(call[t])'
        BY <2>1, <3>3, <3>5, <3>6, <4>1, <4>2 DEF HoldsOwn, KeepsToPart, Holding, IsOpen
      <4> QED
        BY <2>1, <2>2, <3>3, <3>4, <4>1, <4>3, UseKept DEF Holding
    <3>9. CASE ~(d.at < d.last)
      <4>1. d.at = d.last
        BY <3>5, <3>9
      <4>2. /\ call'[t].pc = "close" /\ call'[t].at = d.at /\ call'[t].use = d.use
            /\ call'[t].part = d.part /\ call'[t].last = d.last /\ call'[t].fd = d.fd
            /\ call'[t].done = d.done /\ call'[t].ret = 0
        BY <3>2, <3>7, <3>9, LoopFacts
      <4>3. HoldsOwn(call[t])' /\ KeepsToPart(call[t])'
        BY <2>1, <3>3, <3>5, <3>6, <4>1, <4>2 DEF HoldsOwn, KeepsToPart, Holding, IsOpen
      <4> QED
        BY <2>1, <2>2, <3>3, <3>4, <4>2, <4>3, UseKept DEF Holding
    <3> QED
      BY <3>8, <3>9
  <2> QED
    BY <1>8, <2>3, <2>4, GotoFacts DEF Transfer
<1>9. ASSUME NEW t \in Threads, GiveUp(t)
      PROVE  UseInv'
  <2> DEFINE c == call[t]
  <2>1. /\ c \in Using /\ c.pc = "giveup" /\ HoldsOwn(c) /\ KeepsToPart(c)
        /\ UNCHANGED <<device, isInit, raced, pos>>
        /\ Holding(c) /\ isInit /\ device # "emmc"
    BY <1>9, CallFacts DEF GiveUp, UsingPc, UseInv, HoldsOwn, Holding
  <2>2. call'[t] = Ends(c, -1) /\ \A u \in Threads \ {t} : call'[u] = call[u]
    BY <1>9, GotoFacts DEF GiveUp
  <2>3. file' = file
    BY <1>9, <2>1, TableFacts DEF GiveUp, CloseDescriptor, Op
  <2>4. HoldsOwn(call[t])' /\ KeepsToPart(call[t])'
    BY <2>1, <2>2, <2>3, LoopFacts DEF HoldsOwn, KeepsToPart, Holding, IsOpen
  <2> QED
    BY <2>1, <2>2, <2>3, <2>4, LoopFacts, UseKept DEF Holding
<1>10. ASSUME NEW t \in Threads, Close(t)
       PROVE  UseInv'
  <2> DEFINE c == call[t]
  <2>1. /\ c \in Using /\ c.pc = "close" /\ HoldsOwn(c) /\ KeepsToPart(c)
        /\ UNCHANGED <<device, isInit, raced, pos>>
        /\ Holding(c) /\ isInit
    BY <1>10, CallFacts DEF Close, UsingPc, UseInv, HoldsOwn, Holding
  <2>2. call'[t] = [c EXCEPT !.pc = "return"] /\ \A u \in Threads \ {t} : call'[u] = call[u]
    BY <1>10, GotoFacts DEF Close
  <2>3. /\ call'[t].pc = "return"
        /\ call'[t].at = c.at /\ call'[t].last = c.last /\ call'[t].done = c.done
        /\ call'[t].part = c.part /\ call'[t].use = c.use /\ call'[t].ret = c.ret
    BY <2>1, <2>2 DEF Using
  <2>4. HoldsOwn(call[t])' /\ KeepsToPart(call[t])' /\ ~Holding(call'[t])
    BY <2>1, <2>3 DEF HoldsOwn, KeepsToPart, Holding
  <2>5. CASE device # "emmc"
    <3>1. file' = file
      BY <1>10, <2>1, <2>5, TableFacts DEF Close, CloseDescriptor, Op
    <3>2. c.fd \notin Descriptors
      BY <2>1, <2>5 DEF HoldsOwn
    <3> QED
      BY <2>1, <2>2, <2>4, <3>1, <3>2, UseFrame
  <2>6. CASE device = "emmc"
    <3>1. ops["close"] = "block" /\ ~Refused("close") /\ IsOpen(c.fd)
      BY <2>1, <2>6, TableFacts DEF HoldsOwn, Refused, Op
    <3>2. file' = [file EXCEPT ![c.fd] = Closed]
      BY <1>10, <3>1 DEF Close, CloseDescriptor, BlockClose
    <3>3. /\ file'[c.fd] = Closed
          /\ \A d \in Descriptors \ {c.fd} : file'[d] = file[d]
      BY <3>1, <3>2 DEF TypeOk, IsOpen
    <3>4. \A u \in Threads \ {t} : Holding(call[u]) => call[u].fd # c.fd
      BY <2>1, <2>6 DEF UseInv
    <3>5. \A d \in Descriptors : file'[d] # Closed => file[d] # Closed /\ d # c.fd
      BY <3>3
    <3> QED
      BY <2>1, <2>2, <2>4, <3>3, <3>4, <3>5, UseFrame
  <2> QED
    BY <2>5, <2>6
<1>11. ASSUME NEW t \in Threads, Return(t)
       PROVE  UseInv'
  <2>1. /\ call[t].pc = "return" /\ call'[t] = Idle /\ \A u \in Threads \ {t} : call'[u] = call[u]
        /\ UNCHANGED <<device, isInit, raced, file, pos>>
    BY <1>11, GotoFacts DEF Return
  <2>2. HoldsOwn(call[t])' /\ KeepsToPart(call[t])' /\ ~Holding(call[t]) /\ ~Holding(call'[t])
    BY <2>1 DEF HoldsOwn, KeepsToPart, Holding, Idle
  <2> QED
    BY <2>1, <2>2, UseKept
<1> QED
  BY <1>1, <1>2, <1>3, <1>4, <1>5, <1>6, <1>7, <1>8, <1>9, <1>10, <1>11 DEF Next

\* The geometry is set on eMMC only, and never cleared.
LEMMA GeometryStep == GeometryIsOfBlocks /\ [Next]_vars => GeometryIsOfBlocks'
BY DEF GeometryIsOfBlocks, Next, vars, ctrl, InitStart, InitCheck, Fill, Deinit, Begin, Open, Info,
       Seek, Transfer, GiveUp, Close, Return

\* Nobody holds a descriptor before the first call.
LEMMA UseInit == Init => UseInv /\ GeometryIsOfBlocks
BY DEF Init, UseInv, GeometryIsOfBlocks, HoldsOwn, KeepsToPart, Holding, Idle

\* Who has opened a partition has a descriptor of its own and keeps to the blocks
\* it was asked for, as long as the library is not shut down under it.
THEOREM UseInductive == Spec => []UseInv
<1> DEFINE AllInv == TypeOk /\ TableInv /\ GeometryIsOfBlocks /\ UseInv
<1>1. Init => AllInv
  BY TypeInit, TableInit, UseInit
<1>2. AllInv /\ [Next]_vars => AllInv'
  BY TypeStep, TableStep, GeometryStep, NextUse
<1>3. AllInv => UseInv
  OBVIOUS
<1> QED
  BY <1>1, <1>2, <1>3, PTL DEF Spec

\* No thread loses its descriptor to the second close of dl_upgrade.c:140 and
\* :213, nor to another thread, however many there are.
THEOREM DescriptorStays == Spec => []DescriptorKept
<1>1. UseInv => DescriptorKept
  <2> SUFFICES ASSUME UseInv, ~raced, device = "emmc", NEW t \in Threads, Holding(call[t])
               PROVE  /\ IsOpen(call[t].fd) /\ file[call[t].fd] = call[t].part
                      /\ \A u \in Threads \ {t} : Holding(call[u]) => call[u].fd # call[t].fd
    BY DEF DescriptorKept, Holding
  <2> QED
    BY DEF UseInv, HoldsOwn
<1> QED
  BY <1>1, UseInductive, PTL

\* Every place read or written is one the call was asked for, for images of any
\* length and any range of the int the offset is kept in (emmc_flash.c:42-48).
THEOREM NothingIsAstray == Spec => []NothingAstray
<1>1. UseInv => NothingAstray
  BY DEF UseInv, KeepsToPart, NothingAstray
<1> QED
  BY <1>1, UseInductive, PTL

\* An image written without an error is on the partition to its last block
\* (dl_upgrade.c:138), whatever flash the device has.
THEOREM SuccessMeansComplete == Spec => []SuccessIsComplete
<1>1. UseInv => SuccessIsComplete
  BY DEF UseInv, KeepsToPart, SuccessIsComplete
<1> QED
  BY <1>1, UseInductive, PTL

\* Once every call has returned, or has not opened anything yet, no descriptor
\* is left open, error paths included (dl_upgrade.c:213).
THEOREM NothingIsLeaked == Spec => []NothingLeaks
<1>1. UseInv => NothingLeaks
  BY DEF UseInv, Holding, NothingLeaks
<1> QED
  BY <1>1, UseInductive, PTL
=============================================================================
