--------------------------- MODULE UpgradeProofs ---------------------------
(***************************************************************************)
(* Theorems about Upgrade for every set of threads and packets and every   *)
(* set of faults a theorem does not exclude, checked by TLAPS.             *)
(***************************************************************************)
EXTENDS Upgrade, AbMetaProofs

-----------------------------------------------------------------------------
(* The records of calls *)

WorkingPc == {"unpack", "sync", "part", "write", "fsync", "close", "switch"}
OtherPc == WorkingPc \ {"write"}

\* rk_upgrade_packet has three partitions to write, in the order of PartName.
LEMMA PartFacts ==
    /\ DOMAIN PartName = 1 .. 3 /\ Len(PartName) = 3
    /\ \A i \in 1 .. 3 : PartName[i] \in Part
BY DEF PartName, Part

\* The program counter of a call tells which of its records it is in.
LEMMA CallFacts ==
    ASSUME TypeOk, NEW t \in Threads
    PROVE  /\ call[t].pc \in WorkingPc => call[t] \in Working
           /\ call[t].pc = "switch_write" => call[t] \in Switching
           /\ call[t].pc = "publish" => call[t] \in Publishing
BY DEF TypeOk, Idle, Working, Switching, Publishing, WorkingPc

\* A call that works through its packet stays a well-formed record when its
\* program counter, its result, or its place in the loop changes.
LEMMA WorkingFacts ==
    ASSUME NEW c \in Working
    PROVE  /\ \A pc \in OtherPc : [c EXCEPT !.pc = pc] \in Working
           /\ NextPart(c) \in Working
           /\ \A e \in {"success", "failure"} : Publish(c, e) \in Publishing
           /\ PartName[c.part] \in Part /\ Other(c.slot) \in Slot
<1>1. \A pc \in OtherPc : [c EXCEPT !.pc = pc] \in Working
  BY DEF Working, WorkingPc, OtherPc
<1>2. NextPart(c) \in Working
  <2>1. ASSUME NEW d \in Working, d.pc # "write"
        PROVE  /\ [d EXCEPT !.img = Absent] \in Working
               /\ [d EXCEPT !.blk = 1] \in Working
               /\ \A i \in 1 .. 3 : [d EXCEPT !.part = i] \in Working
    <3>1. [d EXCEPT !.img = Absent] \in Working
      BY <2>1 DEF Working
    <3>2. [d EXCEPT !.blk = 1] \in Working
      BY <2>1 DEF Working
    <3>3. ASSUME NEW i \in 1 .. 3 PROVE [d EXCEPT !.part = i] \in Working
      BY <2>1, PartFacts DEF Working
    <3> QED
      BY <3>1, <3>2, <3>3
  <2>2. ASSUME NEW d \in Working, d.pc # "write"
        PROVE  [d EXCEPT !.img = Absent, !.blk = 1] \in Working
    <3>1. [d EXCEPT !.img = Absent] \in Working /\ [d EXCEPT !.img = Absent].pc # "write"
      BY <2>1, <2>2 DEF Working
    <3> QED
      BY <2>1, <3>1
  <2>3. CASE c.part < 3
    <3>1. c.part + 1 \in 1 .. 3
      BY <2>3, PartFacts DEF Working
    <3>2. [c EXCEPT !.pc = "part"] \in Working /\ [c EXCEPT !.pc = "part"].pc = "part"
      BY <1>1 DEF WorkingPc, OtherPc, Working
    <3>3. /\ [c EXCEPT !.pc = "part", !.part = c.part + 1] \in Working
          /\ [c EXCEPT !.pc = "part", !.part = c.part + 1].pc = "part"
      BY <2>1, <3>1, <3>2 DEF Working
    <3>4. NextPart(c) = [c EXCEPT !.pc = "part", !.part = c.part + 1, !.img = Absent, !.blk = 1]
      BY <2>3, PartFacts DEF NextPart
    <3> QED
      BY <2>2, <3>3, <3>4
  <2>4. CASE ~(c.part < 3)
    <3>1. [c EXCEPT !.pc = "switch"] \in Working /\ [c EXCEPT !.pc = "switch"].pc = "switch"
      BY <1>1 DEF WorkingPc, OtherPc, Working
    <3>2. NextPart(c) = [c EXCEPT !.pc = "switch", !.img = Absent, !.blk = 1]
      BY <2>4, PartFacts DEF NextPart
    <3> QED
      BY <2>2, <3>1, <3>2
  <2> QED
    BY <2>3, <2>4
<1>3. \A e \in {"success", "failure"} : Publish(c, e) \in Publishing
  BY DEF Working, Publishing, Publish
<1>4. PartName[c.part] \in Part /\ Other(c.slot) \in Slot
  BY PartFacts DEF Working, Other, Slot
<1> QED
  BY <1>1, <1>2, <1>3, <1>4
-----------------------------------------------------------------------------
(* Type correctness *)

Calls == {Idle} \union Working \union Switching \union Publishing

\* The initial state of a device is well-typed.
LEMMA InitTyped == Init => TypeOk
<1> SUFFICES ASSUME Init PROVE TypeOk
  OBVIOUS
<1>1. misc \in MetaData /\ disk \in MetaData
  BY FactoryTyped DEF Init
<1>2. flash \in [Slot -> [Part -> PartContent]]
  BY DEF Init, PartContent
<1> QED
  BY <1>1, <1>2 DEF Init, TypeOk, Slot, Image

\* Writing a block changes one partition of the target and, for threads that
\* write the same partition, what they will end with.
LEMMA WriteTyped ==
    ASSUME TypeOk, NEW t \in Threads, call[t].pc = "write",
           NEW c \in Working, AfterWrite(t, c)
    PROVE  /\ call' \in [Threads -> Calls]
           /\ \A content \in PartContent :
                 Store(t, content) => /\ cache' \in [Slot -> [Part -> PartContent]]
                                      /\ installed' \in [Slot -> Packets \union {Absent}]
<1>1. ASSUME NEW u \in Mixed(t) PROVE [call[u] EXCEPT !.img = Damaged] \in Working
  <2>1. call[u] \in Working
    BY CallFacts DEF Mixed, WorkingPc
  <2> QED
    BY <2>1, ContentAssumption DEF Working, Image
<1>2. call' \in [Threads -> Calls]
  BY <1>1 DEF AfterWrite, TypeOk, Calls
<1>3. Target(t) \in Slot /\ PartOf(t) \in Part
  BY CallFacts, WorkingFacts DEF Target, PartOf, WorkingPc
<1>4. ASSUME NEW content \in PartContent, Store(t, content)
      PROVE  /\ cache' \in [Slot -> [Part -> PartContent]]
             /\ installed' \in [Slot -> Packets \union {Absent}]
  <2>1. cache' \in [Slot -> [Part -> PartContent]]
    BY <1>3, <1>4 DEF Store, TypeOk
  <2>2. installed' \in [Slot -> Packets \union {Absent}]
    BY <1>3, <1>4 DEF Store, TypeOk
  <2> QED
    BY <2>1, <2>2
<1> QED
  BY <1>2, <1>4

\* No step of a call leaves the types.
LEMMA StepTyped ==
    ASSUME TypeOk, NEW t \in Threads, Step(t)
    PROVE  TypeOk'
<1> USE DEF At, Goto, meta, parts, files
<1>0. TypeOk /\ call \in [Threads -> Calls]
  BY DEF TypeOk, Calls
<1>a. ASSUME NEW c \in Calls, call' = [call EXCEPT ![t] = c],
             UNCHANGED <<running, meta, parts, files, isInit, result>>
      PROVE  TypeOk'
  BY <1>a DEF TypeOk, Calls
<1>b. /\ call[t].pc \in WorkingPc => call[t] \in Working
      /\ \A c \in Working : /\ \A pc \in OtherPc : [c EXCEPT !.pc = pc] \in Calls
                            /\ NextPart(c) \in Calls
                            /\ \A e \in {"success", "failure"} : Publish(c, e) \in Calls
  BY CallFacts, WorkingFacts DEF Calls
<1>1. CASE Unpack(t)
  <2>1. call[t] \in Working /\ call[t].packet \in Packets
    BY <1>1, <1>b DEF Unpack, WorkingPc, Working
  <2>2. call' \in [Threads -> Calls]
    BY <1>0, <1>1, <1>b, <2>1 DEF Unpack, WorkingPc, OtherPc
  <2>3. temp' \in [Part -> Image \union {Absent}]
    BY <1>1, <2>1 DEF Unpack, TypeOk, Image
  <2> QED
    BY <1>1, <2>2, <2>3 DEF Unpack, TypeOk, Calls
<1>2. CASE Sync(t)
  <2>1. call' \in [Threads -> Calls]
    BY <1>0, <1>2, <1>b DEF Sync, WorkingPc, OtherPc
  <2> QED
    BY <1>2, <2>1 DEF Sync, TypeOk, Calls
<1>3. CASE SkipPart(t)
  BY <1>3, <1>a, <1>b DEF SkipPart, WorkingPc
<1>4. CASE OpenPart(t)
  <2>1. /\ call[t] \in Working
        /\ temp[PartOf(t)] \in Image \union {Absent} /\ temp[PartOf(t)] # Absent
    BY <1>4, <1>b, WorkingFacts DEF OpenPart, WorkingPc, TypeOk, PartOf
  <2>2. [call[t] EXCEPT !.img = temp[PartOf(t)], !.pc = "write"] \in Working
    <3>1. ASSUME NEW d \in Working, NEW img \in Image, d.pc = "part"
          PROVE  /\ [d EXCEPT !.img = img] \in Working
                 /\ [d EXCEPT !.img = img].img = img
      BY <3>1 DEF Working
    <3>2. ASSUME NEW d \in Working, d.img # Absent
          PROVE  [d EXCEPT !.pc = "write"] \in Working
      BY <3>2 DEF Working
    <3> QED
      BY <1>4, <2>1, <3>1, <3>2 DEF OpenPart
  <2>3. [call[t] EXCEPT !.pc = "write", !.img = temp[PartOf(t)]]
           = [call[t] EXCEPT !.img = temp[PartOf(t)], !.pc = "write"]
    BY <2>1 DEF Working
  <2> QED
    BY <1>4, <1>a, <2>2, <2>3 DEF OpenPart, Calls
<1>5. CASE OpenPartFails(t)
  BY <1>5, <1>a, <1>b DEF OpenPartFails, WorkingPc
<1>6. CASE RejectImage(t)
  <2>1. call[t] \in Working
    BY <1>6, <1>b DEF RejectImage, WorkingPc
  <2>2. [call[t] EXCEPT !.pc = "close"] \in Working
    BY <2>1, WorkingFacts DEF WorkingPc, OtherPc
  <2>3. [call[t] EXCEPT !.pc = "close", !.ret = -1] \in Working
    BY <2>2 DEF Working
  <2>4. [call[t] EXCEPT !.pc = "close", !.ret = -1, !.broke = TRUE] \in Working
    BY <2>3 DEF Working
  <2> QED
    BY <1>6, <1>a, <2>4 DEF RejectImage, Calls
<1>7. CASE WriteBlock(t)
  <2>1. call[t] \in Working
    BY <1>7, <1>b DEF WriteBlock, WorkingPc
  <2>2. [call[t] EXCEPT !.blk = IF call[t].blk < 3 THEN call[t].blk + 1 ELSE 3] \in Working
    BY <2>1 DEF Working
  <2>3. Damaged \in PartContent
    BY DEF PartContent
  <2> QED
    BY <1>7, <2>2, <2>3, WriteTyped DEF WriteBlock, TypeOk, Calls
<1>8. CASE WriteLastBlock(t)
  <2>1. call[t] \in Working /\ call[t].pc = "write"
    BY <1>8, <1>b DEF WriteLastBlock, WorkingPc
  <2>2. [call[t] EXCEPT !.pc = "fsync"] \in Working
    BY <2>1, WorkingFacts DEF WorkingPc, OtherPc
  <2>3. call[t].img \in PartContent /\ Damaged \in PartContent
    BY <2>1 DEF Working, Image, PartContent
  <2>4. PICK content \in PartContent : Store(t, content)
    BY <1>8, <2>3 DEF WriteLastBlock
  <2> QED
    BY <1>8, <2>1, <2>2, <2>4, WriteTyped DEF WriteLastBlock, TypeOk, Calls
<1>9. CASE WriteFails(t)
  <2>1. call[t] \in Working /\ call[t].pc = "write"
    BY <1>9, <1>b DEF WriteFails, WorkingPc
  <2>2. [call[t] EXCEPT !.pc = "fsync"] \in Working
    BY <2>1, WorkingFacts DEF WorkingPc, OtherPc
  <2>3. [call[t] EXCEPT !.pc = "fsync", !.ret = -1] \in Working
    BY <2>2 DEF Working
  <2>4. [call[t] EXCEPT !.pc = "fsync", !.ret = -1, !.broke = TRUE] \in Working
    BY <2>3 DEF Working
  <2>5. Damaged \in PartContent
    BY DEF PartContent
  <2> QED
    BY <1>9, <2>1, <2>4, <2>5, WriteTyped DEF WriteFails, TypeOk, Calls
<1>10. CASE ReadFails(t)
  <2>1. call[t] \in Working /\ call[t].pc = "write"
    BY <1>10, <1>b DEF ReadFails, WorkingPc
  <2>2. [call[t] EXCEPT !.pc = "fsync"] \in Working
    BY <2>1, WorkingFacts DEF WorkingPc, OtherPc
  <2>3. \A r \in {0, -1} : [call[t] EXCEPT !.pc = "fsync", !.ret = r] \in Working
    BY <2>2 DEF Working
  <2>4. call[t].ret \in {0, -1}
    BY <2>1 DEF Working
  <2> QED
    BY <1>10, <1>a, <2>3, <2>4 DEF ReadFails, Calls
<1>11. CASE Fsync(t)
  <2>1. call[t] \in Working
    BY <1>11, <1>b DEF Fsync, WorkingPc
  <2>2. Target(t) \in Slot /\ PartOf(t) \in Part
    BY <2>1, WorkingFacts DEF Target, PartOf
  <2>3. flash' \in [Slot -> [Part -> PartContent]]
    <3>1. cache[Target(t)][PartOf(t)] \in PartContent
      BY <2>2 DEF TypeOk
    <3>2. flash \in [Slot -> [Part -> PartContent]]
      BY DEF TypeOk
    <3>3. \A content \in PartContent :
             [flash EXCEPT ![Target(t)][PartOf(t)] = content] \in [Slot -> [Part -> PartContent]]
      BY <2>2, <3>2
    <3> QED
      BY <1>11, <3>1, <3>2, <3>3 DEF Fsync
  <2>4. call' \in [Threads -> Calls]
    BY <1>0, <1>11, <1>b, <2>1 DEF Fsync, WorkingPc, OtherPc
  <2> QED
    BY <1>11, <2>3, <2>4 DEF Fsync, TypeOk, Calls
<1>12. CASE Close(t)
  <2>1. call[t] \in Working
    BY <1>12, <1>b DEF Close, WorkingPc
  <2>2. temp' \in [Part -> Image \union {Absent}]
    BY <1>12 DEF Close, TypeOk
  <2>3. call' \in [Threads -> Calls]
    BY <1>0, <1>12, <1>b, <2>1 DEF Close
  <2> QED
    BY <1>12, <2>2, <2>3 DEF Close, TypeOk, Calls
<1>13. CASE SwitchRead(t)
  <2>1. call[t] \in Working /\ running \in Slot
    BY <1>13, <1>b DEF SwitchRead, WorkingPc, Up, Works
  <2>2. PICK told \in RunningSlotResults(running, Faults) \ {NoSlot} :
           call' = [call EXCEPT ![t] =
             [pc |-> "switch_write", packet |-> call[t].packet, slot |-> call[t].slot,
              told |-> told, meta |-> ActiveAnotherSlot(misc, told)]]
    BY <1>13 DEF SwitchRead
  <2>3. told \in Slot
    BY <2>1, <2>2 DEF RunningSlotResults, Slot
  <2>4. ActiveAnotherSlot(misc, told) \in MetaData
    BY <2>3, ActiveAnotherFacts DEF TypeOk
  <2>5. [pc |-> "switch_write", packet |-> call[t].packet, slot |-> call[t].slot,
         told |-> told, meta |-> ActiveAnotherSlot(misc, told)] \in Switching
    BY <2>1, <2>3, <2>4 DEF Switching, Working
  <2> QED
    BY <1>13, <1>a, <2>2, <2>5 DEF SwitchRead, Calls
<1>14. CASE SwitchReadFails(t)
  BY <1>14, <1>a, <1>b DEF SwitchReadFails, WorkingPc
<1>c. ASSUME call[t].pc = "switch_write"
      PROVE  /\ call[t] \in Switching
             /\ Publish(call[t], "success") \in Calls
             /\ Other(call[t].told) \in Slot
  BY <1>c, CallFacts DEF Calls, Publish, Publishing, Switching, Other, Slot
<1>15. CASE SwitchWrite(t)
  <2>1. /\ call[t] \in Switching /\ Other(call[t].told) \in Slot
        /\ call' \in [Threads -> Calls]
    BY <1>0, <1>15, <1>c DEF SwitchWrite
  <2> QED
    BY <1>15, <2>1 DEF SwitchWrite, TypeOk, Calls, Switching
<1>16. CASE SwitchWriteFails(t)
  BY <1>16, <1>a, <1>c DEF SwitchWriteFails
<1>17. CASE Return(t)
  <2>1. call[t] \in Publishing
    BY <1>17, CallFacts DEF Return
  <2> QED
    BY <1>17, <2>1 DEF Return, TypeOk, Publishing
<1> QED
  BY <1>1, <1>2, <1>3, <1>4, <1>5, <1>6, <1>7, <1>8, <1>9, <1>10, <1>11, <1>12, <1>13, <1>14,
     <1>15, <1>16, <1>17 DEF Step

\* No step at all leaves the types.
LEMMA NextTyped == TypeOk /\ [Next]_vars => TypeOk'
<1> SUFFICES ASSUME TypeOk, [Next]_vars
             PROVE  TypeOk'
  OBVIOUS
<1> USE DEF meta, parts, files
<1>1. CASE UpgradeInit
  BY <1>1 DEF UpgradeInit, TypeOk
<1>2. ASSUME NEW t \in Threads, NEW q \in Packets, Start(t, q)
      PROVE  TypeOk'
  <2>1. PICK slot \in RunningSlotResults(running, Faults) \ {NoSlot} :
           call' = [call EXCEPT ![t] =
             [pc |-> "unpack", packet |-> q, slot |-> slot, part |-> 1, img |-> Absent,
              blk |-> 1, ret |-> 0, broke |-> FALSE]]
    BY <1>2 DEF Start, Goto
  <2>2. slot \in Slot
    BY <1>2, <2>1 DEF Start, At, Up, Works, RunningSlotResults, Slot
  <2>3. [pc |-> "unpack", packet |-> q, slot |-> slot, part |-> 1, img |-> Absent,
         blk |-> 1, ret |-> 0, broke |-> FALSE] \in Working
    BY <2>2, PartFacts DEF Working
  <2> QED
    BY <1>2, <2>1, <2>3 DEF Start, TypeOk
<1>3. ASSUME NEW t \in Threads, Step(t)
      PROVE  TypeOk'
  BY <1>3, StepTyped
<1>4. CASE WritebackPart
  BY <1>4 DEF WritebackPart, TypeOk, PartContent
<1>5. CASE WritebackFile
  BY <1>5 DEF WritebackFile, TypeOk, Image
<1>6. CASE WritebackMisc
  BY <1>6 DEF WritebackMisc, TypeOk
<1>7. CASE Kill
  BY <1>7 DEF Kill, TypeOk
<1>8. CASE Reset
  BY <1>8 DEF Reset, TypeOk
<1>9. CASE Boot
  <2>1. GetCurrentSlot(disk) \in Slot /\ running' = GetCurrentSlot(disk)
        /\ disk' = SpendTry(disk, GetCurrentSlot(disk))
    BY <1>9 DEF Boot
  <2>2. disk' \in MetaData
    BY <2>1, SpendTryFacts DEF TypeOk
  <2> QED
    BY <1>9, <2>1, <2>2 DEF Boot, TypeOk
<1>10. CASE UNCHANGED vars
  BY <1>10 DEF vars, TypeOk
<1> QED
  BY <1>1, <1>2, <1>3, <1>4, <1>5, <1>6, <1>7, <1>8, <1>9, <1>10 DEF Next

\* Storage, files, metadata and the state of every call keep their types.
THEOREM TypeCorrect == Spec => []TypeOk
BY InitTyped, NextTyped, PTL DEF Spec
-----------------------------------------------------------------------------
(* The running slot is never touched *)

\* What a step of one call leaves alone: the running slot, the slot the call
\* was told, every partition of the other slot of its target, and the other
\* calls, which can only lose the image they were writing.
LEMMA StepFrame ==
    ASSUME TypeOk, NEW t \in Threads, Step(t)
    PROVE  /\ Up /\ running' = running /\ call[t].pc # "idle"
           /\ call'[t].pc = "idle" \/ call'[t].slot = call[t].slot
           /\ \A u \in Threads \ {t} :
                 \/ call'[u] = call[u]
                 \/ /\ call[u] \in Working /\ call[u].pc = "write"
                    /\ call'[u] = [call[u] EXCEPT !.img = Damaged]
           /\ \A s \in Slot \ {Target(t)} :
                 /\ cache'[s] = cache[s]
                 /\ flash'[s] = flash[s] \/ flash'[s] = cache[s]
<1> USE DEF At, Goto, meta, parts, files
<1>1. Up /\ running' = running /\ call[t].pc # "idle"
  BY DEF Step, Unpack, Sync, SkipPart, OpenPart, OpenPartFails, RejectImage, WriteBlock,
         WriteLastBlock, WriteFails, ReadFails, Fsync, Close, SwitchRead, SwitchReadFails,
         SwitchWrite, SwitchWriteFails, Return
<1>2. /\ call \in [Threads -> Calls]
      /\ call[t].pc \in WorkingPc => call[t] \in Working
      /\ call[t].pc = "switch_write" => call[t] \in Switching
  BY CallFacts DEF TypeOk, Calls
<1>3. ASSUME NEW c \in Working
      PROVE  /\ NextPart(c).slot = c.slot
             /\ \A pc \in STRING : [c EXCEPT !.pc = pc].slot = c.slot
             /\ \A d : c.slot = Publish(c, d).slot
  BY DEF Working, NextPart, Publish
<1>4. CASE \/ Unpack(t) \/ SkipPart(t) \/ OpenPart(t) \/ OpenPartFails(t) \/ RejectImage(t)
           \/ ReadFails(t) \/ Close(t) \/ SwitchRead(t) \/ SwitchReadFails(t)
           \/ SwitchWrite(t) \/ SwitchWriteFails(t) \/ Return(t)
  <2>1. UNCHANGED <<cache, flash>> /\ \E c : Goto(t, c)
    BY <1>4 DEF Unpack, SkipPart, OpenPart, OpenPartFails, RejectImage, ReadFails, Close,
         SwitchRead, SwitchReadFails, SwitchWrite, SwitchWriteFails, Return
  <2>2. \A u \in Threads \ {t} : call'[u] = call[u]
    BY <1>2, <2>1
  <2>3. call'[t].pc = "idle" \/ call'[t].slot = call[t].slot
    <3>1. CASE Unpack(t)
      BY <1>2, <3>1 DEF Unpack, WorkingPc, Working, Publish
    <3>2. CASE SkipPart(t) \/ OpenPartFails(t)
      BY <1>2, <1>3, <3>2 DEF SkipPart, OpenPartFails, WorkingPc
    <3>8. CASE OpenPart(t)
      BY <1>2, <3>8 DEF OpenPart, WorkingPc, Working
    <3>3. CASE RejectImage(t) \/ ReadFails(t)
      <4>1. call[t] \in Working
        BY <1>2, <3>3 DEF RejectImage, ReadFails, WorkingPc
      <4>2. \/ call'[t] = [call[t] EXCEPT !.pc = "close", !.ret = -1, !.broke = TRUE]
            \/ \E r : call'[t] = [call[t] EXCEPT !.pc = "fsync", !.ret = r]
        BY <1>2, <3>3 DEF RejectImage, ReadFails
      <4> QED
        BY <4>1, <4>2 DEF Working
    <3>4. CASE Close(t)
      BY <1>2, <1>3, <3>4 DEF Close, WorkingPc, Publish
    <3>5. CASE SwitchRead(t) \/ SwitchReadFails(t)
      BY <1>2, <3>5 DEF SwitchRead, SwitchReadFails, Publish
    <3>6. CASE SwitchWrite(t) \/ SwitchWriteFails(t)
      BY <1>2, <3>6 DEF SwitchWrite, SwitchWriteFails, Publish
    <3>7. CASE Return(t)
      BY <1>2, <3>7 DEF Return, Idle
    <3> QED
      BY <1>4, <3>1, <3>2, <3>3, <3>4, <3>5, <3>6, <3>7, <3>8
  <2> QED
    BY <1>1, <2>1, <2>2, <2>3
<1>5. CASE Sync(t)
  <2>1. cache' = cache /\ flash' = cache /\ call' = [call EXCEPT ![t] = [call[t] EXCEPT !.pc = "part"]]
    BY <1>5 DEF Sync
  <2>2. call[t] \in Working
    BY <1>2, <1>5 DEF Sync, WorkingPc
  <2> QED
    BY <1>1, <1>2, <2>1, <2>2 DEF Working
<1>6. CASE Fsync(t)
  <2>1. /\ cache' = cache
        /\ \/ flash' = flash
           \/ flash' = [flash EXCEPT ![Target(t)][PartOf(t)] = cache[Target(t)][PartOf(t)]]
        /\ call' = [call EXCEPT ![t] = [call[t] EXCEPT !.pc = "close"]]
    BY <1>6 DEF Fsync
  <2>2. call[t] \in Working
    BY <1>2, <1>6 DEF Fsync, WorkingPc
  <2>3. \A s \in Slot \ {Target(t)} : flash'[s] = flash[s]
    BY <2>1 DEF TypeOk
  <2> QED
    BY <1>1, <1>2, <2>1, <2>2, <2>3 DEF Working
<1>7. CASE WriteBlock(t) \/ WriteLastBlock(t) \/ WriteFails(t)
  <2>1. call[t] \in Working /\ call[t].pc = "write"
    BY <1>2, <1>7 DEF WriteBlock, WriteLastBlock, WriteFails, WorkingPc
  <2>2. PICK c : AfterWrite(t, c) /\ c.slot = call[t].slot
    <3>1. CASE WriteBlock(t)
      <4> DEFINE c == [call[t] EXCEPT !.blk = IF @ < 3 THEN @ + 1 ELSE 3]
      <4>1. AfterWrite(t, c) /\ c.slot = call[t].slot
        BY <2>1, <3>1 DEF WriteBlock, Working
      <4> QED
        BY <4>1
    <3>2. CASE WriteLastBlock(t)
      <4> DEFINE c == [call[t] EXCEPT !.pc = "fsync"]
      <4>1. AfterWrite(t, c) /\ c.slot = call[t].slot
        BY <2>1, <3>2 DEF WriteLastBlock, Working
      <4> QED
        BY <4>1
    <3>3. CASE WriteFails(t)
      <4> DEFINE c == [call[t] EXCEPT !.pc = "fsync", !.ret = -1, !.broke = TRUE]
      <4>1. AfterWrite(t, c) /\ c.slot = call[t].slot
        BY <2>1, <3>3 DEF WriteFails, Working
      <4> QED
        BY <4>1
    <3> QED
      BY <1>7, <3>1, <3>2, <3>3
  <2>3. flash' = flash /\ (cache' = cache \/ \E content : Store(t, content))
    BY <1>7 DEF WriteBlock, WriteLastBlock, WriteFails
  <2>4. \A s \in Slot \ {Target(t)} : cache'[s] = cache[s]
    BY <2>3 DEF Store, TypeOk
  <2>5. \A u \in Threads \ {t} :
           \/ call'[u] = call[u]
           \/ /\ call[u] \in Working /\ call[u].pc = "write"
              /\ call'[u] = [call[u] EXCEPT !.img = Damaged]
    BY <2>2, CallFacts DEF AfterWrite, Mixed, WorkingPc
  <2>6. call'[t] = c
    BY <2>2 DEF AfterWrite
  <2> QED
    BY <1>1, <2>2, <2>3, <2>4, <2>5, <2>6
<1> QED
  BY <1>4, <1>5, <1>6, <1>7 DEF Step

\* While the command line is read correctly, RunsFrom is kept by every step.
LEMMA NextRunsFrom ==
    ASSUME "cmdline_read" \notin Faults
    PROVE  TypeOk /\ RunsFrom /\ [Next]_vars => RunsFrom'
<1> SUFFICES ASSUME TypeOk, RunsFrom, [Next]_vars
             PROVE  RunsFrom'
  OBVIOUS
<1> USE DEF meta, parts, files
<1>1. CASE UpgradeInit
  BY <1>1 DEF UpgradeInit, RunsFrom
<1>2. ASSUME NEW t \in Threads, NEW q \in Packets, Start(t, q)
      PROVE  RunsFrom'
  <2>1. PICK slot \in RunningSlotResults(running, Faults) \ {NoSlot} :
           call' = [call EXCEPT ![t] =
             [pc |-> "unpack", packet |-> q, slot |-> slot, part |-> 1, img |-> Absent,
              blk |-> 1, ret |-> 0, broke |-> FALSE]]
    BY <1>2 DEF Start, Goto
  <2>2. slot = running
    BY <2>1 DEF RunningSlotResults
  <2>3. running \in Slot
    BY <1>2 DEF Start, At, Up, Works
  <2> QED
    BY <1>2, <2>1, <2>2, <2>3 DEF Start, RunsFrom, TypeOk, Slot, NoSlot
<1>3. ASSUME NEW t \in Threads, Step(t)
      PROVE  RunsFrom'
  <2>1. running \in Slot /\ running # NoSlot
    BY <1>3, StepFrame DEF Up, Works, Slot, NoSlot
  <2>2. call[t].slot = running
    BY <1>3, <2>1, StepFrame DEF RunsFrom
  <2>3. Target(t) # running
    BY <2>1, <2>2 DEF Target, Other, Slot
  <2>4. /\ cache'[running] = cache[running]
        /\ flash'[running] = flash[running] \/ flash'[running] = cache[running]
        /\ running' = running
    BY <1>3, <2>1, <2>3, StepFrame
  <2>5. ASSUME NEW u \in Threads, call'[u].pc # "idle"
        PROVE  call'[u].slot = running
    <3>1. CASE u = t
      BY <1>3, <2>2, <2>5, <3>1, StepFrame
    <3>2. CASE call'[u] = call[u]
      BY <2>1, <2>5, <3>2 DEF RunsFrom
    <3>3. CASE /\ call[u] \in Working /\ call[u].pc = "write"
               /\ call'[u] = [call[u] EXCEPT !.img = Damaged]
      <4>1. call'[u].slot = call[u].slot
        BY <3>3 DEF Working
      <4> QED
        BY <2>1, <3>3, <4>1 DEF RunsFrom
    <3> QED
      BY <1>3, <3>1, <3>2, <3>3, StepFrame
  <2> QED
    BY <2>1, <2>4, <2>5 DEF RunsFrom
<1>4. CASE WritebackPart
  <2>1. /\ running \in Slot /\ running # NoSlot
        /\ UNCHANGED <<running, cache, call>>
    BY <1>4 DEF WritebackPart, TypeOk
  <2>2. flash'[running] = flash[running]
    BY <1>4, <2>1 DEF WritebackPart, RunsFrom, TypeOk
  <2> QED
    BY <2>1, <2>2 DEF RunsFrom
<1>5. CASE WritebackFile
  BY <1>5 DEF WritebackFile, RunsFrom
<1>6. CASE WritebackMisc
  BY <1>6 DEF WritebackMisc, RunsFrom
<1>7. CASE Kill
  BY <1>7 DEF Kill, RunsFrom, Idle
<1>8. CASE Reset
  BY <1>8 DEF Reset, RunsFrom, Idle
<1>9. CASE Boot
  BY <1>9 DEF Boot, RunsFrom
<1>10. CASE UNCHANGED vars
  BY <1>10 DEF vars, RunsFrom
<1> QED
  BY <1>1, <1>2, <1>3, <1>4, <1>5, <1>6, <1>7, <1>8, <1>9, <1>10 DEF Next

\* No step writes to the running slot, which a reset or a write-back leaves
\* alone because nothing about it is dirty.
LEMMA NextSparesRunning ==
    ASSUME "cmdline_read" \notin Faults
    PROVE  TypeOk /\ RunsFrom /\ [Next]_vars =>
              (running # NoSlot => /\ cache'[running] = cache[running]
                                   /\ flash'[running] = flash[running])
<1> SUFFICES ASSUME TypeOk, RunsFrom, [Next]_vars, running # NoSlot
             PROVE  cache'[running] = cache[running] /\ flash'[running] = flash[running]
  OBVIOUS
<1> USE DEF meta, parts, files
<1>1. running \in Slot /\ cache[running] = flash[running]
  BY DEF TypeOk, RunsFrom
<1>2. ASSUME NEW t \in Threads, NEW q \in Packets, Start(t, q)
      PROVE  UNCHANGED <<cache, flash>>
  BY <1>2 DEF Start
<1>3. ASSUME NEW t \in Threads, Step(t)
      PROVE  cache'[running] = cache[running] /\ flash'[running] = flash[running]
  <2>1. Target(t) # running
    BY <1>1, <1>3, StepFrame DEF RunsFrom, Target, Other, Slot
  <2> QED
    BY <1>1, <1>3, <2>1, StepFrame
<1>4. CASE WritebackPart
  BY <1>1, <1>4 DEF WritebackPart, TypeOk
<1>5. CASE UpgradeInit \/ WritebackFile \/ WritebackMisc \/ Kill \/ Boot
  BY <1>5 DEF UpgradeInit, WritebackFile, WritebackMisc, Kill, Boot
<1>6. CASE Reset
  BY <1>1, <1>6 DEF Reset
<1>7. CASE UNCHANGED vars
  BY <1>7 DEF vars
<1> QED
  BY <1>2, <1>3, <1>4, <1>5, <1>6, <1>7 DEF Next

\* Whatever fails, whatever overlaps and whenever the power goes: while the
\* command line is read correctly, no step of rk_upgrade_packet changes a
\* partition of the slot the device runs from.
THEOREM RunningSlotIsSafe ==
    ASSUME "cmdline_read" \notin Faults
    PROVE  Spec => RunningSlotUntouched
<1>1. Init => RunsFrom
  BY DEF Init, RunsFrom, Idle
<1>2. TypeOk /\ RunsFrom /\ [Next]_vars => RunsFrom'
  BY NextRunsFrom
<1>3. Spec => []RunsFrom
  BY <1>1, <1>2, TypeCorrect, PTL DEF Spec
<1>4. TypeOk /\ RunsFrom /\ [Next]_vars =>
         [running # NoSlot => /\ cache'[running] = cache[running]
                              /\ flash'[running] = flash[running]]_vars
  BY NextSparesRunning
<1> QED
  BY <1>3, <1>4, TypeCorrect, PTL DEF Spec, RunningSlotUntouched
-----------------------------------------------------------------------------
(* A failed packet is not switched to *)

\* Broken(c): call c must not get past the partition it is writing.
Broken(c) == c.pc \in WorkingPc /\ c.broke
Returning(c) == c.pc \in {"fsync", "close"} /\ c.ret = -1

\* A step of one call leaves every call without a failure, or on its way out.
LEMMA StepBrokeReturns ==
    ASSUME TypeOk, BrokeReturns, NEW t \in Threads, Step(t), Broken(call'[t])
    PROVE  Returning(call'[t])
<1> USE DEF At, Goto, Broken, Returning
<1>1. /\ call \in [Threads -> Calls]
      /\ call[t].pc \in WorkingPc => call[t] \in Working
      /\ call[t].pc = "switch_write" => call[t] \in Switching
      /\ call[t].pc \in WorkingPc /\ call[t].broke => Returning(call[t])
  BY CallFacts DEF TypeOk, Calls, BrokeReturns, WorkingPc
<1>2. ASSUME NEW c \in Working
      PROVE  /\ NextPart(c).broke = c.broke
             /\ \A e : Publish(c, e).pc = "publish"
  BY DEF Working, NextPart, Publish
<1>3. CASE Unpack(t) \/ Sync(t) \/ OpenPart(t)
  <2>1. call[t] \in Working /\ ~call[t].broke
    BY <1>1, <1>3 DEF Unpack, Sync, OpenPart, WorkingPc
  <2>2. \/ call'[t].pc = "publish"
        \/ call'[t] = [call[t] EXCEPT !.pc = "sync"]
        \/ call'[t] = [call[t] EXCEPT !.pc = "part"]
        \/ call'[t] = [call[t] EXCEPT !.pc = "write", !.img = temp[PartOf(t)]]
    BY <1>1, <1>3 DEF Unpack, Sync, OpenPart, Publish
  <2> QED
    BY <2>1, <2>2 DEF WorkingPc, Working
<1>4. CASE SkipPart(t) \/ OpenPartFails(t)
  BY <1>1, <1>2, <1>4 DEF SkipPart, OpenPartFails, WorkingPc
<1>5. CASE RejectImage(t) \/ ReadFails(t)
  <2>1. call[t] \in Working /\ ~call[t].broke
    BY <1>1, <1>5 DEF RejectImage, ReadFails, WorkingPc
  <2>2. \/ call'[t] = [call[t] EXCEPT !.pc = "close", !.ret = -1, !.broke = TRUE]
        \/ \E r : call'[t] = [call[t] EXCEPT !.pc = "fsync", !.ret = r]
    BY <1>1, <1>5 DEF RejectImage, ReadFails
  <2> QED
    BY <2>1, <2>2 DEF WorkingPc, Working
<1>6. CASE WriteBlock(t) \/ WriteLastBlock(t) \/ WriteFails(t)
  <2>1. call[t] \in Working /\ ~call[t].broke
    BY <1>1, <1>6 DEF WriteBlock, WriteLastBlock, WriteFails, WorkingPc
  <2>2. \/ \E b : call'[t] = [call[t] EXCEPT !.blk = b]
        \/ call'[t] = [call[t] EXCEPT !.pc = "fsync"]
        \/ call'[t] = [call[t] EXCEPT !.pc = "fsync", !.ret = -1, !.broke = TRUE]
    <3>1. CASE WriteBlock(t)
      BY <3>1 DEF WriteBlock, AfterWrite
    <3>2. CASE WriteLastBlock(t)
      BY <3>2 DEF WriteLastBlock, AfterWrite
    <3>3. CASE WriteFails(t)
      BY <3>3 DEF WriteFails, AfterWrite
    <3> QED
      BY <1>6, <3>1, <3>2, <3>3
  <2> QED
    BY <2>1, <2>2 DEF WorkingPc, Working
<1>7. CASE Fsync(t)
  BY <1>1, <1>7 DEF Fsync, WorkingPc, Working
<1>8. CASE Close(t)
  <2>1. call[t] \in Working
    BY <1>1, <1>8 DEF Close, WorkingPc
  <2>2. CASE call[t].ret < 0
    BY <1>1, <1>2, <1>8, <2>1, <2>2 DEF Close, WorkingPc
  <2>3. CASE ~(call[t].ret < 0)
    BY <1>1, <1>2, <1>8, <2>1, <2>3 DEF Close, WorkingPc
  <2> QED
    BY <2>2, <2>3
<1>9. CASE \/ SwitchRead(t) \/ SwitchReadFails(t) \/ SwitchWrite(t) \/ SwitchWriteFails(t)
           \/ Return(t)
  BY <1>1, <1>9
  DEF SwitchRead, SwitchReadFails, SwitchWrite, SwitchWriteFails, Return, Publish, Idle, WorkingPc
<1> QED
  BY <1>3, <1>4, <1>5, <1>6, <1>7, <1>8, <1>9 DEF Step

\* No step loses the error of a call in which something failed.
LEMMA NextBrokeReturns == TypeOk /\ BrokeReturns /\ [Next]_vars => BrokeReturns'
<1> SUFFICES ASSUME TypeOk, BrokeReturns, [Next]_vars, NEW u \in Threads, Broken(call'[u])
             PROVE  Returning(call'[u])
  BY DEF BrokeReturns, Broken, Returning, WorkingPc
<1>1. CASE call'[u] = call[u]
  BY <1>1 DEF BrokeReturns, Broken, Returning, WorkingPc
<1>2. ASSUME NEW t \in Threads, NEW q \in Packets, Start(t, q)
      PROVE  Returning(call'[u])
  BY <1>1, <1>2 DEF Start, Goto, TypeOk, Broken
<1>3. ASSUME NEW t \in Threads, Step(t)
      PROVE  Returning(call'[u])
  <2>1. CASE u = t
    BY <1>3, <2>1, StepBrokeReturns
  <2>2. CASE /\ call[u] \in Working /\ call[u].pc = "write"
             /\ call'[u] = [call[u] EXCEPT !.img = Damaged]
    BY <2>2 DEF Working, BrokeReturns, Broken, Returning, WorkingPc
  <2> QED
    BY <1>1, <1>3, <2>1, <2>2, StepFrame
<1>4. CASE Kill \/ Reset
  BY <1>4 DEF Kill, Reset, Idle, Broken, WorkingPc
<1>5. CASE UpgradeInit \/ WritebackPart \/ WritebackFile \/ WritebackMisc \/ Boot
  BY <1>1, <1>5 DEF UpgradeInit, WritebackPart, WritebackFile, WritebackMisc, Boot
<1>6. CASE UNCHANGED vars
  BY <1>1, <1>6 DEF vars
<1> QED
  BY <1>2, <1>3, <1>4, <1>5, <1>6 DEF Next

\* Whatever the faults and the overlaps, a packet of which an image was refused
\* or a partition could not be written is never switched to.
THEOREM FailureIsFinal == Spec => []FailureBlocksSwitch
<1>1. Init => BrokeReturns
  BY DEF Init, BrokeReturns, Idle
<1>2. BrokeReturns => FailureBlocksSwitch
  BY DEF BrokeReturns, FailureBlocksSwitch
<1> QED
  BY <1>1, <1>2, NextBrokeReturns, TypeCorrect, PTL DEF Spec
-----------------------------------------------------------------------------
(* What the metadata selects when a packet reports success *)

\* Which steps of a call change the metadata, start the switch, and report success.
LEMMA StepOfCall ==
    ASSUME TypeOk, NEW t \in Threads, Step(t)
    PROVE  /\ misc' = misc \/ SwitchWrite(t)
           /\ call'[t].pc = "switch_write" => SwitchRead(t)
           /\ call'[t].pc = "publish" /\ call'[t].event = "success"
                => SwitchReadFails(t) \/ SwitchWrite(t) \/ SwitchWriteFails(t)
<1> USE DEF At, Goto, meta, parts, files
<1>1. /\ call \in [Threads -> Calls]
      /\ call[t].pc \in WorkingPc => call[t] \in Working
  BY CallFacts DEF TypeOk, Calls
<1>2. ASSUME NEW c \in Working
      PROVE  /\ NextPart(c).pc \in {"part", "switch"}
             /\ Publish(c, "failure").event = "failure"
             /\ Publish(c, "failure").pc = "publish"
  BY DEF Working, NextPart, Publish
<1>3. CASE Unpack(t)
  <2>1. call'[t].pc = "sync" \/ call'[t] = Publish(call[t], "failure")
    BY <1>1, <1>3 DEF Unpack, Working, WorkingPc
  <2> QED
    BY <1>3, <2>1 DEF Unpack, Publish
<1>4. CASE SkipPart(t) \/ OpenPartFails(t) \/ Close(t)
  <2>1. call[t] \in Working
    BY <1>1, <1>4 DEF SkipPart, OpenPartFails, Close, WorkingPc
  <2>2. call'[t] = NextPart(call[t]) \/ call'[t] = Publish(call[t], "failure")
    BY <1>1, <1>4 DEF SkipPart, OpenPartFails, Close
  <2> QED
    BY <1>2, <1>4, <2>1, <2>2 DEF SkipPart, OpenPartFails, Close
<1>5. CASE Sync(t) \/ OpenPart(t) \/ RejectImage(t) \/ ReadFails(t) \/ Fsync(t)
  <2>1. call[t] \in Working
    BY <1>1, <1>5 DEF Sync, OpenPart, RejectImage, ReadFails, Fsync, WorkingPc
  <2>2. \E pc \in {"part", "write", "close", "fsync"} :
           \/ call'[t] = [call[t] EXCEPT !.pc = pc]
           \/ \E img : call'[t] = [call[t] EXCEPT !.pc = pc, !.img = img]
           \/ \E r : call'[t] = [call[t] EXCEPT !.pc = pc, !.ret = r]
           \/ call'[t] = [call[t] EXCEPT !.pc = pc, !.ret = -1, !.broke = TRUE]
    BY <1>1, <1>5 DEF Sync, OpenPart, RejectImage, ReadFails, Fsync
  <2>3. call'[t].pc \in {"part", "write", "close", "fsync"}
    BY <2>1, <2>2 DEF Working
  <2> QED
    BY <1>5, <2>3 DEF Sync, OpenPart, RejectImage, ReadFails, Fsync
<1>6. CASE WriteBlock(t) \/ WriteLastBlock(t) \/ WriteFails(t)
  <2>1. call[t] \in Working /\ call[t].pc = "write"
    BY <1>1, <1>6 DEF WriteBlock, WriteLastBlock, WriteFails, WorkingPc
  <2>2. \/ \E b : call'[t] = [call[t] EXCEPT !.blk = b]
        \/ call'[t] = [call[t] EXCEPT !.pc = "fsync"]
        \/ call'[t] = [call[t] EXCEPT !.pc = "fsync", !.ret = -1, !.broke = TRUE]
    <3>1. CASE WriteBlock(t)
      BY <3>1 DEF WriteBlock, AfterWrite
    <3>2. CASE WriteLastBlock(t)
      BY <3>2 DEF WriteLastBlock, AfterWrite
    <3>3. CASE WriteFails(t)
      BY <3>3 DEF WriteFails, AfterWrite
    <3> QED
      BY <1>6, <3>1, <3>2, <3>3
  <2>3. call'[t].pc \in {"write", "fsync"}
    BY <2>1, <2>2 DEF Working
  <2> QED
    BY <1>6, <2>3 DEF WriteBlock, WriteLastBlock, WriteFails
<1>7. CASE SwitchRead(t) \/ SwitchReadFails(t) \/ SwitchWrite(t) \/ SwitchWriteFails(t) \/ Return(t)
  BY <1>1, <1>7 DEF SwitchRead, SwitchReadFails, SwitchWrite, SwitchWriteFails, Return, Publish,
     Idle
<1> QED
  BY <1>3, <1>4, <1>5, <1>6, <1>7 DEF Step

\* A switch leads to the slot that is not running.
LEMMA SwitchSelects ==
    ASSUME NEW m \in MetaData, NEW r \in Slot
    PROVE  GetCurrentSlot(ActiveAnotherSlot(m, r)) = Other(r)
<1> DEFINE n == ActiveAnotherSlot(m, r)
<1>1. /\ n \in MetaData
      /\ n.slots[r] = [m.slots[r] EXCEPT !.priority = MaxPriority - 1]
      /\ n.slots[Other(r)] =
            [priority |-> MaxPriority, tries_remaining |-> MaxTries, successful_boot |-> 0]
  BY ActiveAnotherFacts
<1>2. Other(r) \in Slot /\ Other(Other(r)) = r
  BY DEF Other, Slot
<1>3. m.slots[r] \in SlotData
  BY DEF MetaData
<1>4. n.slots[r].priority = MaxPriority - 1
  BY <1>1, <1>3 DEF SlotData
<1>5. OnTrial(n, Other(r))
  BY <1>1, <1>2, <1>4 DEF OnTrial
<1> HIDE DEF n
<1>6. GetCurrentSlot(n) = Other(r)
  BY <1>1, <1>2, <1>5, OnTrialSelects
<1> QED
  BY <1>6 DEF n

\* No other call is moved to its switch or to its report by a step of a call.
LEMMA OthersStay ==
    ASSUME TypeOk, NEW t \in Threads, Step(t), NEW u \in Threads \ {t}, call'[u].pc # "write"
    PROVE  call'[u] = call[u]
<1>1. ASSUME call[u] \in Working, call[u].pc = "write"
      PROVE  [call[u] EXCEPT !.img = Damaged].pc = "write"
  BY <1>1 DEF Working
<1> QED
  BY <1>1, StepFrame

\* While the command line is read correctly, a switch that was prepared leads
\* away from the slot its call was told.
LEMMA NextLeadsAway ==
    ASSUME "cmdline_read" \notin Faults
    PROVE  TypeOk /\ RunsFrom /\ LeadsAway /\ [Next]_vars => LeadsAway'
<1> SUFFICES ASSUME TypeOk, RunsFrom, LeadsAway, [Next]_vars
             PROVE  LeadsAway'
  OBVIOUS
<1> USE DEF meta, parts, files
<1>1. CASE UNCHANGED call
  BY <1>1 DEF LeadsAway
<1>2. ASSUME NEW t \in Threads, NEW q \in Packets, Start(t, q)
      PROVE  LeadsAway'
  <2>1. call'[t].pc = "unpack" /\ \A u \in Threads \ {t} : call'[u] = call[u]
    BY <1>2 DEF Start, Goto, TypeOk
  <2> QED
    BY <2>1 DEF LeadsAway
<1>3. ASSUME NEW t \in Threads, Step(t)
      PROVE  LeadsAway'
  <2>1. running \in Slot /\ running # NoSlot /\ call[t].slot = running
    BY <1>3, StepFrame DEF RunsFrom, Up, Works, Slot, NoSlot
  <2>2. \A u \in Threads \ {t} : call'[u].pc = "switch_write" => call'[u] = call[u]
    BY <1>3, OthersStay
  <2>3. CASE SwitchRead(t)
    <3>1. PICK told \in RunningSlotResults(running, Faults) \ {NoSlot} :
             call'[t] = [pc |-> "switch_write", packet |-> call[t].packet,
                         slot |-> call[t].slot, told |-> told,
                         meta |-> ActiveAnotherSlot(misc, told)]
      BY <2>3 DEF SwitchRead, Goto, TypeOk
    <3>2. told = running /\ misc \in MetaData
      BY <3>1 DEF RunningSlotResults, TypeOk
    <3> QED
      BY <2>1, <2>2, <3>1, <3>2, SwitchSelects DEF LeadsAway
  <2>4. CASE ~SwitchRead(t)
    BY <1>3, <2>2, <2>4, StepOfCall DEF LeadsAway
  <2> QED
    BY <2>3, <2>4
<1>4. CASE UpgradeInit \/ WritebackPart \/ WritebackFile \/ WritebackMisc \/ Boot
  BY <1>1, <1>4 DEF UpgradeInit, WritebackPart, WritebackFile, WritebackMisc, Boot
<1>5. CASE Kill \/ Reset
  BY <1>5 DEF Kill, Reset, Idle, LeadsAway
<1>6. CASE UNCHANGED vars
  BY <1>1, <1>6 DEF vars
<1> QED
  BY <1>2, <1>3, <1>4, <1>5, <1>6 DEF Next

\* While neither the command line nor the misc partition fails, no step makes a
\* report of success untrue.
LEMMA NextSwitched ==
    ASSUME Faults \intersect {"cmdline_open", "cmdline_read", "misc_read", "misc_write"} = {}
    PROVE  TypeOk /\ RunsFrom /\ LeadsAway /\ SuccessIsSwitched /\ [Next]_vars
              => SuccessIsSwitched'
<1> SUFFICES ASSUME TypeOk, RunsFrom, LeadsAway, SuccessIsSwitched, [Next]_vars
             PROVE  SuccessIsSwitched'
  OBVIOUS
<1> USE DEF meta, parts, files
<1>1. CASE UNCHANGED <<misc, call>>
  BY <1>1 DEF SuccessIsSwitched
<1>2. CASE \A t \in Threads : call'[t].pc # "publish"
  BY <1>2 DEF SuccessIsSwitched
<1>3. ASSUME NEW t \in Threads, NEW q \in Packets, Start(t, q)
      PROVE  SuccessIsSwitched'
  <2>1. /\ misc' = misc /\ call'[t].pc = "unpack"
        /\ \A u \in Threads \ {t} : call'[u] = call[u]
    BY <1>3 DEF Start, Goto, TypeOk
  <2> QED
    BY <2>1 DEF SuccessIsSwitched
<1>4. ASSUME NEW t \in Threads, Step(t)
      PROVE  SuccessIsSwitched'
  <2>1. running \in Slot /\ running # NoSlot /\ running' = running /\ call[t].slot = running
    BY <1>4, StepFrame DEF RunsFrom, Up, Works, Slot, NoSlot
  <2>2. CASE SwitchWrite(t)
    <3>1. GetCurrentSlot(misc') = Other(running)
      BY <2>1, <2>2 DEF SwitchWrite, At, LeadsAway
    <3>2. \A u \in Threads : call'[u].pc = "publish" => call'[u].slot = running
      BY <2>1, NextRunsFrom DEF RunsFrom
    <3> QED
      BY <3>1, <3>2 DEF SuccessIsSwitched
  <2>3. CASE ~SwitchWrite(t)
    <3>1. misc' = misc
      BY <1>4, <2>3, StepOfCall
    <3>2. ~(call'[t].pc = "publish" /\ call'[t].event = "success")
      BY <1>4, <2>3, StepOfCall DEF SwitchReadFails, SwitchWriteFails
    <3>3. \A u \in Threads \ {t} : call'[u].pc = "publish" => call'[u] = call[u]
      BY <1>4, OthersStay
    <3> QED
      BY <3>1, <3>2, <3>3 DEF SuccessIsSwitched
  <2> QED
    BY <2>2, <2>3
<1>5. CASE UpgradeInit \/ WritebackPart \/ WritebackFile \/ WritebackMisc
  BY <1>1, <1>5 DEF UpgradeInit, WritebackPart, WritebackFile, WritebackMisc
<1>6. CASE Kill \/ Reset
  BY <1>2, <1>6 DEF Kill, Reset, Idle
<1>7. CASE Boot
  BY <1>2, <1>7 DEF Boot, RunsFrom
<1>8. CASE UNCHANGED vars
  BY <1>1, <1>8 DEF vars
<1> QED
  BY <1>3, <1>4, <1>5, <1>6, <1>7, <1>8 DEF Next

\* While the command line is read correctly, every call knows the slot it runs
\* from and its switch leads away from it.
LEMMA AlwaysLeadsAway ==
    ASSUME "cmdline_read" \notin Faults
    PROVE  Spec => [](TypeOk /\ RunsFrom /\ LeadsAway)
<1>1. Init => RunsFrom /\ LeadsAway
  BY DEF Init, RunsFrom, LeadsAway, Idle
<1>2. TypeOk /\ RunsFrom /\ [Next]_vars => RunsFrom'
  BY NextRunsFrom
<1>3. TypeOk /\ RunsFrom /\ LeadsAway /\ [Next]_vars => LeadsAway'
  BY NextLeadsAway
<1> QED
  BY <1>1, <1>2, <1>3, TypeCorrect, PTL DEF Spec

\* The SUCCESS event is true, with any number of calls at once: while neither the
\* command line nor the misc partition fails, the metadata selects the new slot
\* when rk_upgrade_packet publishes it (dl_upgrade.c:316-323).
THEOREM SuccessIsTrue ==
    ASSUME Faults \intersect {"cmdline_open", "cmdline_read", "misc_read", "misc_write"} = {}
    PROVE  Spec => []SuccessIsSwitched
<1>1. Init => SuccessIsSwitched
  BY DEF Init, SuccessIsSwitched, Idle
<1>2. TypeOk /\ RunsFrom /\ LeadsAway /\ SuccessIsSwitched /\ [Next]_vars => SuccessIsSwitched'
  BY NextSwitched
<1>3. Spec => [](TypeOk /\ RunsFrom /\ LeadsAway)
  BY AlwaysLeadsAway
<1> QED
  BY <1>1, <1>2, <1>3, PTL DEF Spec
-----------------------------------------------------------------------------
(* One call at a time: what it carries and what it leaves behind *)

\* Two records of the same call at the same place
Same(d, c) == d.packet = c.packet /\ d.slot = c.slot /\ d.part = c.part

\* The partitions have different names.
LEMMA PartsDiffer == \A i, j \in 1 .. 3 : PartName[i] = PartName[j] => i = j
BY DEF PartName

\* Every partition has its place in the loop.
LEMMA PartsListed == \A p \in Part : \E i \in 1 .. 3 : p = PartName[i]
BY PartFacts DEF Part

\* The loop moves on by one place and keeps the packet and the slot.
LEMMA NextPartFacts ==
    ASSUME NEW c \in Working
    PROVE  /\ c.part \in 1 .. 3
           /\ NextPart(c).pc \in {"part", "switch"}
           /\ NextPart(c).packet = c.packet /\ NextPart(c).slot = c.slot
           /\ Place(NextPart(c)) = c.part + 1
<1>1. c.part \in 1 .. 3
  BY PartFacts DEF Working
<1>2. CASE c.part < 3
  BY <1>1, <1>2, PartFacts DEF NextPart, Place, Working
<1>3. CASE c.part = 3
  BY <1>1, <1>3, PartFacts DEF NextPart, Place, Working
<1> QED
  BY <1>1, <1>2, <1>3

\* What the steps of a call before its switch make of its record.
LEMMA StepOfRecord ==
    ASSUME TypeOk, NEW t \in Threads
    PROVE  LET c == call[t]
               d == call'[t]
           IN  /\ Unpack(t) => d.pc = "publish" \/ (d.pc = "sync" /\ Same(d, c))
               /\ Sync(t) => d.pc = "part" /\ Same(d, c)
               /\ OpenPart(t) => d.pc = "write" /\ d.img = temp[PartOf(t)] /\ Same(d, c)
               /\ RejectImage(t) => d.pc = "close" /\ d.ret = -1 /\ Same(d, c)
               /\ WriteBlock(t) => d.pc = "write" /\ d.img = c.img /\ Same(d, c)
               /\ WriteLastBlock(t) => d.pc = "fsync" /\ d.ret = c.ret /\ Same(d, c)
               /\ WriteFails(t) => d.pc = "fsync" /\ d.ret = -1 /\ Same(d, c)
               /\ ReadFails(t) => d.pc = "fsync" /\ Same(d, c)
               /\ Fsync(t) => d.pc = "close" /\ d.ret = c.ret /\ Same(d, c)
<1> USE DEF At, Goto
<1>1. /\ call \in [Threads -> Calls]
      /\ call[t].pc \in WorkingPc => call[t] \in Working
  BY CallFacts DEF TypeOk, Calls
<1>2. ASSUME Unpack(t)
      PROVE  call'[t].pc = "publish" \/ (call'[t].pc = "sync" /\ Same(call'[t], call[t]))
  <2>1. call'[t] = [call[t] EXCEPT !.pc = "sync"] \/ call'[t] = Publish(call[t], "failure")
    BY <1>1, <1>2 DEF Unpack
  <2> QED
    BY <1>1, <1>2, <2>1 DEF Unpack, Publish, Working, WorkingPc, Same
<1>3. ASSUME Sync(t)
      PROVE  call'[t].pc = "part" /\ Same(call'[t], call[t])
  <2>1. call'[t] = [call[t] EXCEPT !.pc = "part"] /\ call[t] \in Working
    BY <1>1, <1>3 DEF Sync, WorkingPc
  <2> QED
    BY <2>1 DEF Working, Same
<1>4. ASSUME OpenPart(t)
      PROVE  call'[t].pc = "write" /\ call'[t].img = temp[PartOf(t)] /\ Same(call'[t], call[t])
  <2>1. call'[t] = [call[t] EXCEPT !.pc = "write", !.img = temp[PartOf(t)]] /\ call[t] \in Working
    BY <1>1, <1>4 DEF OpenPart, WorkingPc
  <2> QED
    BY <2>1 DEF Working, Same
<1>5. ASSUME RejectImage(t)
      PROVE  call'[t].pc = "close" /\ call'[t].ret = -1 /\ Same(call'[t], call[t])
  <2>1. /\ call'[t] = [call[t] EXCEPT !.pc = "close", !.ret = -1, !.broke = TRUE]
        /\ call[t] \in Working
    BY <1>1, <1>5 DEF RejectImage, WorkingPc
  <2> QED
    BY <2>1 DEF Working, Same
<1>6. ASSUME WriteBlock(t)
      PROVE  call'[t].pc = "write" /\ call'[t].img = call[t].img /\ Same(call'[t], call[t])
  <2>1. call[t] \in Working /\ call[t].pc = "write"
    BY <1>1, <1>6 DEF WriteBlock, WorkingPc
  <2>2. \E b : call'[t] = [call[t] EXCEPT !.blk = b]
    BY <1>6 DEF WriteBlock, AfterWrite
  <2> QED
    BY <2>1, <2>2 DEF Working, Same
<1>7. ASSUME WriteLastBlock(t)
      PROVE  call'[t].pc = "fsync" /\ call'[t].ret = call[t].ret /\ Same(call'[t], call[t])
  <2>1. call'[t] = [call[t] EXCEPT !.pc = "fsync"] /\ call[t] \in Working
    BY <1>1, <1>7 DEF WriteLastBlock, AfterWrite, WorkingPc
  <2> QED
    BY <2>1 DEF Working, Same
<1>8. ASSUME WriteFails(t)
      PROVE  call'[t].pc = "fsync" /\ call'[t].ret = -1 /\ Same(call'[t], call[t])
  <2>1. /\ call'[t] = [call[t] EXCEPT !.pc = "fsync", !.ret = -1, !.broke = TRUE]
        /\ call[t] \in Working
    BY <1>1, <1>8 DEF WriteFails, AfterWrite, WorkingPc
  <2> QED
    BY <2>1 DEF Working, Same
<1>9. ASSUME ReadFails(t)
      PROVE  call'[t].pc = "fsync" /\ Same(call'[t], call[t])
  <2>1. (\E r : call'[t] = [call[t] EXCEPT !.pc = "fsync", !.ret = r]) /\ call[t] \in Working
    BY <1>1, <1>9 DEF ReadFails, WorkingPc
  <2> QED
    BY <2>1 DEF Working, Same
<1>10. ASSUME Fsync(t)
       PROVE  call'[t].pc = "close" /\ call'[t].ret = call[t].ret /\ Same(call'[t], call[t])
  <2>1. call'[t] = [call[t] EXCEPT !.pc = "close"] /\ call[t] \in Working
    BY <1>1, <1>10 DEF Fsync, WorkingPc
  <2> QED
    BY <2>1 DEF Working, Same
<1> QED
  BY <1>2, <1>3, <1>4, <1>5, <1>6, <1>7, <1>8, <1>9, <1>10

\* Where a step of a call that is in its loop, or comes to it, takes the call:
\* it stays at its place or moves to the next one, for the same packet.
InPart(c) == c.part \in 1 .. 3 /\ Place(c) = c.part

LEMMA StepOfPlace ==
    ASSUME TypeOk, StartsAtFirst, NEW t \in Threads, Step(t),
           call'[t].pc \notin {"idle", "publish"}
    PROVE  LET c == call[t]
               d == call'[t]
           IN  /\ d.packet = c.packet /\ d.slot = c.slot /\ d.pc # "unpack"
               /\ \/ Unpack(t) /\ d.pc = "sync" /\ Place(d) = 0
                  \/ Sync(t) /\ Place(c) = 0 /\ Place(d) = 1
                  \/ /\ SkipPart(t) \/ (Close(t) /\ c.ret = 0)
                     /\ InPart(c) /\ Place(d) = c.part + 1 /\ d.pc \in {"part", "switch"}
                  \/ /\ \/ OpenPart(t) \/ RejectImage(t) \/ WriteBlock(t) \/ WriteLastBlock(t)
                        \/ WriteFails(t) \/ ReadFails(t) \/ Fsync(t)
                     /\ InPart(c) /\ Place(d) = c.part
                  \/ SwitchRead(t) /\ Place(c) = 4 /\ Place(d) = 4
<1> USE DEF At, Goto
<1>1. /\ call \in [Threads -> Calls]
      /\ call[t].pc \in WorkingPc => call[t] \in Working
  BY CallFacts DEF TypeOk, Calls
<1>2. \A c \in Working : c.part \in 1 .. 3 /\ c.ret \in {0, -1}
  BY PartFacts DEF Working
<1>3. CASE Unpack(t)
  <2>1. call'[t].pc = "sync" /\ Same(call'[t], call[t])
    BY <1>3, StepOfRecord
  <2> QED
    BY <1>3, <2>1 DEF Place, Same
<1>4. CASE Sync(t)
  <2>1. call[t].pc = "sync" /\ call'[t].pc = "part" /\ Same(call'[t], call[t]) /\ call[t].part = 1
    BY <1>4, StepOfRecord DEF Sync, StartsAtFirst
  <2> QED
    BY <1>4, <2>1 DEF Place, Same
<1>5. CASE SkipPart(t) \/ Close(t)
  <2>1. call[t] \in Working /\ call[t].pc \in {"part", "close"}
    BY <1>1, <1>5 DEF SkipPart, Close, WorkingPc
  <2>2. call'[t] = NextPart(call[t]) /\ (Close(t) => call[t].ret = 0)
    <3>1. CASE SkipPart(t)
      BY <1>1, <3>1 DEF SkipPart, Close
    <3>2. CASE Close(t) /\ call[t].ret < 0
      BY <1>1, <3>2 DEF Close, Publish
    <3>3. CASE Close(t) /\ ~(call[t].ret < 0)
      BY <1>1, <1>2, <2>1, <3>3 DEF Close
    <3> QED
      BY <1>5, <3>1, <3>2, <3>3
  <2>3. Place(call[t]) = call[t].part
    BY <2>1 DEF Place
  <2> QED
    BY <1>5, <2>1, <2>2, <2>3, NextPartFacts DEF InPart
<1>6. CASE \/ OpenPart(t) \/ RejectImage(t) \/ WriteBlock(t) \/ WriteLastBlock(t)
           \/ WriteFails(t) \/ ReadFails(t) \/ Fsync(t)
  <2>1. call[t] \in Working /\ call[t].pc \in {"part", "write", "fsync"}
    BY <1>1, <1>6
    DEF OpenPart, RejectImage, WriteBlock, WriteLastBlock, WriteFails, ReadFails, Fsync, WorkingPc
  <2>2. Same(call'[t], call[t]) /\ call'[t].pc \in {"write", "fsync", "close"}
    BY <1>6, StepOfRecord
  <2> QED
    BY <1>2, <1>6, <2>1, <2>2 DEF Same, Place, InPart
<1>7. CASE SwitchRead(t)
  <2>1. /\ call[t].pc = "switch" /\ call'[t].pc = "switch_write"
        /\ call'[t].packet = call[t].packet /\ call'[t].slot = call[t].slot
    BY <1>1, <1>7 DEF SwitchRead
  <2> QED
    BY <1>7, <2>1, PartFacts DEF Place
<1>8. CASE OpenPartFails(t) \/ SwitchReadFails(t) \/ SwitchWrite(t) \/ SwitchWriteFails(t) \/ Return(t)
  BY <1>1, <1>8
  DEF OpenPartFails, SwitchReadFails, SwitchWrite, SwitchWriteFails, Return, Publish, Idle
<1> QED
  BY <1>3, <1>4, <1>5, <1>6, <1>7, <1>8 DEF Step

\* A call does not get into its loop in any other way.
LEMMA OtherStepsOfPlace ==
    ASSUME TypeOk, [Next]_vars, NEW u \in Threads, Unpacked(call'[u]), ~Step(u),
           \A t \in Threads : t = u
    PROVE  /\ call'[u] = call[u]
           /\ UNCHANGED <<temp, cache, installed>>
           /\ \A s \in Slot, p \in Part : cache[s][p] = flash[s][p] => flash'[s][p] = flash[s][p]
<1> USE DEF meta, parts, files
<1>1. CASE \E t \in Threads, q \in Packets : Start(t, q)
  BY <1>1 DEF Start, Goto, TypeOk, Unpacked
<1>2. CASE \E t \in Threads : Step(t)
  BY <1>2
<1>3. CASE Kill \/ Reset
  BY <1>3 DEF Kill, Reset, Idle, Unpacked
<1>4. CASE UpgradeInit \/ WritebackFile \/ WritebackMisc \/ Boot \/ UNCHANGED vars
  BY <1>4 DEF UpgradeInit, WritebackFile, WritebackMisc, Boot, vars
<1>5. CASE WritebackPart
  BY <1>5 DEF WritebackPart, TypeOk
<1> QED
  BY <1>1, <1>2, <1>3, <1>4, <1>5 DEF Next

\* The loop starts at the first partition in every call.
LEMMA NextStartsAtFirst == TypeOk /\ StartsAtFirst /\ [Next]_vars => StartsAtFirst'
<1> SUFFICES ASSUME TypeOk, StartsAtFirst, [Next]_vars,
                    NEW u \in Threads, call'[u].pc \in {"unpack", "sync"}
             PROVE  call'[u].part = 1
  BY DEF StartsAtFirst
<1> USE DEF meta, parts, files
<1>1. CASE call'[u] = call[u]
  BY <1>1 DEF StartsAtFirst
<1>2. ASSUME NEW t \in Threads, NEW q \in Packets, Start(t, q)
      PROVE  call'[u].part = 1
  <2>1. CASE u = t
    BY <1>2, <2>1 DEF Start, Goto, TypeOk
  <2>2. CASE u # t
    BY <1>1, <1>2, <2>2 DEF Start, Goto, TypeOk
  <2> QED
    BY <2>1, <2>2
<1>3. ASSUME NEW t \in Threads, Step(t)
      PROVE  call'[u].part = 1
  <2>1. CASE u # t
    BY <1>1, <1>3, <2>1, OthersStay
  <2>2. CASE u = t /\ Unpack(t)
    BY <2>2, StepOfRecord DEF Unpack, At, Same, StartsAtFirst
  <2>3. CASE u = t /\ ~Unpack(t)
    BY <1>3, <2>3, StepOfPlace DEF Place, InPart
  <2> QED
    BY <2>1, <2>2, <2>3
<1>4. CASE Kill \/ Reset
  BY <1>4 DEF Kill, Reset, Idle
<1>5. CASE UpgradeInit \/ WritebackPart \/ WritebackFile \/ WritebackMisc \/ Boot
  BY <1>1, <1>5 DEF UpgradeInit, WritebackPart, WritebackFile, WritebackMisc, Boot
<1>6. CASE UNCHANGED vars
  BY <1>1, <1>6 DEF vars
<1> QED
  BY <1>2, <1>3, <1>4, <1>5, <1>6 DEF Next

\* Each call has its own thread, so with one thread a step is a step of that call.
Alone == \A t, u \in Threads : t = u

\* No step of a single call leaves an image of a partition it is done with.
LEMMA NextNoImageBehind ==
    ASSUME "image_open" \notin Faults, Alone
    PROVE  TypeOk /\ StartsAtFirst /\ NoImageBehind /\ [Next]_vars => NoImageBehind'
<1> SUFFICES ASSUME TypeOk, StartsAtFirst, NoImageBehind, [Next]_vars,
                    NEW t \in Threads, Unpacked(call'[t]),
                    NEW i \in 1 .. 3, i < Place(call'[t])
             PROVE  temp'[PartName[i]] = Absent
  BY PartFacts DEF NoImageBehind
<1> USE DEF meta, parts, files
<1>1. ASSUME temp' = temp, Unpacked(call[t]), i < Place(call[t])
      PROVE  temp'[PartName[i]] = Absent
  BY <1>1, PartFacts DEF NoImageBehind
<1>2. CASE ~Step(t)
  BY <1>1, <1>2, OtherStepsOfPlace DEF Alone
<1>3. CASE Step(t)
  <2>1. call'[t].pc \notin {"idle", "publish"}
    BY DEF Unpacked
  <2>2. CASE Unpack(t) /\ Place(call'[t]) = 0
    BY <2>2
  <2>3. CASE Sync(t) /\ Place(call'[t]) = 1
    BY <2>3
  <2>4. CASE /\ SkipPart(t) \/ Close(t)
             /\ InPart(call[t]) /\ Place(call'[t]) = call[t].part + 1
    <3>1. CASE i < call[t].part
      <4>1. Unpacked(call[t]) /\ temp[PartName[i]] = Absent
        BY <2>4, <3>1, PartFacts DEF SkipPart, Close, At, NoImageBehind, Unpacked, InPart
      <4> QED
        BY <2>4, <4>1, PartFacts DEF SkipPart, Close, TypeOk
    <3>2. CASE i = call[t].part
      BY <2>4, <3>2, PartFacts DEF SkipPart, Close, TypeOk, PartOf
    <3> QED
      BY <2>4, <3>1, <3>2 DEF InPart
  <2>5. CASE /\ \/ OpenPart(t) \/ RejectImage(t) \/ WriteBlock(t) \/ WriteLastBlock(t)
                \/ WriteFails(t) \/ ReadFails(t) \/ Fsync(t) \/ SwitchRead(t)
             /\ Place(call'[t]) = Place(call[t])
    <3>1. Unpacked(call[t]) /\ temp' = temp
      BY <2>5 DEF OpenPart, RejectImage, WriteBlock, WriteLastBlock, WriteFails, ReadFails, Fsync,
                  SwitchRead, At, Unpacked
    <3> QED
      BY <1>1, <2>5, <3>1
  <2> QED
    BY <1>3, <2>1, <2>2, <2>3, <2>4, <2>5, StepOfPlace DEF InPart
<1> QED
  BY <1>2, <1>3

\* Once it is unpacked, the images a single call has still to write stay.
LEMMA NextImagesAhead ==
    ASSUME "unpack_partial" \notin Faults, Alone
    PROVE  TypeOk /\ StartsAtFirst /\ ImagesAhead /\ [Next]_vars => ImagesAhead'
<1> SUFFICES ASSUME TypeOk, StartsAtFirst, ImagesAhead, [Next]_vars,
                    NEW t \in Threads, Unpacked(call'[t]),
                    NEW i \in 1 .. 3, i >= Place(call'[t]),
                    PartName[i] \in Images[call'[t].packet]
             PROVE  temp'[PartName[i]] = call'[t].packet
  BY PartFacts DEF ImagesAhead
<1> USE DEF meta, parts, files
<1>1. ASSUME temp' = temp, Unpacked(call[t]), i >= Place(call[t]),
             call'[t].packet = call[t].packet
      PROVE  temp'[PartName[i]] = call'[t].packet
  BY <1>1, PartFacts DEF ImagesAhead
<1>2. CASE ~Step(t)
  BY <1>1, <1>2, OtherStepsOfPlace DEF Alone
<1>3. CASE Step(t)
  <2>1. call'[t].pc \notin {"idle", "publish"}
    BY DEF Unpacked
  <2>2. call'[t].packet = call[t].packet
    BY <1>3, <2>1, StepOfPlace
  <2>3. CASE Unpack(t) /\ call'[t].pc = "sync"
    <3>1. temp' = [p \in Part |-> IF p \in Images[call[t].packet] THEN call[t].packet ELSE temp[p]]
      BY <2>3 DEF Unpack, Goto, Publish, TypeOk
    <3> QED
      BY <2>2, <3>1, PartFacts
  <2>4. CASE Sync(t) /\ Place(call[t]) = 0 /\ Place(call'[t]) = 1
    <3>1. temp' = temp /\ Unpacked(call[t])
      BY <2>4 DEF Sync, At, Unpacked
    <3> QED
      BY <1>1, <2>2, <2>4, <3>1
  <2>5. CASE /\ SkipPart(t) \/ Close(t)
             /\ InPart(call[t]) /\ Place(call'[t]) = call[t].part + 1
    <3>1. Unpacked(call[t]) /\ i >= Place(call[t]) /\ i # call[t].part
      BY <2>5 DEF SkipPart, Close, At, Unpacked, InPart
    <3>2. temp[PartName[i]] = call[t].packet
      BY <2>2, <3>1, PartFacts DEF ImagesAhead
    <3>3. PartName[i] # PartOf(t)
      BY <2>5, <3>1, PartsDiffer DEF PartOf, InPart
    <3> QED
      BY <2>2, <2>5, <3>2, <3>3, PartFacts DEF SkipPart, Close, TypeOk
  <2>6. CASE /\ \/ OpenPart(t) \/ RejectImage(t) \/ WriteBlock(t) \/ WriteLastBlock(t)
                \/ WriteFails(t) \/ ReadFails(t) \/ Fsync(t) \/ SwitchRead(t)
             /\ Place(call'[t]) = Place(call[t])
    <3>1. Unpacked(call[t]) /\ temp' = temp
      BY <2>6 DEF OpenPart, RejectImage, WriteBlock, WriteLastBlock, WriteFails, ReadFails, Fsync,
                  SwitchRead, At, Unpacked
    <3> QED
      BY <1>1, <2>2, <2>6, <3>1
  <2> QED
    BY <1>3, <2>1, <2>3, <2>4, <2>5, <2>6, StepOfPlace DEF InPart
<1> QED
  BY <1>2, <1>3

\* What the storage steps of a call do to the partitions of its target slot: to
\* the one being written, and to the others.
LEMMA StepOfStorage ==
    ASSUME TypeOk, NEW t \in Threads, Step(t), NEW p \in Part,
           cache[Target(t)][p] = flash[Target(t)][p],
           p = PartOf(t) => ~WriteBlock(t) /\ ~WriteLastBlock(t) /\ ~WriteFails(t)
    PROVE  /\ cache'[Target(t)][p] = cache[Target(t)][p]
           /\ flash'[Target(t)][p] = flash[Target(t)][p]
<1> USE DEF meta, parts, files
<1>1. CASE Sync(t)
  BY <1>1 DEF Sync
<1>2. CASE Fsync(t)
  BY <1>2 DEF Fsync, TypeOk
<1>3. CASE WriteBlock(t) \/ WriteLastBlock(t) \/ WriteFails(t)
  <2>1. flash' = flash /\ (cache' = cache \/ \E content : Store(t, content)) /\ p # PartOf(t)
    BY <1>3 DEF WriteBlock, WriteLastBlock, WriteFails
  <2> QED
    BY <2>1 DEF Store, TypeOk
<1>4. CASE ~Sync(t) /\ ~Fsync(t) /\ ~WriteBlock(t) /\ ~WriteLastBlock(t) /\ ~WriteFails(t)
  BY <1>4 DEF Step, Unpack, SkipPart, OpenPart, OpenPartFails, RejectImage, ReadFails, Close,
              SwitchRead, SwitchReadFails, SwitchWrite, SwitchWriteFails, Return
<1> QED
  BY <1>1, <1>2, <1>3, <1>4

\* What a single call carries reaches the medium before the call goes on to the
\* next partition.
LEMMA NextReachesMedium ==
    ASSUME Faults \intersect {"image_open", "image_read", "flash_sync"} = {}, Alone
    PROVE  TypeOk /\ StartsAtFirst /\ ImagesAhead /\ ReachesMedium /\ [Next]_vars
              => ReachesMedium'
<1> SUFFICES ASSUME TypeOk, StartsAtFirst, ImagesAhead, ReachesMedium, [Next]_vars,
                    NEW t \in Threads, Unpacked(call'[t]),
                    NEW i \in 1 .. 3, PartName[i] \in Images[call'[t].packet]
             PROVE  /\ i < Place(call'[t]) => Durable(call[t], PartName[i])'
                    /\ i = Place(call'[t]) => Carried(call[t], PartName[i])'
  BY PartFacts DEF ReachesMedium
<1> USE DEF meta, parts, files
<1> DEFINE c == call[t]
           p == PartName[i]
<1>1. p \in Part
  BY PartFacts
<1>2. /\ Unpacked(c) /\ p \in Images[c.packet] /\ i < Place(c) => Durable(c, p)
      /\ Unpacked(c) /\ p \in Images[c.packet] /\ i = Place(c) => Carried(c, p)
      /\ Unpacked(c) /\ p \in Images[c.packet] /\ i >= Place(c) => temp[p] = c.packet
  BY PartFacts DEF ReachesMedium, ImagesAhead
<1>3. CASE ~Step(t)
  <2>1. /\ call'[t] = c /\ cache' = cache
        /\ \A s \in Slot : cache[s][p] = flash[s][p] => flash'[s][p] = flash[s][p]
    BY <1>1, <1>3, OtherStepsOfPlace DEF Alone
  <2>2. c.slot \in Slot /\ Other(c.slot) \in Slot
    BY <2>1, CallFacts DEF Unpacked, WorkingPc, Working, Switching, Other, Slot
  <2> QED
    BY <1>2, <2>1, <2>2 DEF Durable, Stored, Carried
<1>4. CASE Step(t)
  <2>1. call'[t].pc \notin {"idle", "publish"}
    BY DEF Unpacked
  <2>2. call'[t].packet = c.packet /\ call'[t].slot = c.slot
    BY <1>4, <2>1, StepOfPlace
  <2>3. ASSUME Durable(c, p),
    p = PartOf(t) => ~WriteBlock(t) /\ ~WriteLastBlock(t) /\ ~WriteFails(t)
        PROVE  Durable(c, p)'
    BY <1>1, <1>4, <2>2, <2>3, StepOfStorage DEF Durable, Stored, Target
  <2>4. CASE Unpack(t) /\ Place(call'[t]) = 0
    BY <2>4
  <2>5. CASE Sync(t) /\ Place(call'[t]) = 1
    <3>1. call'[t].pc = "part"
      BY <2>5, StepOfRecord
    <3> QED
      BY <2>5, <3>1 DEF Carried
  <2>6. CASE /\ SkipPart(t) \/ (Close(t) /\ c.ret = 0)
             /\ InPart(c) /\ Place(call'[t]) = c.part + 1 /\ call'[t].pc \in {"part", "switch"}
    <3>1. /\ Unpacked(c) /\ ~WriteBlock(t) /\ ~WriteLastBlock(t) /\ ~WriteFails(t)
          /\ Close(t) => c.pc = "close"
      BY <2>6 DEF SkipPart, Close, WriteBlock, WriteLastBlock, WriteFails, At, Unpacked
    <3>2. CASE i < c.part
      BY <1>2, <2>2, <2>3, <2>6, <3>1, <3>2 DEF InPart
    <3>3. CASE i = c.part
      <4>1. Carried(c, p) /\ temp[p] = c.packet
        BY <1>2, <2>2, <2>6, <3>1, <3>3 DEF InPart
      <4>2. ASSUME Close(t) PROVE Durable(c, p)'
        <5>1. c.pc = "close" /\ c.ret = 0
          BY <2>6, <3>1, <4>2 DEF SkipPart, Close, At
        <5>2. Durable(c, p)
          BY <4>1, <5>1 DEF Carried
        <5> QED
          BY <2>3, <3>1, <5>2
      <4>3. ASSUME SkipPart(t) PROVE FALSE
        <5>1. temp[p] = Absent
          BY <3>3, <4>3 DEF SkipPart, PartOf
        <5>2. c.packet \in Packets
          BY <3>1, CallFacts DEF Unpacked, WorkingPc, Working, Switching
        <5> QED
          BY <4>1, <5>1, <5>2, ContentAssumption
      <4> QED
        BY <2>6, <3>3, <4>2, <4>3 DEF InPart
    <3>4. CASE i = c.part + 1
      BY <2>6, <3>4 DEF Carried, InPart
    <3> QED
      BY <2>6, <3>2, <3>3, <3>4 DEF InPart
  <2>7. CASE /\ \/ OpenPart(t) \/ RejectImage(t) \/ WriteBlock(t) \/ WriteLastBlock(t)
                \/ WriteFails(t) \/ ReadFails(t) \/ Fsync(t)
             /\ InPart(c) /\ Place(call'[t]) = c.part
    <3>1. Unpacked(c)
      BY <2>7 DEF OpenPart, RejectImage, WriteBlock, WriteLastBlock, WriteFails, ReadFails, Fsync,
                  At, Unpacked
    <3>2. CASE i < c.part
      <4>1. p # PartOf(t)
        BY <2>7, <3>2, PartsDiffer DEF PartOf, InPart
      <4> QED
        BY <1>2, <2>2, <2>3, <2>7, <3>1, <3>2, <4>1 DEF InPart
    <3>3. ASSUME i = c.part PROVE Carried(c, p)'
      <4>1. Carried(c, p) /\ temp[p] = c.packet /\ p = PartOf(t)
        BY <1>2, <2>2, <2>7, <3>1, <3>3 DEF InPart, PartOf
      <4>2. CASE OpenPart(t)
        BY <2>2, <4>1, <4>2, StepOfRecord DEF Carried
      <4>3. CASE RejectImage(t)
        BY <4>3, StepOfRecord DEF Carried
      <4>4. CASE WriteBlock(t)
        <5>1. c.pc = "write" /\ call'[t].pc = "write" /\ call'[t].img = c.img
          BY <4>4, StepOfRecord DEF WriteBlock, At
        <5> QED
          BY <2>2, <4>1, <5>1 DEF Carried
      <4>5. CASE WriteLastBlock(t)
        <5>1. Store(t, c.packet)
          BY <4>1, <4>5 DEF WriteLastBlock, Carried, At
        <5>2. Target(t) \in Slot
          BY <3>1, CallFacts DEF Unpacked, WorkingPc, Working, Switching, Target, Other, Slot
        <5>3. cache'[Target(t)][p] = c.packet
          BY <1>1, <4>1, <5>1, <5>2 DEF Store, TypeOk
        <5>4. call'[t].pc = "fsync"
          BY <4>5, StepOfRecord
        <5> QED
          BY <2>2, <5>3, <5>4 DEF Carried, Stored, Target
      <4>6. CASE WriteFails(t)
        BY <4>6, StepOfRecord DEF Carried
      <4>7. CASE Fsync(t)
        <5>1. /\ flash' = [flash EXCEPT ![Target(t)][PartOf(t)] = cache[Target(t)][PartOf(t)]]
              /\ cache' = cache /\ c.pc = "fsync"
          BY <4>7 DEF Fsync, At
        <5>2. Target(t) \in Slot
          BY <3>1, CallFacts DEF Unpacked, WorkingPc, Working, Switching, Target, Other, Slot
        <5>3. flash'[Target(t)][p] = cache[Target(t)][p]
          BY <1>1, <4>1, <5>1, <5>2 DEF TypeOk
        <5>4. call'[t].pc = "close" /\ call'[t].ret = c.ret
          BY <4>7, StepOfRecord
        <5> QED
          BY <2>2, <4>1, <5>1, <5>3, <5>4 DEF Carried, Durable, Stored, Target
      <4> QED
        BY <2>7, <4>2, <4>3, <4>4, <4>5, <4>6, <4>7 DEF ReadFails
    <3> QED
      BY <2>7, <3>2, <3>3 DEF InPart
  <2>8. CASE SwitchRead(t) /\ Place(c) = 4 /\ Place(call'[t]) = 4
    <3>1. Unpacked(c) /\ ~WriteBlock(t) /\ ~WriteLastBlock(t) /\ ~WriteFails(t)
      BY <2>8 DEF SwitchRead, WriteBlock, WriteLastBlock, WriteFails, At, Unpacked
    <3> QED
      BY <1>2, <2>2, <2>3, <2>8, <3>1
  <2> QED
    BY <1>4, <2>1, <2>4, <2>5, <2>6, <2>7, <2>8, StepOfPlace
<1> QED
  BY <1>3, <1>4

\* No step makes an image of an installed packet dirty: a write to a slot ends
\* its being installed, and a switch installs what has reached the medium.
LEMMA NextInstalledIsClean ==
    TypeOk /\ LeadsAway /\ ReachesMedium /\ InstalledIsClean /\ [Next]_vars => InstalledIsClean'
<1> SUFFICES ASSUME TypeOk, LeadsAway, ReachesMedium, InstalledIsClean, [Next]_vars,
                    NEW s \in Slot, installed'[s] \in Packets,
                    NEW p \in Images[installed'[s]]
             PROVE  cache'[s][p] = installed'[s] /\ flash'[s][p] = installed'[s]
  BY DEF InstalledIsClean
<1> USE DEF meta, parts, files
<1>1. p \in Part
  BY ImagesAssumption
<1>2. ASSUME installed'[s] = installed[s]
      PROVE  cache[s][p] = installed'[s] /\ flash[s][p] = installed'[s]
  BY <1>2 DEF InstalledIsClean
<1>3. CASE UNCHANGED <<cache, flash, installed>>
  BY <1>2, <1>3
<1>4. ASSUME NEW t \in Threads, Step(t)
      PROVE  cache'[s][p] = installed'[s] /\ flash'[s][p] = installed'[s]
  <2>1. CASE SwitchWrite(t)
    <3>1. /\ call[t] \in Switching /\ call[t].pc = "switch_write"
          /\ UNCHANGED <<cache, flash>>
          /\ installed' = [installed EXCEPT ![Other(call[t].told)] = call[t].packet]
      BY <2>1, CallFacts DEF SwitchWrite, At
    <3>2. call[t].told = call[t].slot
      BY <3>1 DEF LeadsAway
    <3>3. CASE s = Other(call[t].slot)
      <4>1. installed'[s] = call[t].packet
        BY <3>1, <3>2, <3>3 DEF TypeOk
      <4>2. PICK i \in 1 .. 3 : p = PartName[i]
        BY <1>1, PartsListed
      <4>3. Durable(call[t], p)
        BY <3>1, <4>1, <4>2, PartFacts DEF ReachesMedium, Unpacked, Place
      <4> QED
        BY <3>1, <3>3, <4>1, <4>3 DEF Durable, Stored
    <3>4. CASE s # Other(call[t].slot)
      <4>1. installed'[s] = installed[s]
        BY <3>1, <3>2, <3>4 DEF TypeOk
      <4> QED
        BY <1>2, <3>1, <4>1
    <3> QED
      BY <3>3, <3>4
  <2>2. CASE WriteBlock(t) \/ WriteLastBlock(t) \/ WriteFails(t)
    <3>1. flash' = flash
          /\ (UNCHANGED <<cache, installed>> \/ \E content : Store(t, content))
      BY <2>2 DEF WriteBlock, WriteLastBlock, WriteFails
    <3>2. ASSUME NEW content, Store(t, content)
          PROVE  s # Target(t) /\ installed'[s] = installed[s] /\ cache'[s] = cache[s]
      <4>1. installed' = [installed EXCEPT ![Target(t)] = Absent]
        BY <3>2 DEF Store
      <4>2. s # Target(t)
        BY <4>1, ContentAssumption DEF TypeOk
      <4> QED
        BY <3>2, <4>1, <4>2 DEF Store, TypeOk
    <3> QED
      BY <1>2, <3>1, <3>2
  <2>3. CASE Sync(t)
    BY <1>2, <2>3 DEF Sync
  <2>4. CASE Fsync(t)
    <3>1. UNCHANGED <<cache, installed>> /\ cache[s][p] = installed[s] /\ flash[s][p] = installed[s]
      BY <1>2, <2>4 DEF Fsync
    <3>2. flash'[s][p] = flash[s][p] \/ flash'[s][p] = cache[s][p]
      <4>1. ASSUME NEW a, NEW b, NEW content, flash' = [flash EXCEPT ![a][b] = content]
            PROVE  flash'[s][p] = flash[s][p] \/ (a = s /\ b = p /\ flash'[s][p] = content)
        BY <1>1, <4>1 DEF TypeOk
      <4>2. CASE UNCHANGED flash
        BY <4>2
      <4>3. CASE flash' = [flash EXCEPT ![Target(t)][PartOf(t)] = cache[Target(t)][PartOf(t)]]
        <5> DEFINE content == cache[Target(t)][PartOf(t)]
        <5>1. \/ flash'[s][p] = flash[s][p]
              \/ Target(t) = s /\ PartOf(t) = p /\ flash'[s][p] = content
          BY <4>1, <4>3
        <5>2. CASE Target(t) = s /\ PartOf(t) = p /\ flash'[s][p] = content
          BY <5>2
        <5> QED
          BY <5>1, <5>2
      <4> QED
        BY <2>4, <4>2, <4>3 DEF Fsync
    <3> QED
      BY <3>1, <3>2
  <2>5. CASE \/ Unpack(t) \/ SkipPart(t) \/ OpenPart(t) \/ OpenPartFails(t) \/ RejectImage(t)
             \/ ReadFails(t) \/ Close(t) \/ SwitchRead(t) \/ SwitchReadFails(t)
             \/ SwitchWriteFails(t) \/ Return(t)
    BY <1>3, <2>5 DEF Unpack, SkipPart, OpenPart, OpenPartFails, RejectImage, ReadFails, Close,
       SwitchRead, SwitchReadFails, SwitchWriteFails, Return
  <2> QED
    BY <1>4, <2>1, <2>2, <2>3, <2>4, <2>5 DEF Step
<1>5. CASE \E t \in Threads, q \in Packets : Start(t, q)
  BY <1>3, <1>5 DEF Start
<1>6. CASE WritebackPart
  <2>1. UNCHANGED <<cache, installed>> /\ cache[s][p] = installed[s] /\ flash[s][p] = installed[s]
    BY <1>2, <1>6 DEF WritebackPart
  <2>2. flash'[s][p] = flash[s][p]
    BY <1>1, <1>6, <2>1 DEF WritebackPart, TypeOk
  <2> QED
    BY <2>1, <2>2
<1>7. CASE Reset
  BY <1>2, <1>7 DEF Reset
<1>8. CASE UpgradeInit \/ WritebackFile \/ WritebackMisc \/ Kill \/ Boot \/ UNCHANGED vars
  BY <1>3, <1>8 DEF UpgradeInit, WritebackFile, WritebackMisc, Kill, Boot, vars
<1> QED
  BY <1>4, <1>5, <1>6, <1>7, <1>8 DEF Next

\* With one call at a time, and images that can be opened, nothing is left in the
\* temporary directory when the metadata is switched, whatever was left there by
\* the packets, kills and power cuts before (dl_upgrade.c:216).
THEOREM SwitchIsTidy ==
    ASSUME "image_open" \notin Faults, Alone
    PROVE  Spec => []SwitchLeavesNoImage
<1>1. Init => StartsAtFirst /\ NoImageBehind
  BY DEF Init, StartsAtFirst, NoImageBehind, Unpacked, Idle
<1>2. TypeOk /\ StartsAtFirst /\ NoImageBehind /\ [Next]_vars => NoImageBehind'
  BY NextNoImageBehind
<1>3. NoImageBehind => SwitchLeavesNoImage
  <2> SUFFICES ASSUME NoImageBehind, NEW t \in Threads,
                      call[t].pc \in {"switch", "switch_write"}, NEW p \in Part
               PROVE  temp[p] = Absent
    BY DEF SwitchLeavesNoImage
  <2>1. Unpacked(call[t]) /\ Place(call[t]) = 4
    BY PartFacts DEF Unpacked, Place
  <2>2. PICK i \in 1 .. 3 : p = PartName[i]
    BY PartsListed
  <2> QED
    BY <2>1, <2>2, PartFacts DEF NoImageBehind
<1> QED
  BY <1>1, <1>2, <1>3, NextStartsAtFirst, TypeCorrect, PTL DEF Spec

\* With one call at a time, once the metadata was switched to a slot for a packet
\* every image of the packet is on the medium, and stays there until the slot is
\* written again: for every number of packets and whatever images they carry,
\* whenever the power goes, whichever of the other calls fails.
THEOREM SwitchIsSafe ==
    ASSUME Faults \intersect {"cmdline_read", "unpack_partial", "image_open", "image_read",
                              "flash_sync"} = {},
           Alone
    PROVE  Spec => []SwitchIsDurable
<1>1. Init => StartsAtFirst /\ ImagesAhead /\ ReachesMedium
  BY DEF Init, StartsAtFirst, ImagesAhead, ReachesMedium, Unpacked, Idle
<1>2. Init => InstalledIsClean
  BY ContentAssumption DEF Init, InstalledIsClean
<1>3. TypeOk /\ StartsAtFirst /\ ImagesAhead /\ [Next]_vars => ImagesAhead'
  BY NextImagesAhead
<1>4. TypeOk /\ StartsAtFirst /\ ImagesAhead /\ ReachesMedium /\ [Next]_vars => ReachesMedium'
  BY NextReachesMedium
<1>5. Spec => [](TypeOk /\ RunsFrom /\ LeadsAway)
  BY AlwaysLeadsAway
<1>6. InstalledIsClean => SwitchIsDurable
  BY DEF InstalledIsClean, SwitchIsDurable
<1> QED
  BY <1>1, <1>2, <1>3, <1>4, <1>5, <1>6, NextStartsAtFirst, NextInstalledIsClean, PTL DEF Spec
-----------------------------------------------------------------------------
(* The steps of an upgrade are steps of the life of the metadata *)

\* A device that is not up stays clean: it has nothing to write back, runs no
\* call, and was up, or reset, before.
LEMMA NextDownIsClean ==
    ASSUME "cmdline_read" \notin Faults
    PROVE  TypeOk /\ RunsFrom /\ DownIsClean /\ [Next]_vars => DownIsClean'
<1> SUFFICES ASSUME TypeOk, RunsFrom, DownIsClean, [Next]_vars, ~Up'
             PROVE  cache' = flash' /\ misc' = disk' /\ \A t \in Threads : call'[t].pc = "idle"
  BY DEF DownIsClean
<1> USE DEF meta, parts, files
<1>1. ASSUME Up PROVE running' # running
  <2>1. running \in Slot /\ running # NoSlot
    BY <1>1 DEF Up, Works, Slot, NoSlot
  <2>2. flash'[running] = flash[running]
    BY <2>1, NextSparesRunning
  <2>3. \A p \in Part : flash'[running][p] # Damaged
    BY <1>1, <2>2 DEF Up, Works
  <2> QED
    BY <2>1, <2>3 DEF Up, Works
<1>2. CASE UNCHANGED <<running, cache, flash, misc, disk, call>>
  BY <1>1, <1>2 DEF DownIsClean
<1>3. ASSUME NEW t \in Threads, NEW q \in Packets, Start(t, q)
      PROVE  FALSE
  BY <1>1, <1>3 DEF Start, At
<1>4. ASSUME NEW t \in Threads, Step(t)
      PROVE  FALSE
  BY <1>1, <1>4, StepFrame
<1>5. CASE UpgradeInit \/ WritebackFile \/ Kill
  BY <1>1, <1>2, <1>5 DEF UpgradeInit, WritebackFile, Kill
<1>6. CASE WritebackPart
  BY <1>1, <1>6 DEF WritebackPart, DownIsClean
<1>7. CASE WritebackMisc
  BY <1>1, <1>7 DEF WritebackMisc, DownIsClean
<1>8. CASE Reset
  BY <1>8 DEF Reset, Idle
<1>9. CASE Boot
  BY <1>9 DEF Boot, RunsFrom
<1>10. CASE UNCHANGED vars
  BY <1>2, <1>10 DEF vars
<1> QED
  BY <1>3, <1>4, <1>5, <1>6, <1>7, <1>8, <1>9, <1>10 DEF Next

\* The calls as AbBoot sees them
AbCall ==
    [t \in Threads |->
       IF call[t].pc = "switch_write"
       THEN [op |-> "another", slot |-> call[t].told, meta |-> call[t].meta]
       ELSE [op |-> "idle"]]

\* AbBoot sees nothing of a call before it has read the metadata for its switch.
LEMMA CallsUnseen ==
    ASSUME \A t \in Threads : \/ call'[t] = call[t]
                              \/ call[t].pc # "switch_write" /\ call'[t].pc # "switch_write"
    PROVE  AbCall' = AbCall
BY DEF AbCall

\* A factory-fresh device is one of AbBoot.
LEMMA InitBoots == Init => Boots!Init
<1> SUFFICES ASSUME Init PROVE Boots!Init
  OBVIOUS
<1>1. disk \in Boots!FactoryMeta
  BY DEF Init, FactoryMeta, FactoryContent, FactoryA, FactoryB, Slot,
     Boots!FactoryMeta, Boots!FactoryContent, Boots!FactoryA, Boots!FactoryB, Boots!Slot
<1>2. Works \in {w \in SUBSET Boots!Slot : 0 \in w}
  BY ContentAssumption DEF Init, Works, Slot, Boots!Slot
<1>3. AbCall = [c \in Threads |-> Boots!Idle]
  BY DEF Init, AbCall, Idle, Boots!Idle
<1> QED
  BY <1>1, <1>2, <1>3 DEF Init, Boots!Init, Boots!Slot, Slot, NoSlot, Boots!NoSlot, AbCall

\* A step that AbBoot does not see.
LEMMA StutterBoots ==
    ASSUME UNCHANGED <<misc, disk, running, flash, AbCall, promised, attempts>>
    PROVE  UNCHANGED Boots!vars
BY DEF Boots!vars, Works, AbCall, NoSlot

\* A step that changes partitions of the other slot, or writes the metadata back.
LEMMA InstallBoots ==
    ASSUME Up, running \in Works', disk' \in {disk, misc},
           UNCHANGED <<misc, running, AbCall, promised, attempts>>
    PROVE  Boots!Install
<1>1. Works' \in SUBSET Boots!Slot
  BY DEF Works, Slot, Boots!Slot
<1> QED
  BY <1>1 DEF Boots!Install, Boots!Up, Up, AbCall, NoSlot

\* Every step of a call is a step of AbBoot, or none.
LEMMA StepBoots ==
    ASSUME "cmdline_read" \notin Faults, TypeOk, RunsFrom, NEW t \in Threads, Step(t)
    PROVE  [Boots!Next]_Boots!vars
<1> USE DEF At, Goto, meta, parts, files
<1>1. /\ Up /\ running' = running /\ running \in Works'
      /\ Boots!Up
  <2>1. Up /\ running' = running /\ running \in Slot /\ running # NoSlot
    BY StepFrame DEF Up, Works, Slot, NoSlot
  <2>2. flash'[running] = flash[running]
    BY <2>1, NextSparesRunning DEF Next
  <2> QED
    BY <2>1, <2>2 DEF Up, Works, Boots!Up
<1>2. \A u \in Threads \ {t} : \/ call'[u] = call[u]
                               \/ call[u].pc # "switch_write" /\ call'[u].pc # "switch_write"
  <2>1. ASSUME NEW u, call[u] \in Working, call[u].pc = "write"
        PROVE  [call[u] EXCEPT !.img = Damaged].pc = "write"
    BY <2>1 DEF Working
  <2> QED
    BY <2>1, StepFrame
<1>3. ASSUME call[t].pc # "switch_write", call'[t].pc # "switch_write"
      PROVE  /\ AbCall' = AbCall
             /\ UNCHANGED <<misc, running, promised, attempts>>
  <2>1. UNCHANGED <<misc, running, promised, attempts>>
    BY <1>3 DEF Step, Unpack, Sync, SkipPart, OpenPart, OpenPartFails, RejectImage, WriteBlock,
       WriteLastBlock, WriteFails, ReadFails, Fsync, Close, SwitchRead, SwitchReadFails,
       SwitchWrite, SwitchWriteFails, Return
  <2> QED
    BY <1>2, <1>3, <2>1, CallsUnseen
<1>4. CASE Sync(t) \/ Fsync(t)
  <2>1. disk' \in {disk, misc} /\ call[t].pc \in {"sync", "fsync"}
    BY <1>4 DEF Sync, Fsync
  <2>2. call'[t].pc # "switch_write"
    BY <2>1, StepOfCall DEF SwitchRead
  <2>3. Boots!Install
    BY <1>1, <1>3, <2>1, <2>2, InstallBoots
  <2> QED
    BY <2>3 DEF Boots!Next
<1>5. CASE \/ Unpack(t) \/ SkipPart(t) \/ OpenPart(t) \/ OpenPartFails(t) \/ RejectImage(t)
           \/ WriteBlock(t) \/ WriteLastBlock(t) \/ WriteFails(t) \/ ReadFails(t) \/ Close(t)
           \/ SwitchReadFails(t) \/ Return(t)
  <2>1. UNCHANGED <<disk, flash>> /\ call[t].pc # "switch_write"
    BY <1>5 DEF Unpack, SkipPart, OpenPart, OpenPartFails, RejectImage, WriteBlock,
       WriteLastBlock, WriteFails, ReadFails, Close, SwitchReadFails, Return
  <2>2. call'[t].pc # "switch_write"
    <3>1. CASE SwitchReadFails(t)
      BY <3>1 DEF SwitchReadFails, Publish, TypeOk
    <3>2. CASE ~SwitchReadFails(t)
      <4>1. call[t].pc # "switch"
        BY <1>5, <3>2 DEF Unpack, SkipPart, OpenPart, OpenPartFails, RejectImage, WriteBlock,
           WriteLastBlock, WriteFails, ReadFails, Close, Return
      <4> QED
        BY <4>1, StepOfCall DEF SwitchRead
    <3> QED
      BY <3>1, <3>2
  <2> QED
    BY <1>3, <2>1, <2>2, StutterBoots
<1>6. CASE SwitchRead(t)
  <2>1. PICK told \in RunningSlotResults(running, Faults) \ {NoSlot} :
           call'[t] = [pc |-> "switch_write", packet |-> call[t].packet,
                       slot |-> call[t].slot, told |-> told,
                       meta |-> ActiveAnotherSlot(misc, told)]
    BY <1>6 DEF SwitchRead, TypeOk
  <2>2. told \in Boots!RunningSlotResults(running, Faults \intersect {"cmdline_open",
    "cmdline_read"})
                    \ {Boots!NoSlot}
    BY <2>1 DEF RunningSlotResults, Boots!RunningSlotResults, NoSlot, Boots!NoSlot
  <2>3. AbCall[t].op = "idle"
    BY <1>6 DEF SwitchRead, AbCall
  <2>4. ActiveAnotherSlot(misc, told) = Boots!ActiveAnotherSlot(misc, told)
    BY DEF ActiveAnotherSlot, Boots!ActiveAnotherSlot, Seal, Boots!Seal, ContentOf, Boots!ContentOf,
           Other, Boots!Other, ReadOk, Boots!ReadOk
  <2>5. AbCall' = [AbCall EXCEPT ![t] = [op |-> "another", slot |-> told,
                                         meta |-> Boots!ActiveAnotherSlot(misc, told)]]
    <3>1. AbCall'[t] = [op |-> "another", slot |-> told, meta |-> Boots!ActiveAnotherSlot(misc,
      told)]
      BY <2>1, <2>4 DEF AbCall
    <3>2. \A u \in Threads \ {t} : AbCall'[u] = AbCall[u]
      BY <1>2 DEF AbCall
    <3>3. /\ AbCall = [u \in Threads |-> AbCall[u]]
          /\ AbCall' = [u \in Threads |-> AbCall'[u]]
      BY DEF AbCall
    <3> QED
      BY <3>1, <3>2, <3>3
  <2>6. UNCHANGED <<misc, disk, running, flash, promised, attempts>>
    BY <1>6 DEF SwitchRead
  <2>7. Boots!BeginActiveAnother(t)
    BY <1>1, <2>2, <2>3, <2>5, <2>6 DEF Boots!BeginActiveAnother, AbCall, Works, NoSlot
  <2> QED
    BY <2>7 DEF Boots!Next
<1>7. CASE SwitchWrite(t)
  <2>1. /\ AbCall[t].op = "another" /\ AbCall[t].slot = call[t].told
        /\ AbCall[t].meta = call[t].meta
    BY <1>7 DEF SwitchWrite, AbCall
  <2>2. AbCall' = [AbCall EXCEPT ![t] = Boots!Idle]
    BY <1>2, <1>7 DEF SwitchWrite, AbCall, Publish, Boots!Idle, TypeOk
  <2>3. /\ misc' = AbCall[t].meta
        /\ promised' = Boots!Other(AbCall[t].slot)
        /\ attempts' = [attempts EXCEPT ![Boots!Other(AbCall[t].slot)] = 0]
        /\ UNCHANGED <<disk, running, flash>>
    BY <1>7, <2>1 DEF SwitchWrite, Other, Boots!Other
  <2>4. Boots!CommitActiveAnother(t)
    BY <1>1, <2>1, <2>2, <2>3 DEF Boots!CommitActiveAnother, AbCall, Works, NoSlot
  <2> QED
    BY <2>4 DEF Boots!Next
<1>8. CASE SwitchWriteFails(t)
  <2>1. AbCall' = [c \in Threads |-> IF c \in {t} THEN Boots!Idle ELSE AbCall[c]]
    BY <1>2, <1>8 DEF SwitchWriteFails, AbCall, Publish, Boots!Idle, TypeOk
  <2>2. UNCHANGED <<misc, disk, running, flash, promised, attempts>>
    BY <1>8 DEF SwitchWriteFails
  <2>3. Boots!Abandon({t})
    BY <1>1, <2>1, <2>2 DEF Boots!Abandon, AbCall, Works, NoSlot
  <2> QED
    BY <2>3 DEF Boots!Next
<1> QED
  BY <1>4, <1>5, <1>6, <1>7, <1>8 DEF Step

\* So is every other step.
LEMMA NextBoots ==
    ASSUME "cmdline_read" \notin Faults
    PROVE  TypeOk /\ RunsFrom /\ DownIsClean /\ [Next]_vars => [Boots!Next]_Boots!vars
<1> SUFFICES ASSUME TypeOk, RunsFrom, DownIsClean, [Next]_vars
             PROVE  [Boots!Next]_Boots!vars
  OBVIOUS
<1> USE DEF meta, parts, files
<1>1. CASE UpgradeInit \/ WritebackFile
  BY <1>1, CallsUnseen, StutterBoots DEF UpgradeInit, WritebackFile
<1>2. ASSUME NEW t \in Threads, NEW q \in Packets, Start(t, q)
      PROVE  [Boots!Next]_Boots!vars
  <2>1. \A u \in Threads : \/ call'[u] = call[u]
                           \/ call[u].pc # "switch_write" /\ call'[u].pc # "switch_write"
    BY <1>2 DEF Start, At, Goto, TypeOk
  <2> QED
    BY <1>2, <2>1, CallsUnseen, StutterBoots DEF Start
<1>3. ASSUME NEW t \in Threads, Step(t)
      PROVE  [Boots!Next]_Boots!vars
  BY <1>3, StepBoots
<1>4. ASSUME Up, running' = running
      PROVE  running \in Works'
  <2>1. running \in Slot /\ running # NoSlot
    BY <1>4 DEF Up, Works, Slot, NoSlot
  <2>2. flash'[running] = flash[running]
    BY <2>1, NextSparesRunning
  <2> QED
    BY <1>4, <2>1, <2>2 DEF Up, Works
<1>5. CASE WritebackPart
  <2>1. Up
    BY <1>5 DEF WritebackPart, DownIsClean
  <2>2. Boots!Install
    BY <1>4, <1>5, <2>1, CallsUnseen, InstallBoots DEF WritebackPart
  <2> QED
    BY <2>2 DEF Boots!Next
<1>6. CASE WritebackMisc
  <2>1. CASE Up
    <3>1. Boots!Install
      BY <1>4, <1>6, <2>1, CallsUnseen, InstallBoots DEF WritebackMisc
    <3> QED
      BY <3>1 DEF Boots!Next
  <2>2. CASE ~Up
    BY <1>6, <2>2, CallsUnseen, StutterBoots DEF WritebackMisc, DownIsClean
  <2> QED
    BY <2>1, <2>2
<1>7. CASE Kill
  <2>1. AbCall' = [c \in Threads |-> IF c \in Threads THEN Boots!Idle ELSE AbCall[c]]
    BY <1>7 DEF Kill, Idle, AbCall, Boots!Idle
  <2>2. Boots!Abandon(Threads)
    BY <1>7, <2>1 DEF Kill, Boots!Abandon, Boots!Up, Up, AbCall, Works, NoSlot
  <2> QED
    BY <2>2 DEF Boots!Next
<1>8. CASE Reset
  <2>1. AbCall' = [c \in Threads |-> Boots!Idle]
    BY <1>8 DEF Reset, Idle, AbCall, Boots!Idle
  <2>2. Boots!Reset
    BY <1>8, <2>1 DEF Reset, Boots!Reset, AbCall, Works, NoSlot, Boots!NoSlot
  <2> QED
    BY <2>2 DEF Boots!Next
<1>9. CASE Boot
  <2>1. GetCurrentSlot(disk) = Boots!GetCurrentSlot(disk)
    BY DEF GetCurrentSlot, Boots!GetCurrentSlot, Bootable, Boots!Bootable, SlotIsBootable,
           Boots!SlotIsBootable, Slot, Boots!Slot, NoSlot, Boots!NoSlot
  <2>2. \A s : SpendTry(disk, s) = Boots!SpendTry(disk, s)
    BY DEF SpendTry, Boots!SpendTry, Seal, Boots!Seal, ContentOf, Boots!ContentOf
  <2>3. AbCall' = AbCall
    BY <1>9, CallsUnseen DEF Boot
  <2>4. Boots!Boot
    BY <1>9, <2>1, <2>2, <2>3 DEF Boot, Boots!Boot, AbCall, Works, NoSlot, Boots!NoSlot, Slot,
       Boots!Slot
  <2> QED
    BY <2>4 DEF Boots!Next
<1>10. CASE UNCHANGED vars
  BY <1>10, CallsUnseen, StutterBoots DEF vars
<1> QED
  BY <1>1, <1>2, <1>3, <1>5, <1>6, <1>7, <1>8, <1>9, <1>10 DEF Next

\* The packet upgrade implements AbBoot, its fairness apart: while the command
\* line is read correctly every upgrade, with any number of overlapping calls,
\* faults and power cuts, is a life of the metadata that AbBoot describes, so
\* what holds of AbBoot (a switch buys at most MaxTries boots, the checksum always
\* covers the content, a reset before the switch keeps the slot) holds of it.
THEOREM UpgradeBoots ==
    ASSUME "cmdline_read" \notin Faults
    PROVE  Spec => Boots!Spec
<1>1. Init => DownIsClean
  BY DEF Init, DownIsClean, Idle
<1>2. TypeOk /\ RunsFrom /\ DownIsClean /\ [Next]_vars => DownIsClean'
  BY NextDownIsClean
<1>3. TypeOk /\ RunsFrom /\ DownIsClean /\ [Next]_vars => [Boots!Next]_Boots!vars
  BY NextBoots
<1>4. Spec => [](TypeOk /\ RunsFrom /\ LeadsAway)
  BY AlwaysLeadsAway
<1> QED
  BY <1>1, <1>2, <1>3, <1>4, InitBoots, PTL DEF Spec, Boots!Spec

-----------------------------------------------------------------------------
(* What holds of AbBoot holds of the upgrade *)

\* The same view of the upgrade, with the theorems about AbBoot
Life == INSTANCE AbBootProofs
         WITH Callers <- Threads,
              Faults <- Faults \intersect {"cmdline_open", "cmdline_read"},
              works <- Works,
              confirmed <- NoSlot,
              call <- [t \in Threads |->
                         IF call[t].pc = "switch_write"
                         THEN [op |-> "another", slot |-> call[t].told, meta |-> call[t].meta]
                         ELSE [op |-> "idle"]]

\* Boots and Life are one specification: their initial states ...
LEMMA SameInit == Boots!Init <=> Life!Init
BY DEF Boots!Init, Boots!Slot, Boots!NoSlot, Boots!FactoryA, Boots!FactoryB,
       Boots!FactoryContent, Boots!FactoryMeta, Boots!Idle,
       Life!Init, Life!Slot, Life!NoSlot, Life!FactoryA, Life!FactoryB, Life!FactoryContent,
       Life!FactoryMeta, Life!Idle

\* ... their steps ...
LEMMA SameNext == Boots!Next <=> Life!Next
<1>1. \A c : Boots!BeginActiveCurrent(c) <=> Life!BeginActiveCurrent(c)
  BY DEF Boots!BeginActiveCurrent, Boots!Up, Boots!ActiveCurrentSlot, Boots!Seal,
         Boots!ContentOf, Boots!ReadOk,
         Life!BeginActiveCurrent, Life!Up, Life!ActiveCurrentSlot, Life!Seal, Life!ContentOf,
         Life!ReadOk
<1>2. \A c : Boots!BeginActiveAnother(c) <=> Life!BeginActiveAnother(c)
  BY DEF Boots!BeginActiveAnother, Boots!Up, Boots!RunningSlotResults, Boots!NoSlot,
         Boots!ActiveAnotherSlot, Boots!Seal, Boots!ContentOf, Boots!Other, Boots!ReadOk,
         Life!BeginActiveAnother, Life!Up, Life!RunningSlotResults, Life!NoSlot,
         Life!ActiveAnotherSlot, Life!Seal, Life!ContentOf, Life!Other, Life!ReadOk
<1>3. \A c : Boots!CommitActiveCurrent(c) <=> Life!CommitActiveCurrent(c)
  BY DEF Boots!CommitActiveCurrent, Boots!Up, Boots!Idle,
         Life!CommitActiveCurrent, Life!Up, Life!Idle
<1>4. \A c : Boots!CommitActiveAnother(c) <=> Life!CommitActiveAnother(c)
  BY DEF Boots!CommitActiveAnother, Boots!Up, Boots!Other, Boots!Idle,
         Life!CommitActiveAnother, Life!Up, Life!Other, Life!Idle
<1>5. \A gone : Boots!Abandon(gone) <=> Life!Abandon(gone)
  BY DEF Boots!Abandon, Boots!Up, Boots!Idle, Life!Abandon, Life!Up, Life!Idle
<1>6. Boots!Install <=> Life!Install
  BY DEF Boots!Install, Boots!Up, Boots!Slot, Life!Install, Life!Up, Life!Slot
<1>7. Boots!Reset <=> Life!Reset
  BY DEF Boots!Reset, Boots!NoSlot, Boots!Idle, Life!Reset, Life!NoSlot, Life!Idle
<1>8. Boots!Boot <=> Life!Boot
  BY DEF Boots!Boot, Boots!NoSlot, Boots!Slot, Boots!GetCurrentSlot, Boots!Bootable,
         Boots!SlotIsBootable, Boots!SpendTry, Boots!Seal, Boots!ContentOf,
         Life!Boot, Life!NoSlot, Life!Slot, Life!GetCurrentSlot, Life!Bootable,
         Life!SlotIsBootable, Life!SpendTry, Life!Seal, Life!ContentOf
<1> QED
  BY <1>1, <1>2, <1>3, <1>4, <1>5, <1>6, <1>7, <1>8 DEF Boots!Next, Life!Next

\* ... and so their behaviours are the same.
LEMMA SameSpec == Boots!Spec <=> Life!Spec
<1>1. [Boots!Next]_Boots!vars <=> [Life!Next]_Life!vars
  BY SameNext DEF Boots!vars, Life!vars
<1> QED
  BY SameInit, <1>1, PTL DEF Boots!Spec, Life!Spec

\* During upgrades, with whatever faults and overlaps, the checksum covers the
\* metadata in the page cache and on the medium, a switch buys the new slot at most
\* MaxTries boots, and a reset before the switch comes back to the slot the device
\* ran from: the theorems about AbBoot, carried over by UpgradeBoots.
THEOREM UpgradeInherits ==
    ASSUME "cmdline_read" \notin Faults
    PROVE  Spec => [](Boots!CrcCoversContent /\ Boots!AttemptsBounded /\ Boots!ResetKeepsSlot)
<1>1. Life!FaultsAssumption /\ Life!MaxPriorityAssumption /\ Life!MaxTriesAssumption
  BY MaxPriorityAssumption, MaxTriesAssumption
  DEF Life!FaultsAssumption, Life!MaxPriorityAssumption, Life!MaxTriesAssumption
<1>2. Life!Spec => [](Life!CrcCoversContent /\ Life!AttemptsBounded /\ Life!ResetKeepsSlot)
  BY Life!ChecksumCorrect, Life!TrialIsBounded, Life!ResetIsSafe, <1>1, PTL
<1>3. Life!CrcCoversContent => Boots!CrcCoversContent
  BY DEF Boots!CrcCoversContent, Life!CrcCoversContent, Boots!CrcValid, Life!CrcValid,
         Boots!ContentOf, Life!ContentOf
<1>4. Life!AttemptsBounded => Boots!AttemptsBounded
  BY DEF Boots!AttemptsBounded, Life!AttemptsBounded, Boots!Slot, Life!Slot
<1>5. Life!ResetKeepsSlot => Boots!ResetKeepsSlot
  BY DEF Boots!ResetKeepsSlot, Life!ResetKeepsSlot, Boots!Up, Life!Up, Boots!NoSlot, Life!NoSlot,
         Boots!Bootable, Life!Bootable, Boots!SlotIsBootable, Life!SlotIsBootable,
         Boots!Slot, Life!Slot, Boots!GetCurrentSlot, Life!GetCurrentSlot
<1> QED
  BY SameSpec, <1>2, <1>3, <1>4, <1>5, UpgradeBoots, PTL
=============================================================================
