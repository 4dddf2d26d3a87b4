-------------------------- MODULE LegacyOtaProofs --------------------------
(***************************************************************************)
(* Theorems about LegacyOta, for any packets, images and selections: that  *)
(* the slot the device runs from is spared, for any number of processes;   *)
(* and for one process at a time, that an update is durable before it      *)
(* switches, switches to the slot it wrote, and keeps what was confirmed.  *)
(***************************************************************************)
EXTENDS LegacyOta, AbMetaProofs

\* The order of flash_write names every partition once.
LEMMA PartFacts ==
    /\ DOMAIN PartName = 1 .. 4 /\ Len(PartName) = 4
    /\ \A i \in 1 .. 4 : PartName[i] \in Part
    /\ \A i, j \in 1 .. 4 : PartName[i] = PartName[j] => i = j
    /\ \A p \in Part : \E i \in 1 .. 4 : PartName[i] = p
<1>1. DOMAIN PartName = 1 .. 4 /\ Len(PartName) = 4
  BY DEF PartName
<1>2. /\ PartName[1] = "uboot" /\ PartName[2] = "boot"
      /\ PartName[3] = "system" /\ PartName[4] = "extra"
  BY DEF PartName
<1>3. \A i, j \in 1 .. 4 : PartName[i] = PartName[j] => i = j
  BY <1>2
<1> QED
  BY <1>1, <1>3 DEF Part

-----------------------------------------------------------------------------
(* The metadata *)

\* The two slots, and what the choice between them can be.
LEMMA SlotFacts ==
    /\ \A s \in Slot : Other(s) \in Slot /\ Other(s) # s /\ Slot = {s, Other(s)}
    /\ NoSlot \notin Slot
    /\ \A m : GetCurrentSlot(m) \in Slot \union {NoSlot}
BY DEF Slot, NoSlot, Other, GetCurrentSlot

\* What setSlotSucceed makes of metadata in which slot s is current.
LEMMA SucceedFacts ==
    ASSUME NEW m \in MetaData, NEW s \in Slot, GetCurrentSlot(m) = s
    PROVE  /\ SlotSucceed(m) \in MetaData /\ SlotSucceed(m).last_boot = s
           /\ GetCurrentSlot(SlotSucceed(m)) = s
           /\ \A o \in Slot \ {s} : o \in Bootable(m) <=> o \in Bootable(SlotSucceed(m))
<1> DEFINE p == [m EXCEPT !.slots[s].priority = MaxPriority]
           n == [p EXCEPT !.last_boot = s]
           q == SlotSucceed(m)
<1>1. m.slots \in [Slot -> SlotData] /\ m.slots[s] \in SlotData
  BY DEF MetaData
<1>2. [m.slots[s] EXCEPT !.priority = MaxPriority] \in SlotData
  BY <1>1, MaxPriorityAssumption DEF SlotData
<1>3. p \in MetaData /\ p.slots = [m.slots EXCEPT ![s] = [m.slots[s] EXCEPT !.priority = MaxPriority]]
  BY <1>1, <1>2 DEF MetaData
<1>4. q = Seal(n)
  BY DEF SlotSucceed, UpdateCrc, get_current_slot
<1> HIDE DEF p
<1>5. n \in MetaData /\ n.slots = p.slots /\ n.last_boot = s
  BY <1>3 DEF MetaData, Slot
<1> HIDE DEF n
<1>6. q \in MetaData /\ q.slots = p.slots /\ q.last_boot = s
  BY <1>4, <1>5, SealFacts
<1> HIDE DEF q
<1>7. /\ q.slots[s].priority = MaxPriority
      /\ q.slots[s].tries_remaining = m.slots[s].tries_remaining
      /\ q.slots[s].successful_boot = m.slots[s].successful_boot
      /\ \A o \in Slot \ {s} : q.slots[o] = m.slots[o]
  BY <1>1, <1>3, <1>6 DEF SlotData
<1>8. \A o \in Slot \ {s} : o \in Bootable(m) <=> o \in Bootable(q)
  BY <1>7 DEF Bootable
<1>9. s \in Bootable(m) => s \in Bootable(q)
  BY <1>7, MaxPriorityAssumption DEF Bootable, SlotIsBootable
<1>10. GetCurrentSlot(q) = s
  <2>1. CASE Bootable(m) = {}
    <3>1. Bootable(q) = {} \/ Bootable(q) = {s}
      BY <1>8, <2>1 DEF Bootable
    <3> QED
      BY <1>6, <3>1 DEF GetCurrentSlot, Slot
  <2>2. CASE Bootable(m) # {}
    <3>1. s \in Bootable(m)
      <4>1. Bootable(m) \subseteq {0, 1}
        BY DEF Bootable, Slot
      <4> QED
        BY <2>2, <4>1 DEF GetCurrentSlot
    <3>2. \A o \in Slot : m.slots[o].priority \in Int /\ m.slots[o].priority <= MaxPriority
      BY <1>1, MaxPriorityAssumption DEF SlotData
    <3>3. CASE s = 0
      <4>1. q.slots[0].priority = MaxPriority /\ q.slots[1].priority <= MaxPriority /\ q.slots[1].priority \in Int
        BY <1>7, <3>2, <3>3 DEF Slot
      <4>2. ~(q.slots[1].priority > q.slots[0].priority)
        BY <4>1, MaxPriorityAssumption
      <4> QED
        BY <1>9, <3>1, <3>3, <4>2 DEF GetCurrentSlot
    <3>4. CASE s = 1
      <4>1. 0 \in Bootable(m) => m.slots[1].priority > m.slots[0].priority
        BY <2>2, <3>4 DEF GetCurrentSlot
      <4>2. q.slots[1].priority = MaxPriority /\ q.slots[0].priority = m.slots[0].priority
        BY <1>7, <3>4 DEF Slot
      <4>3. 0 \in Bootable(q) => q.slots[1].priority > q.slots[0].priority
        BY <1>8, <3>2, <3>4, <4>1, <4>2, MaxPriorityAssumption DEF Slot
      <4> QED
        BY <1>9, <3>1, <3>4, <4>3 DEF GetCurrentSlot
    <3> QED
      BY <3>3, <3>4 DEF Slot
  <2> QED
    BY <2>1, <2>2
<1> QED
  BY <1>6, <1>8, <1>10 DEF q

\* What setSlotActivity makes of metadata in which slot s is current.
LEMMA ActivityFacts ==
    ASSUME NEW m \in MetaData, NEW s \in Slot, GetCurrentSlot(m) = s
    PROVE  /\ SlotActivity(m) \in MetaData /\ SlotActivity(m).last_boot = m.last_boot
           /\ GetCurrentSlot(SlotActivity(m)) = Other(s)
<1> DEFINE p == [m EXCEPT !.slots[s].priority = MaxPriority - 1]
           n == [p EXCEPT !.slots[Other(s)] =
                   [priority |-> MaxPriority, tries_remaining |-> MaxTries, successful_boot |-> 0]]
           q == SlotActivity(m)
<1>1. Other(s) \in Slot /\ Other(s) # s /\ Other(Other(s)) = s
  BY DEF Slot, Other
<1>2. m.slots \in [Slot -> SlotData] /\ m.slots[s] \in SlotData
  BY DEF MetaData
<1>3. [m.slots[s] EXCEPT !.priority = MaxPriority - 1] \in SlotData
  BY <1>2, MaxPriorityAssumption DEF SlotData
<1>4. /\ p \in MetaData /\ p.last_boot = m.last_boot
      /\ p.slots = [m.slots EXCEPT ![s] = [m.slots[s] EXCEPT !.priority = MaxPriority - 1]]
  BY <1>2, <1>3 DEF MetaData
<1>5. [priority |-> MaxPriority, tries_remaining |-> MaxTries, successful_boot |-> 0] \in SlotData
  BY MaxPriorityAssumption, MaxTriesAssumption DEF SlotData
<1>6. q = Seal(n)
  BY DEF SlotActivity, UpdateCrc, get_current_slot
<1> HIDE DEF p
<1>7. /\ n \in MetaData /\ n.last_boot = m.last_boot
      /\ n.slots = [p.slots EXCEPT ![Other(s)] =
            [priority |-> MaxPriority, tries_remaining |-> MaxTries, successful_boot |-> 0]]
  BY <1>1, <1>4, <1>5 DEF MetaData
<1> HIDE DEF n
<1>8. q \in MetaData /\ q.slots = n.slots /\ q.last_boot = m.last_boot
  BY <1>6, <1>7, SealFacts
<1> HIDE DEF q
<1>9. OnTrial(q, Other(s))
  BY <1>1, <1>2, <1>3, <1>4, <1>7, <1>8 DEF OnTrial, SlotData
<1>10. GetCurrentSlot(q) = Other(s)
  BY <1>1, <1>8, <1>9, OnTrialSelects
<1> QED
  BY <1>8, <1>10 DEF q

-----------------------------------------------------------------------------
(* Calls and partitions *)

PartContent == Packets \union {Factory, Damaged}

\* Writing content x to partition p of slot s, and to no other place.
LEMMA PutFacts ==
    ASSUME NEW f \in [Slot -> [Part -> PartContent]], NEW s \in Slot, NEW p \in Part,
           NEW x \in PartContent, NEW g, g = [f EXCEPT ![s][p] = x]
    PROVE  /\ g \in [Slot -> [Part -> PartContent]] /\ g[s][p] = x
           /\ \A o \in Slot \ {s} : g[o] = f[o]
           /\ \A o \in Slot, q \in Part : o # s \/ q # p => g[o][q] = f[o][q]
<1>1. f[s] \in [Part -> PartContent]
  OBVIOUS
<1>2. [f[s] EXCEPT ![p] = x] \in [Part -> PartContent]
  BY <1>1
<1>3. g = [f EXCEPT ![s] = [f[s] EXCEPT ![p] = x]]
  OBVIOUS
<1>4. g \in [Slot -> [Part -> PartContent]]
  BY <1>2, <1>3
<1>5. g[s] = [f[s] EXCEPT ![p] = x] /\ \A o \in Slot \ {s} : g[o] = f[o]
  BY <1>3
<1> QED
  BY <1>1, <1>4, <1>5

\* A step of call c changes no other call.
LEMMA GotoFacts ==
    ASSUME TypeOk, NEW c \in Procs, NEW x, Goto(c, x)
    PROVE  call'[c] = x /\ \A d \in Procs \ {c} : call'[d] = call[d]
BY DEF TypeOk, Goto

\* A call that goes to a proper record leaves all calls proper.
LEMMA GotoTyped ==
    ASSUME TypeOk, NEW c \in Procs, NEW x \in Calls, Goto(c, x)
    PROVE  call' \in [Procs -> Calls]
BY DEF TypeOk, Goto

\* The records a call goes through.
LEMMA CallFacts ==
    ASSUME NEW x \in Calls
    PROVE  /\ NoCall \in Calls
           /\ \A pc \in {"unpack", "select", "part", "write", "fsync", "compare", "switch"} :
                 /\ [x EXCEPT !.pc = pc] \in Calls /\ [x EXCEPT !.pc = pc].pc = pc
                 /\ [x EXCEPT !.pc = pc].packet = x.packet /\ [x EXCEPT !.pc = pc].chosen = x.chosen
                 /\ [x EXCEPT !.pc = pc].slot = x.slot /\ [x EXCEPT !.pc = pc].part = x.part
                 /\ [x EXCEPT !.pc = pc].overlooked = x.overlooked
                 /\ [x EXCEPT !.pc = pc].meta = x.meta
           /\ x.part \in 1 .. 4 /\ x.slot \in Slot
<1>1. NoCall \in Calls
  BY PartFacts DEF NoCall, NoPacket, Calls, Slot
<1> QED
  BY <1>1, PartFacts DEF Calls

\* The end of one partition: the next one, or the switch after the last.
LEMMA NextPartFacts ==
    ASSUME NEW x \in Calls
    PROVE  /\ NextPart(x) \in Calls
           /\ NextPart(x).packet = x.packet /\ NextPart(x).chosen = x.chosen
           /\ NextPart(x).slot = x.slot /\ NextPart(x).overlooked = x.overlooked
           /\ NextPart(x).meta = x.meta
           /\ \/ NextPart(x).pc = "part" /\ NextPart(x).part = x.part + 1 /\ x.part + 1 \in 1 .. 4
              \/ NextPart(x).pc = "switch" /\ NextPart(x).part = x.part /\ x.part = 4
<1>1. x.part \in 1 .. 4
  BY CallFacts
<1>2. CASE x.part < 4
  <2>1. x.part + 1 \in 1 .. 4
    BY <1>1, <1>2
  <2>2. NextPart(x) = [x EXCEPT !.pc = "part", !.part = x.part + 1]
    BY <1>2, PartFacts DEF NextPart
  <2>3. NextPart(x) \in Calls
    BY <2>1, <2>2, PartFacts DEF Calls
  <2>4. NextPart(x).pc = "part" /\ NextPart(x).part = x.part + 1
    BY <2>2 DEF Calls
  <2>5. /\ NextPart(x).packet = x.packet /\ NextPart(x).chosen = x.chosen
        /\ NextPart(x).slot = x.slot /\ NextPart(x).overlooked = x.overlooked
        /\ NextPart(x).meta = x.meta
    BY <2>2 DEF Calls
  <2> QED
    BY <2>1, <2>3, <2>4, <2>5
<1>3. CASE ~(x.part < 4)
  <2>1. x.part = 4
    BY <1>1, <1>3
  <2>2. NextPart(x) = [x EXCEPT !.pc = "switch"]
    BY <1>3, PartFacts DEF NextPart
  <2> QED
    BY <2>1, <2>2 DEF Calls
<1> QED
  BY <1>2, <1>3

\* Where a call is: its partition, and the slot it writes to.
LEMMA PartOfFacts ==
    ASSUME TypeOk, NEW c \in Procs
    PROVE  /\ call[c] \in Calls /\ PartOf(c) \in Part /\ Target(c) \in Slot
           /\ PartOf(c) = PartName[call[c].part]
           /\ Target(c) = Other(call[c].slot) /\ Target(c) # call[c].slot
<1>1. call[c] \in Calls
  BY DEF TypeOk
<1> QED
  BY <1>1, CallFacts, PartFacts, SlotFacts DEF PartOf, Target

\* The steps of flash_write between the selection of the slot and the switch
Stage(c) ==
    \/ SkipPart(c) \/ OpenPart(c) \/ WritePart(c)
    \/ WriteFails(c) /\ mtd
    \/ Fsync(c) \/ FsyncFails(c) \/ CompareOk(c) \/ CompareUnread(c)

\* The steps that end a call without a change of the metadata or a partition
Ending(c) ==
    \/ SucceedUnmarked(c) \/ CommandFails(c) \/ MiscWriteFails(c) \/ UnpackFails(c)
    \/ SelectFails(c) \/ OpenPartFails(c) \/ CompareFails(c) \/ SwitchReadFails(c) \/ Kill(c)
    \/ WriteFails(c) /\ ~mtd

\* Every step is one of these, writes metadata, or starts something.
LEMMA StepCases ==
    ASSUME NEW c \in Procs, Command(c) \/ Step(c) \/ Kill(c)
    PROVE  \/ Stage(c) \/ Ending(c) \/ SucceedRead(c) \/ SucceedWrite(c) \/ SwitchWrite(c)
           \/ OtherRead(c) \/ SwitchRead(c) \/ Unpack(c) \/ Select(c)
           \/ \E q \in Packets, chosen \in Selections : Start(c, q, chosen)
<1>1. CASE Command(c)
  BY <1>1 DEF Command, Ending
<1>2. CASE Step(c)
  <2>1. \/ WriteFails(c) \/ Stage(c) \/ Ending(c) \/ SucceedWrite(c) \/ SwitchWrite(c)
        \/ SwitchRead(c) \/ Unpack(c) \/ Select(c)
    BY <1>2 DEF Step, Stage, Ending
  <2>2. WriteFails(c) => Stage(c) \/ Ending(c)
    <3>1. CASE mtd
      BY <3>1 DEF Stage
    <3>2. CASE ~mtd
      BY <3>2 DEF Ending
    <3> QED
      BY <3>1, <3>2
  <2> QED
    BY <2>1, <2>2
<1>3. CASE Kill(c)
  BY <1>3 DEF Ending
<1> QED
  BY <1>1, <1>2, <1>3

\* A step that ends a call leaves the metadata and the partitions alone.
LEMMA EndingFacts ==
    ASSUME TypeOk, NEW c \in Procs, Ending(c)
    PROVE  /\ call'[c] = NoCall /\ \A d \in Procs \ {c} : call'[d] = call[d]
           /\ call' \in [Procs -> Calls] /\ temp' \in Files
           /\ result' \in [Procs -> {"none", "ok", "error"}]
           /\ UNCHANGED <<world, meta, parts>>
<1>1. Goto(c, NoCall) /\ UNCHANGED <<world, meta, parts>>
  BY DEF Ending, SucceedUnmarked, CommandFails, MiscWriteFails, UnpackFails, SelectFails, OpenPartFails,
         WriteFails, CompareFails, SwitchReadFails, Kill, Finish
<1>2. temp' = temp \/ UnpackFails(c)
  BY DEF Ending, SucceedUnmarked, CommandFails, MiscWriteFails, SelectFails, OpenPartFails,
         WriteFails, CompareFails, SwitchReadFails, Kill, Finish
<1>3. temp' \in Files
  BY <1>2 DEF UnpackFails, TypeOk
<1>4. result' = result \/ \E how \in {"ok", "error"} : result' = [result EXCEPT ![c] = how]
  BY DEF Ending, SucceedUnmarked, CommandFails, MiscWriteFails, UnpackFails, SelectFails, OpenPartFails,
         WriteFails, CompareFails, SwitchReadFails, Kill, Finish
<1>5. result' \in [Procs -> {"none", "ok", "error"}]
  BY <1>4 DEF TypeOk
<1>6. NoCall \in Calls
  BY PartOfFacts, CallFacts
<1> QED
  BY <1>1, <1>3, <1>5, <1>6, GotoFacts, GotoTyped

\* What all the stages have in common: they write to the other slot only.
Stays(c) ==
    /\ call[c].pc \in {"part", "write", "fsync", "compare"}
    /\ call'[c].pc \in Targeting
    /\ call'[c] \in Calls
    /\ call'[c].packet = call[c].packet /\ call'[c].chosen = call[c].chosen
    /\ call'[c].slot = call[c].slot /\ call'[c].meta = call[c].meta
    /\ call'[c].pc = "fsync" => ~mtd
    /\ \A d \in Procs \ {c} : call'[d] = call[d]

WritesOther(c) ==
    /\ cache' \in [Slot -> [Part -> PartContent]] /\ flash' \in [Slot -> [Part -> PartContent]]
    /\ \A o \in Slot \ {Target(c)} : cache'[o] = cache[o] /\ flash'[o] = flash[o]
    /\ mtd => cache' = flash'

\* A stage that stays at its partition.
LEMMA MovesOn ==
    ASSUME TypeOk, NEW c \in Procs, call[c].pc \in {"part", "write", "fsync", "compare"},
           NEW pc \in {"write", "fsync", "compare"}, pc = "fsync" => ~mtd,
           Goto(c, [call[c] EXCEPT !.pc = pc])
    PROVE  Stays(c) /\ call' \in [Procs -> Calls] /\ call'[c] = [call[c] EXCEPT !.pc = pc]
<1> DEFINE y == [call[c] EXCEPT !.pc = pc]
<1>1. /\ y \in Calls /\ y.pc = pc /\ y.packet = call[c].packet /\ y.chosen = call[c].chosen
      /\ y.slot = call[c].slot /\ y.meta = call[c].meta
  BY PartOfFacts DEF Calls
<1>2. Goto(c, y)
  OBVIOUS
<1> HIDE DEF y
<1>3. call'[c] = y /\ call' \in [Procs -> Calls] /\ \A d \in Procs \ {c} : call'[d] = call[d]
  BY <1>1, <1>2, GotoFacts, GotoTyped
<1>4. Stays(c)
  BY <1>1, <1>3 DEF Stays, Targeting
<1> QED
  BY <1>3, <1>4 DEF y

\* x is the call at the end of the partition, with what it overlooked.
LEMMA MovesToNext ==
    ASSUME TypeOk, NEW c \in Procs, call[c].pc \in {"part", "write", "fsync", "compare"},
           NEW x \in Calls, x.packet = call[c].packet, x.chosen = call[c].chosen,
           x.slot = call[c].slot, x.meta = call[c].meta, Goto(c, NextPart(x))
    PROVE  Stays(c) /\ call' \in [Procs -> Calls] /\ call'[c] = NextPart(x)
<1>1. /\ NextPart(x) \in Calls
      /\ NextPart(x).packet = x.packet /\ NextPart(x).chosen = x.chosen
      /\ NextPart(x).slot = x.slot /\ NextPart(x).meta = x.meta
      /\ NextPart(x).pc \in {"part", "switch"}
  BY NextPartFacts
<1>2. /\ call'[c] = NextPart(x) /\ call' \in [Procs -> Calls]
      /\ \A d \in Procs \ {c} : call'[d] = call[d]
  BY <1>1, GotoFacts, GotoTyped
<1> QED
  BY <1>1, <1>2 DEF Stays, Targeting

\* Every stage keeps the call's packet and slot, and writes to the other slot only.
LEMMA StageFacts ==
    ASSUME TypeOk, Consistent, NEW c \in Procs, Stage(c)
    PROVE  /\ Stays(c) /\ WritesOther(c) /\ temp' \in Files
           /\ call' \in [Procs -> Calls]
           /\ running # NoSlot /\ UNCHANGED <<world, meta, result>>
<1>1. /\ call[c] \in Calls /\ PartOf(c) \in Part /\ Target(c) \in Slot
      /\ \A x : Goto(c, x) => /\ call'[c] = x /\ \A e \in Procs \ {c} : call'[e] = call[e]
                              /\ x \in Calls => call' \in [Procs -> Calls]
  BY PartOfFacts, GotoFacts, GotoTyped
<1>2. /\ cache \in [Slot -> [Part -> PartContent]] /\ flash \in [Slot -> [Part -> PartContent]]
      /\ mtd => cache = flash
  BY DEF TypeOk, PartContent, Consistent
<1>3. /\ UNCHANGED <<world, meta, result>> /\ running # NoSlot
  BY SlotFacts DEF Stage, SkipPart, OpenPart, WritePart, WriteFails, Fsync, FsyncFails, CompareOk, CompareUnread,
     AtImage, At, Up, Works
<1>4. UNCHANGED parts => WritesOther(c)
  BY <1>2 DEF WritesOther, parts
<1>5. \A content \in PartContent : Put(c, content) => WritesOther(c)
  <2> SUFFICES ASSUME NEW content \in PartContent, Put(c, content) PROVE WritesOther(c)
    OBVIOUS
  <2>1. /\ cache' \in [Slot -> [Part -> PartContent]]
        /\ \A o \in Slot \ {Target(c)} : cache'[o] = cache[o]
    BY <1>1, <1>2, PutFacts DEF Put
  <2>2. CASE mtd
    <3>1. flash' = cache'
      BY <1>2, <2>2 DEF Put
    <3> QED
      BY <1>2, <2>1, <2>2, <3>1 DEF WritesOther
  <2>3. CASE ~mtd
    BY <1>2, <2>1, <2>3 DEF Put, WritesOther
  <2> QED
    BY <2>2, <2>3
<1>6. [temp EXCEPT ![PartOf(c)] = Absent] \in Files
  BY <1>1 DEF TypeOk, Files
<1>7. CASE SkipPart(c)
  <2>1. Stays(c) /\ call' \in [Procs -> Calls]
    BY <1>1, <1>7, MovesToNext DEF SkipPart, At
  <2> QED
    BY <1>3, <1>4, <1>7, <2>1 DEF SkipPart, TypeOk
<1>8. CASE OpenPart(c)
  <2>1. Stays(c) /\ call' \in [Procs -> Calls]
    BY <1>8, MovesOn DEF OpenPart, AtImage, At
  <2>2. WritesOther(c)
    BY <1>5, <1>8 DEF OpenPart, PartContent
  <2> QED
    BY <1>3, <1>8, <2>1, <2>2 DEF OpenPart, TypeOk
<1>9. CASE WritePart(c)
  <2>1. Stays(c) /\ call' \in [Procs -> Calls]
    BY <1>9, MovesOn DEF WritePart, At
  <2>2. call[c].packet \in Packets /\ temp[PartOf(c)] \in Packets \union {Damaged, Absent}
    BY <1>1, <1>9 DEF WritePart, At, Consistent, TypeOk, Files
  <2>3. WritesOther(c)
    BY <1>5, <1>9, <2>2 DEF WritePart, PartContent
  <2> QED
    BY <1>3, <1>9, <2>1, <2>3 DEF WritePart, TypeOk
<1>10. CASE WriteFails(c) /\ mtd
  <2>1. Stays(c) /\ call' \in [Procs -> Calls]
    BY <1>10, MovesOn DEF WriteFails, At
  <2> QED
    BY <1>3, <1>4, <1>10, <2>1 DEF WriteFails, TypeOk
<1>11. CASE Fsync(c) \/ FsyncFails(c)
  <2>1. call[c].pc = "fsync" /\ ~mtd /\ cache' = cache
    BY <1>11 DEF Fsync, FsyncFails, At, Consistent
  <2>2. Stays(c) /\ call' \in [Procs -> Calls]
    <3>1. CASE Fsync(c)
      BY <3>1, MovesOn DEF Fsync, At
    <3>2. CASE FsyncFails(c)
      <4> DEFINE y == [call[c] EXCEPT !.pc = "compare", !.overlooked = @ \union {PartOf(c)}]
      <4>1. /\ y \in Calls /\ y.pc = "compare" /\ y.packet = call[c].packet /\ y.chosen = call[c].chosen
            /\ y.slot = call[c].slot /\ y.meta = call[c].meta
        BY <1>1 DEF Calls
      <4>2. Goto(c, y)
        BY <3>2 DEF FsyncFails
      <4> HIDE DEF y
      <4>3. /\ call'[c] = y /\ call' \in [Procs -> Calls]
            /\ \A d \in Procs \ {c} : call'[d] = call[d]
        BY <4>1, <4>2, GotoFacts, GotoTyped
      <4> QED
        BY <2>1, <4>1, <4>3 DEF Stays, Targeting
    <3> QED
      BY <1>11, <3>1, <3>2
  <2>3. \E x \in PartContent : flash' = [flash EXCEPT ![Target(c)][PartOf(c)] = x]
    <3>1. cache[Target(c)][PartOf(c)] \in PartContent /\ Damaged \in PartContent
      BY <1>1, <1>2 DEF PartContent
    <3> QED
      BY <1>11, <3>1 DEF Fsync, FsyncFails
  <2>4. WritesOther(c)
    BY <1>1, <1>2, <2>1, <2>3, PutFacts DEF WritesOther
  <2> QED
    BY <1>3, <1>11, <2>2, <2>4 DEF Fsync, FsyncFails, TypeOk
<1>12. CASE CompareOk(c)
  <2>1. Stays(c) /\ call' \in [Procs -> Calls]
    BY <1>1, <1>12, MovesToNext DEF CompareOk, At
  <2> QED
    BY <1>3, <1>4, <1>6, <1>12, <2>1 DEF CompareOk
<1>13. CASE CompareUnread(c)
  <2> DEFINE y == [call[c] EXCEPT !.overlooked = @ \union {PartOf(c)}]
  <2>1. /\ y \in Calls /\ y.packet = call[c].packet /\ y.chosen = call[c].chosen
        /\ y.slot = call[c].slot /\ y.meta = call[c].meta
    BY <1>1 DEF Calls
  <2>2. call[c].pc = "compare" /\ Goto(c, NextPart(y))
    BY <1>13 DEF CompareUnread, At
  <2> HIDE DEF y
  <2>3. Stays(c) /\ call' \in [Procs -> Calls]
    BY <2>1, <2>2, MovesToNext
  <2> QED
    BY <1>3, <1>4, <1>6, <1>13, <2>3 DEF CompareUnread
<1> QED
  BY <1>7, <1>8, <1>9, <1>10, <1>11, <1>12, <1>13 DEF Stage

-----------------------------------------------------------------------------
(* Types and consistency *)

BaseInv == TypeOk /\ Consistent

\* The factory state is typed and consistent.
LEMMA BaseInit == Init => BaseInv
<1> SUFFICES ASSUME Init PROVE BaseInv
  OBVIOUS
<1>1. disk \in MetaData /\ misc \in MetaData /\ mtd \in BOOLEAN /\ magic \in BOOLEAN
  BY FactoryTyped, DevicesAssumption DEF Init
<1>2. flash \in [Slot -> [Part -> PartContent]] /\ cache = flash
  BY DEF Init, PartContent
<1>3. temp \in Files
  BY DEF Init, Files
<1>4. call \in [Procs -> Calls] /\ \A c \in Procs : call[c] = NoCall
  BY PartFacts DEF Init, NoCall, NoPacket, Calls, Slot
<1>5. TypeOk
  BY <1>1, <1>2, <1>3, <1>4 DEF Init, TypeOk, PartContent
<1>6. Consistent
  BY <1>2, <1>4 DEF Init, Consistent, NoCall
<1> QED
  BY <1>5, <1>6 DEF BaseInv

\* A step of one process, if its own call and the partitions stay consistent.
LEMMA ConsistentFrame ==
    ASSUME Consistent, NEW c \in Procs, running # NoSlot,
           UNCHANGED <<world, magic>>, mtd => cache' = flash',
           \A d \in Procs \ {c} : call'[d] = call[d],
           call'[c].pc = "idle" => call'[c] = NoCall,
           call'[c].pc \in {"succeed_write", "switch_write"} => call'[c].meta \in MetaData,
           call'[c].pc = "succeed_write" => magic,
           call'[c].pc = "fsync" => ~mtd,
           call'[c].pc \notin {"idle", "succeed_write", "switch_write"} => call'[c].packet \in Packets
    PROVE  Consistent'
<1>1. running' = running /\ mtd' = mtd /\ magic' = magic
  BY DEF world
<1>2. ASSUME NEW d \in Procs
      PROVE  /\ call'[d].pc = "idle" => call'[d] = NoCall
             /\ call'[d].pc \in {"succeed_write", "switch_write"} => call'[d].meta \in MetaData
             /\ call'[d].pc = "succeed_write" => magic
             /\ call'[d].pc = "fsync" => ~mtd
             /\ call'[d].pc \notin {"idle", "succeed_write", "switch_write"} =>
                   call'[d].packet \in Packets
  <2>1. CASE d = c
    BY <2>1
  <2>2. CASE d # c
    BY <2>2 DEF Consistent
  <2> QED
    BY <2>1, <2>2
<1> QED
  BY <1>1, <1>2 DEF Consistent

\* What a command that reads the metadata, or starts an update, enters.
LEMMA EnterTyped ==
    ASSUME TypeOk, NEW c \in Procs, NEW x \in Calls, Enter(c, x)
    PROVE  /\ call' \in [Procs -> Calls] /\ call'[c] = x
           /\ \A d \in Procs \ {c} : call'[d] = call[d]
           /\ result' \in [Procs -> {"none", "ok", "error"}]
<1>1. Goto(c, x) /\ result' = [result EXCEPT ![c] = "none"]
  BY DEF Enter
<1>2. result' \in [Procs -> {"none", "ok", "error"}]
  BY <1>1 DEF TypeOk
<1> QED
  BY <1>1, <1>2, GotoFacts, GotoTyped

\* Where a switch is read from, the metadata that it writes is at hand.
LEMMA ActivityReadFacts ==
    ASSUME BaseInv, NEW c \in Procs, OtherRead(c) \/ SwitchRead(c)
    PROVE  /\ call'[c] = [call[c] EXCEPT !.pc = "switch_write", !.meta = SlotActivity(misc)]
           /\ call' \in [Procs -> Calls] /\ call'[c].pc = "switch_write"
           /\ call'[c].meta = SlotActivity(misc) /\ SlotActivity(misc) \in MetaData
           /\ SlotActivity(misc).last_boot = misc.last_boot
           /\ get_current_slot(misc) \in Slot
           /\ GetCurrentSlot(SlotActivity(misc)) = Other(get_current_slot(misc))
           /\ call'[c].packet = call[c].packet /\ call'[c].chosen = call[c].chosen
           /\ call'[c].slot = call[c].slot /\ call'[c].overlooked = call[c].overlooked
           /\ \A d \in Procs \ {c} : call'[d] = call[d]
           /\ result' \in [Procs -> {"none", "ok", "error"}]
           /\ running # NoSlot /\ UNCHANGED <<world, meta, parts, temp>>
<1> DEFINE x == [call[c] EXCEPT !.pc = "switch_write", !.meta = SlotActivity(misc)]
<1>1. /\ get_current_slot(misc) # NoSlot /\ Enter(c, x) /\ UNCHANGED <<world, meta, parts, temp>>
      /\ Up
  BY DEF OtherRead, SwitchRead, ActivityRead, At
<1>2. get_current_slot(misc) \in Slot /\ misc \in MetaData /\ call[c] \in Calls
  BY <1>1, SlotFacts DEF get_current_slot, BaseInv, TypeOk
<1>3. /\ SlotActivity(misc) \in MetaData /\ SlotActivity(misc).last_boot = misc.last_boot
      /\ GetCurrentSlot(SlotActivity(misc)) = Other(get_current_slot(misc))
  BY <1>2, ActivityFacts DEF get_current_slot
<1>4. /\ x \in Calls /\ x.pc = "switch_write" /\ x.meta = SlotActivity(misc)
      /\ x.packet = call[c].packet /\ x.chosen = call[c].chosen /\ x.slot = call[c].slot
      /\ x.overlooked = call[c].overlooked
  BY <1>2, <1>3 DEF Calls
<1>5. running # NoSlot
  BY <1>1, SlotFacts DEF Up, Works
<1> HIDE DEF x
<1>6. /\ call' \in [Procs -> Calls] /\ call'[c] = x
      /\ \A d \in Procs \ {c} : call'[d] = call[d]
      /\ result' \in [Procs -> {"none", "ok", "error"}]
  BY <1>1, <1>4, EnterTyped DEF BaseInv
<1> QED
  BY <1>1, <1>2, <1>3, <1>4, <1>5, <1>6 DEF x

\* The read of setSlotSucceed: the metadata to be written selects the same slot.
LEMMA SucceedReadFacts ==
    ASSUME BaseInv, NEW c \in Procs, SucceedRead(c)
    PROVE  /\ call' \in [Procs -> Calls] /\ call'[c].pc = "succeed_write"
           /\ call'[c].meta = SlotSucceed(misc) /\ SlotSucceed(misc) \in MetaData
           /\ get_current_slot(misc) \in Slot
           /\ SlotSucceed(misc).last_boot = get_current_slot(misc)
           /\ GetCurrentSlot(SlotSucceed(misc)) = get_current_slot(misc)
           /\ \A o \in Slot \ {get_current_slot(misc)} :
                 o \in Bootable(misc) <=> o \in Bootable(SlotSucceed(misc))
           /\ \A d \in Procs \ {c} : call'[d] = call[d]
           /\ result' \in [Procs -> {"none", "ok", "error"}]
           /\ running # NoSlot /\ magic /\ UNCHANGED <<world, meta, parts, temp>>
<1> DEFINE x == [NoCall EXCEPT !.pc = "succeed_write", !.meta = SlotSucceed(misc)]
<1>1. /\ get_current_slot(misc) # NoSlot /\ Enter(c, x) /\ UNCHANGED <<world, meta, parts, temp>>
      /\ magic /\ Up
  BY DEF SucceedRead, At
<1>2. get_current_slot(misc) \in Slot /\ misc \in MetaData /\ call[c] \in Calls
  BY <1>1, SlotFacts DEF get_current_slot, BaseInv, TypeOk
<1>3. /\ SlotSucceed(misc) \in MetaData /\ SlotSucceed(misc).last_boot = get_current_slot(misc)
      /\ GetCurrentSlot(SlotSucceed(misc)) = get_current_slot(misc)
      /\ \A o \in Slot \ {get_current_slot(misc)} :
            o \in Bootable(misc) <=> o \in Bootable(SlotSucceed(misc))
  BY <1>2, SucceedFacts DEF get_current_slot
<1>4. x \in Calls /\ x.pc = "succeed_write" /\ x.meta = SlotSucceed(misc)
  <2>1. NoCall \in Calls
    BY <1>2, CallFacts
  <2> QED
    BY <1>3, <2>1 DEF Calls
<1>5. running # NoSlot
  BY <1>1, SlotFacts DEF Up, Works
<1> HIDE DEF x
<1>6. /\ call' \in [Procs -> Calls] /\ call'[c] = x
      /\ \A d \in Procs \ {c} : call'[d] = call[d]
      /\ result' \in [Procs -> {"none", "ok", "error"}]
  BY <1>1, <1>4, EnterTyped DEF BaseInv
<1> QED
  BY <1>1, <1>2, <1>3, <1>4, <1>5, <1>6

\* The start of an update.
LEMMA StartFacts ==
    ASSUME BaseInv, NEW c \in Procs, NEW q \in Packets, NEW chosen \in Selections, Start(c, q, chosen)
    PROVE  /\ call' \in [Procs -> Calls] /\ call'[c].pc = "unpack" /\ call'[c].packet = q
           /\ call'[c].part = 1
           /\ \A d \in Procs \ {c} : call'[d] = call[d]
           /\ result' \in [Procs -> {"none", "ok", "error"}]
           /\ running # NoSlot /\ UNCHANGED <<world, meta, parts, temp>>
<1> DEFINE x == [NoCall EXCEPT !.pc = "unpack", !.packet = q, !.chosen = chosen]
<1>1. Enter(c, x) /\ UNCHANGED <<world, meta, parts, temp>> /\ Up
  BY DEF Start, At
<1>2. x \in Calls /\ x.pc = "unpack" /\ x.packet = q /\ x.part = 1
  <2>1. NoCall \in Calls
    BY CallFacts DEF BaseInv, TypeOk
  <2> QED
    BY <2>1 DEF Calls, NoCall
<1>3. running # NoSlot
  BY <1>1, SlotFacts DEF Up, Works
<1> HIDE DEF x
<1> QED
  BY <1>1, <1>2, <1>3, EnterTyped DEF BaseInv

\* tar puts the images of the packet into the save directory.
LEMMA UnpackFacts ==
    ASSUME BaseInv, NEW c \in Procs, Unpack(c)
    PROVE  /\ call' \in [Procs -> Calls] /\ call[c].pc = "unpack"
           /\ call'[c] = [call[c] EXCEPT !.pc = "select"] /\ call'[c].pc = "select"
           /\ call'[c].packet = call[c].packet /\ call[c].packet \in Packets
           /\ \A d \in Procs \ {c} : call'[d] = call[d]
           /\ \A p \in Part : temp'[p] = IF p \in Images[call[c].packet] THEN call[c].packet ELSE temp[p]
           /\ temp' \in Files /\ running # NoSlot /\ UNCHANGED <<world, meta, parts, result>>
<1> DEFINE x == [call[c] EXCEPT !.pc = "select"]
<1>1. Goto(c, x) /\ UNCHANGED <<world, meta, parts, result>> /\ Up /\ call[c].pc = "unpack"
  BY DEF Unpack, At
<1>2. x \in Calls /\ x.pc = "select" /\ x.packet = call[c].packet
  BY DEF BaseInv, TypeOk, Calls
<1>3. call[c].packet \in Packets
  BY <1>1 DEF BaseInv, Consistent
<1>4. temp' = [p \in Part |-> IF p \in Images[call[c].packet] THEN call[c].packet ELSE temp[p]]
  BY DEF Unpack
<1>5. temp' \in Files
  BY <1>3, <1>4 DEF BaseInv, TypeOk, Files
<1>6. running # NoSlot
  BY <1>1, SlotFacts DEF Up, Works
<1>7. /\ call'[c] = x /\ call' \in [Procs -> Calls]
      /\ \A d \in Procs \ {c} : call'[d] = call[d]
  BY <1>1, <1>2, GotoFacts, GotoTyped DEF BaseInv
<1> HIDE DEF x
<1> QED
  BY <1>1, <1>2, <1>3, <1>4, <1>5, <1>6, <1>7 DEF x

\* miscUpdate looks up the current slot.
LEMMA SelectFacts ==
    ASSUME BaseInv, NEW c \in Procs, Select(c)
    PROVE  /\ call' \in [Procs -> Calls] /\ call[c].pc = "select" /\ call'[c].pc = "part"
           /\ call'[c].slot = get_current_slot(misc) /\ get_current_slot(misc) \in Slot
           /\ call'[c].packet = call[c].packet /\ call'[c].part = call[c].part
           /\ call'[c].chosen = call[c].chosen /\ call'[c].overlooked = call[c].overlooked
           /\ \A d \in Procs \ {c} : call'[d] = call[d]
           /\ running # NoSlot /\ UNCHANGED <<world, meta, parts, temp, result>>
<1> DEFINE x == [call[c] EXCEPT !.pc = "part", !.slot = get_current_slot(misc)]
<1>1. /\ Goto(c, x) /\ UNCHANGED <<world, meta, parts, temp, result>> /\ Up /\ call[c].pc = "select"
      /\ get_current_slot(misc) \in Slot
  BY SlotFacts DEF Select, At, get_current_slot
<1>2. /\ x \in Calls /\ x.pc = "part" /\ x.slot = get_current_slot(misc)
      /\ x.packet = call[c].packet /\ x.part = call[c].part
      /\ x.chosen = call[c].chosen /\ x.overlooked = call[c].overlooked
  BY <1>1 DEF BaseInv, TypeOk, Calls
<1>3. running # NoSlot
  BY <1>1, SlotFacts DEF Up, Works
<1> HIDE DEF x
<1>4. /\ call'[c] = x /\ call' \in [Procs -> Calls]
      /\ \A d \in Procs \ {c} : call'[d] = call[d]
  BY <1>1, <1>2, GotoFacts, GotoTyped DEF BaseInv
<1> QED
  BY <1>1, <1>2, <1>3, <1>4

\* The two steps that write metadata.
LEMMA WriteFacts ==
    ASSUME BaseInv, NEW c \in Procs, SucceedWrite(c) \/ SwitchWrite(c)
    PROVE  /\ call'[c] = NoCall /\ call' \in [Procs -> Calls]
           /\ \A d \in Procs \ {c} : call'[d] = call[d]
           /\ misc' = call[c].meta /\ misc' \in MetaData /\ disk' \in MetaData
           /\ result' \in [Procs -> {"none", "ok", "error"}]
           /\ running \in Slot /\ UNCHANGED <<world, magic, parts, temp>>
<1>1. /\ Goto(c, NoCall) /\ result' = [result EXCEPT ![c] = "ok"] /\ SaveMeta(call[c].meta)
      /\ Up /\ call[c].pc \in {"succeed_write", "switch_write"}
      /\ UNCHANGED <<world, magic, parts, temp>>
  BY DEF SucceedWrite, SwitchWrite, At, Finish
<1>2. call[c].meta \in MetaData
  BY <1>1 DEF BaseInv, Consistent
<1>3. misc' = call[c].meta /\ disk' \in MetaData
  BY <1>1, <1>2 DEF SaveMeta, BaseInv, TypeOk
<1>4. running \in Slot
  BY <1>1 DEF Up, Works
<1>5. call'[c] = NoCall /\ \A d \in Procs \ {c} : call'[d] = call[d]
  BY <1>1, GotoFacts DEF BaseInv
<1>6. call' \in [Procs -> Calls]
  BY <1>1, PartOfFacts, CallFacts, GotoTyped DEF BaseInv
<1>7. result' \in [Procs -> {"none", "ok", "error"}]
  BY <1>1 DEF BaseInv, TypeOk
<1> QED
  BY <1>1, <1>2, <1>3, <1>4, <1>5, <1>6, <1>7

\* A step of one process.
LEMMA BaseProcess ==
    ASSUME BaseInv, NEW c \in Procs, Command(c) \/ Step(c) \/ Kill(c)
    PROVE  BaseInv'
<1> USE DEF world, meta, parts
<1>1. TypeOk /\ Consistent
  BY DEF BaseInv
<1>2. CASE Stage(c)
  <2>1. /\ Stays(c) /\ WritesOther(c) /\ temp' \in Files /\ call' \in [Procs -> Calls]
        /\ running # NoSlot /\ UNCHANGED <<world, meta, result>>
    BY <1>1, <1>2, StageFacts
  <2>2. TypeOk'
    BY <1>1, <2>1 DEF TypeOk, WritesOther, PartContent
  <2>3. call[c].packet \in Packets
    BY <1>1, <2>1 DEF Consistent, Stays
  <2>4. Consistent'
    BY <1>1, <2>1, <2>3, ConsistentFrame DEF WritesOther, Stays, Targeting
  <2> QED
    BY <2>2, <2>4 DEF BaseInv
<1>3. CASE Ending(c)
  <2>1. /\ call'[c] = NoCall /\ call'[c].pc = "idle" /\ \A d \in Procs \ {c} : call'[d] = call[d]
        /\ call' \in [Procs -> Calls] /\ temp' \in Files
        /\ result' \in [Procs -> {"none", "ok", "error"}]
        /\ UNCHANGED <<world, meta, parts>>
    BY <1>1, <1>3, EndingFacts DEF NoCall
  <2>2. running # NoSlot
    BY <1>3, SlotFacts DEF Ending, SucceedUnmarked, CommandFails, MiscWriteFails, UnpackFails, SelectFails,
       OpenPartFails, WriteFails, CompareFails, SwitchReadFails, Kill, AtImage, At, Up, Works
  <2>3. TypeOk'
    BY <1>1, <2>1 DEF TypeOk
  <2>4. mtd => cache' = flash'
    BY <1>1, <2>1 DEF Consistent
  <2>5. Consistent'
    BY <1>1, <2>1, <2>2, <2>4, ConsistentFrame
  <2> QED
    BY <2>3, <2>5 DEF BaseInv
<1>4. CASE SucceedRead(c)
  <2>1. TypeOk'
    BY <1>1, <1>4, SucceedReadFacts DEF TypeOk
  <2>2. mtd => cache' = flash'
    BY <1>1, <1>4, SucceedReadFacts DEF Consistent
  <2>3. Consistent'
    BY <1>1, <1>4, <2>2, SucceedReadFacts, ConsistentFrame
  <2> QED
    BY <2>1, <2>3 DEF BaseInv
<1>5. CASE OtherRead(c) \/ SwitchRead(c)
  <2>1. TypeOk'
    BY <1>1, <1>5, ActivityReadFacts DEF TypeOk
  <2>2. mtd => cache' = flash'
    BY <1>1, <1>5, ActivityReadFacts DEF Consistent
  <2>3. Consistent'
    BY <1>1, <1>5, <2>2, ActivityReadFacts, ConsistentFrame
  <2> QED
    BY <2>1, <2>3 DEF BaseInv
<1>6. CASE \E q \in Packets, chosen \in Selections : Start(c, q, chosen)
  <2>1. PICK q \in Packets, chosen \in Selections : Start(c, q, chosen)
    BY <1>6
  <2>2. TypeOk'
    BY <1>1, <2>1, StartFacts DEF TypeOk
  <2>3. mtd => cache' = flash'
    BY <1>1, <2>1, StartFacts DEF Consistent
  <2>4. Consistent'
    BY <1>1, <2>1, <2>3, StartFacts, ConsistentFrame
  <2> QED
    BY <2>2, <2>4 DEF BaseInv
<1>7. CASE Unpack(c)
  <2>1. TypeOk'
    BY <1>1, <1>7, UnpackFacts DEF TypeOk
  <2>2. mtd => cache' = flash'
    BY <1>1, <1>7, UnpackFacts DEF Consistent
  <2>3. Consistent'
    BY <1>1, <1>7, <2>2, UnpackFacts, ConsistentFrame
  <2> QED
    BY <2>1, <2>3 DEF BaseInv
<1>8. CASE Select(c)
  <2>1. TypeOk'
    BY <1>1, <1>8, SelectFacts DEF TypeOk
  <2>2. (mtd => cache' = flash') /\ call[c].packet \in Packets
    BY <1>1, <1>8, SelectFacts DEF Consistent
  <2>3. Consistent'
    BY <1>1, <1>8, <2>2, SelectFacts, ConsistentFrame
  <2> QED
    BY <2>1, <2>3 DEF BaseInv
<1>9. CASE SucceedWrite(c) \/ SwitchWrite(c)
  <2>1. switched' \in BOOLEAN /\ confirmed' \in Slot \union {NoSlot}
    BY <1>1, <1>9, WriteFacts DEF SucceedWrite, SwitchWrite, TypeOk
  <2>2. TypeOk'
    BY <1>1, <1>9, <2>1, WriteFacts DEF TypeOk
  <2>3. mtd => cache' = flash'
    BY <1>1, <1>9, WriteFacts DEF Consistent
  <2>4. call'[c].pc = "idle" /\ running # NoSlot
    BY <1>9, WriteFacts, SlotFacts DEF NoCall
  <2>5. Consistent'
    BY <1>1, <1>9, <2>3, <2>4, WriteFacts, ConsistentFrame
  <2> QED
    BY <2>2, <2>5 DEF BaseInv
<1> QED
  BY <1>2, <1>3, <1>4, <1>5, <1>6, <1>7, <1>8, <1>9, StepCases

\* Write-back of a partition: one place changes, and only where the page cache is
\* ahead of the medium.
LEMMA WritebackFacts ==
    ASSUME BaseInv, WritebackPart
    PROVE  /\ running # NoSlot /\ UNCHANGED <<world, meta, cache, temp, call, result>>
           /\ flash' \in [Slot -> [Part -> PartContent]]
           /\ \A s \in Slot, p \in Part : cache[s][p] = flash[s][p] => flash'[s][p] = flash[s][p]
<1>0. PICK s \in Slot, p \in Part :
        /\ cache[s][p] # flash[s][p]
        /\ \E content \in {cache[s][p], Damaged} : flash' = [flash EXCEPT ![s][p] = content]
  BY DEF WritebackPart
<1>1. PICK content \in {cache[s][p], Damaged} : flash' = [flash EXCEPT ![s][p] = content]
  BY <1>0
<1>2. content \in PartContent /\ flash \in [Slot -> [Part -> PartContent]]
  BY <1>1 DEF BaseInv, TypeOk, PartContent
<1>3. /\ flash' \in [Slot -> [Part -> PartContent]]
      /\ \A o \in Slot, q \in Part : o # s \/ q # p => flash'[o][q] = flash[o][q]
  BY <1>1, <1>2, PutFacts
<1>4. ASSUME NEW o \in Slot, NEW q \in Part, cache[o][q] = flash[o][q]
      PROVE  flash'[o][q] = flash[o][q]
  <2>1. o # s \/ q # p
    BY <1>0, <1>4
  <2> QED
    BY <1>3, <2>1
<1> QED
  BY <1>3, <1>4 DEF WritebackPart

\* Two partition maps that agree everywhere are the same.
LEMMA SameParts ==
    ASSUME NEW f \in [Slot -> [Part -> PartContent]], NEW g \in [Slot -> [Part -> PartContent]],
           \A s \in Slot, p \in Part : f[s][p] = g[s][p]
    PROVE  f = g
<1>1. \A s \in Slot : f[s] = g[s]
  <2> SUFFICES ASSUME NEW s \in Slot PROVE f[s] = g[s]
    OBVIOUS
  <2>1. f[s] \in [Part -> PartContent] /\ g[s] \in [Part -> PartContent]
    OBVIOUS
  <2> QED
    BY <2>1
<1> QED
  BY <1>1

\* Write-back does not touch a slot of which the medium has everything.
LEMMA WritebackSpares ==
    ASSUME BaseInv, WritebackPart, NEW s \in Slot, cache[s] = flash[s]
    PROVE  flash'[s] = flash[s]
<1>1. flash[s] \in [Part -> PartContent] /\ flash'[s] \in [Part -> PartContent]
  BY WritebackFacts DEF BaseInv, TypeOk, PartContent
<1>2. \A p \in Part : flash'[s][p] = flash[s][p]
  BY WritebackFacts
<1> QED
  BY <1>1, <1>2

\* What a power cut and a boot leave.
LEMMA ResetFacts ==
    ASSUME BaseInv, Reset
    PROVE  /\ running' = NoSlot /\ cache' = flash /\ misc' = disk
           /\ \A c \in Procs : call'[c] = NoCall
           /\ call' \in [Procs -> Calls] /\ result' \in [Procs -> {"none", "ok", "error"}]
           /\ temp' \in Files /\ ~switched' /\ switched' \in BOOLEAN /\ confirmed' = NoSlot
           /\ UNCHANGED <<mtd, disk, magic, flash>>
<1>1. call' \in [Procs -> Calls] /\ \A c \in Procs : call'[c] = NoCall
  <2>1. NoCall \in Calls
    BY PartFacts DEF NoCall, NoPacket, Calls, Slot
  <2> QED
    BY <2>1 DEF Reset
<1> QED
  BY <1>1 DEF Reset

\* The boot loader starts the slot that the metadata selects and spends a try.
LEMMA BootFacts ==
    ASSUME BaseInv, Boot
    PROVE  /\ running = NoSlot /\ running' \in Slot
           /\ magic => /\ running' = GetCurrentSlot(disk) /\ misc' = SpendTry(disk, running')
           /\ misc' \in MetaData /\ disk' \in MetaData
           /\ UNCHANGED <<mtd, magic, parts, temp, call, result, switched, confirmed>>
<1>1. PICK s \in Slot : /\ s = (IF magic THEN GetCurrentSlot(disk) ELSE 0) /\ running' = s
                        /\ disk' = IF magic THEN SpendTry(disk, s) ELSE disk
  BY DEF Boot
<1>2. disk' \in MetaData
  BY <1>1, SpendTryFacts DEF BaseInv, TypeOk
<1> QED
  BY <1>1, <1>2 DEF Boot

\* Types and consistency are inductive, for any number of processes.
LEMMA BaseStep == BaseInv /\ [Next]_vars => BaseInv'
<1> SUFFICES ASSUME BaseInv, [Next]_vars PROVE BaseInv'
  OBVIOUS
<1> USE DEF world, meta, parts
<1>1. CASE UNCHANGED vars
  <2>1. TypeOk'
    BY <1>1 DEF BaseInv, TypeOk, vars
  <2>2. Consistent'
    BY <1>1 DEF BaseInv, Consistent, vars
  <2> QED
    BY <2>1, <2>2 DEF BaseInv
<1>2. ASSUME NEW c \in Procs, Command(c) \/ Step(c) \/ Kill(c) PROVE BaseInv'
  BY <1>2, BaseProcess
<1>3. CASE WritebackMisc
  <2>1. TypeOk'
    BY <1>3 DEF WritebackMisc, BaseInv, TypeOk
  <2>2. Consistent'
    BY <1>3 DEF WritebackMisc, BaseInv, Consistent
  <2> QED
    BY <2>1, <2>2 DEF BaseInv
<1>4. CASE WritebackPart
  <2>1. TypeOk'
    BY <1>4, WritebackFacts DEF BaseInv, TypeOk, PartContent
  <2>2. mtd => flash' = flash
    <3>1. flash \in [Slot -> [Part -> PartContent]]
      BY DEF BaseInv, TypeOk, PartContent
    <3> QED
      BY <1>4, <3>1, WritebackFacts, SameParts DEF BaseInv, Consistent
  <2>3. Consistent'
    BY <1>4, <2>2, WritebackFacts DEF BaseInv, Consistent
  <2> QED
    BY <2>1, <2>3 DEF BaseInv
<1>5. CASE Reset
  <2>1. TypeOk'
    BY <1>5, ResetFacts DEF BaseInv, TypeOk
  <2>2. Consistent'
    BY <1>5, ResetFacts DEF Consistent, NoCall
  <2> QED
    BY <2>1, <2>2 DEF BaseInv
<1>6. CASE Boot
  <2>1. TypeOk'
    BY <1>6, BootFacts DEF BaseInv, TypeOk
  <2>2. running' # NoSlot
    BY <1>6, BootFacts, SlotFacts
  <2>3. Consistent'
    BY <1>6, <2>2, BootFacts DEF BaseInv, Consistent
  <2> QED
    BY <2>1, <2>3 DEF BaseInv
<1> QED
  BY <1>1, <1>2, <1>3, <1>4, <1>5, <1>6 DEF Next

\* The metadata, the partitions and the calls keep their types, and the save
\* directory only ever has images that some packet has.
THEOREM TypeCorrect == Spec => []TypeOk
<1>1. Init => BaseInv
  BY BaseInit
<1>2. BaseInv /\ [Next]_vars => BaseInv'
  BY BaseStep
<1>3. BaseInv => TypeOk
  BY DEF BaseInv
<1> QED
  BY <1>1, <1>2, <1>3, PTL DEF Spec

-----------------------------------------------------------------------------
(* The running slot, for any number of processes *)

\* A step of process c that leaves the metadata alone.
LEMMA RunsFrame ==
    ASSUME RunsFromSelected, NEW c \in Procs, UNCHANGED <<running, misc, magic, switched>>,
           cache[running] = flash[running] /\ (call[c].pc \in Targeting => call[c].slot = running) =>
               cache'[running] = flash'[running],
           \A d \in Procs \ {c} : call'[d] = call[d],
           call'[c].pc \in Targeting =>
               \/ call'[c].slot = get_current_slot(misc)
               \/ call[c].pc \in Targeting /\ call'[c].slot = call[c].slot,
           call'[c].pc = "succeed_write" =>
               /\ running \in Slot
               /\ get_current_slot(call'[c].meta) = get_current_slot(misc)
               /\ call'[c].meta.last_boot = get_current_slot(misc)
               /\ \A o \in Slot \ {get_current_slot(misc)} :
                     o \in Bootable(misc) <=> o \in Bootable(call'[c].meta)
    PROVE  RunsFromSelected'
<1> SUFFICES ASSUME running # NoSlot, magic, ~switched
             PROVE  IF get_current_slot(misc) = running
                    THEN /\ cache'[running] = flash'[running]
                         /\ \A d \in Procs :
                               /\ call'[d].pc \in Targeting => call'[d].slot = running
                               /\ call'[d].pc = "succeed_write" =>
                                     /\ get_current_slot(call'[d].meta) = running
                                     /\ call'[d].meta.last_boot = running
                    ELSE /\ running \notin Bootable(misc)
                         /\ \A d \in Procs : call'[d].pc = "succeed_write" =>
                               /\ get_current_slot(call'[d].meta) # running
                               /\ running \notin Bootable(call'[d].meta)
  BY DEF RunsFromSelected
<1>1. CASE get_current_slot(misc) = running
  <2>1. /\ cache[running] = flash[running]
        /\ \A d \in Procs : /\ call[d].pc \in Targeting => call[d].slot = running
                            /\ call[d].pc = "succeed_write" =>
                                  /\ get_current_slot(call[d].meta) = running
                                  /\ call[d].meta.last_boot = running
    BY <1>1 DEF RunsFromSelected
  <2>2. ASSUME NEW d \in Procs
        PROVE  /\ call'[d].pc \in Targeting => call'[d].slot = running
               /\ call'[d].pc = "succeed_write" =>
                     /\ get_current_slot(call'[d].meta) = running
                     /\ call'[d].meta.last_boot = running
    <3>1. CASE d = c
      <4>1. call[c].pc \in Targeting => call[c].slot = running
        BY <2>1
      <4> QED
        BY <1>1, <3>1, <4>1
    <3>2. CASE d # c
      BY <2>1, <2>2, <3>2
    <3> QED
      BY <3>1, <3>2
  <2>3. cache'[running] = flash'[running]
    BY <2>1
  <2> QED
    BY <1>1, <2>2, <2>3
<1>2. CASE get_current_slot(misc) # running
  <2>1. /\ running \notin Bootable(misc)
        /\ \A d \in Procs : call[d].pc = "succeed_write" =>
              /\ get_current_slot(call[d].meta) # running
              /\ running \notin Bootable(call[d].meta)
    BY <1>2 DEF RunsFromSelected
  <2>2. ASSUME NEW d \in Procs, call'[d].pc = "succeed_write"
        PROVE  /\ get_current_slot(call'[d].meta) # running
               /\ running \notin Bootable(call'[d].meta)
    <3>1. CASE d = c
      BY <1>2, <2>1, <2>2, <3>1
    <3>2. CASE d # c
      BY <2>1, <2>2, <3>2
    <3> QED
      BY <3>1, <3>2
  <2> QED
    BY <1>2, <2>1, <2>2
<1> QED
  BY <1>1, <1>2

\* A stage of an update for the other slot leaves the running one alone.
LEMMA StageSpares ==
    ASSUME BaseInv, NEW c \in Procs, Stage(c), call[c].slot = running, running \in Slot
    PROVE  cache'[running] = cache[running] /\ flash'[running] = flash[running]
<1>1. WritesOther(c) /\ Target(c) # running
  BY StageFacts, PartOfFacts DEF BaseInv
<1> QED
  BY <1>1 DEF WritesOther

\* A process in a stage has picked a slot.
LEMMA StageTargets ==
    ASSUME BaseInv, NEW c \in Procs, Stage(c)
    PROVE  call[c].pc \in Targeting
BY StageFacts DEF BaseInv, Stays, Targeting

\* At first nothing runs.
LEMMA AllIdle == Init => /\ running = NoSlot /\ confirmed = NoSlot
                         /\ \A c \in Procs : call[c].pc = "idle"
BY DEF Init, NoCall

\* Only these steps of a process touch the metadata or pick a slot.
LEMMA QuietSteps ==
    ASSUME BaseInv, NEW c \in Procs, Command(c) \/ Step(c) \/ Kill(c)
    PROVE  /\ \/ OtherRead(c) \/ SwitchRead(c) \/ SucceedWrite(c) \/ SwitchWrite(c)
              \/ UNCHANGED <<world, meta>>
           /\ Select(c) \/ Stage(c) \/ call'[c].pc \notin Targeting
           /\ OtherRead(c) \/ SwitchRead(c) \/ call'[c].pc # "switch_write"
<1>1. CASE Stage(c)
  <2>1. call'[c].pc \in Targeting /\ UNCHANGED <<world, meta>>
    BY <1>1, StageFacts DEF BaseInv, Stays
  <2> QED
    BY <1>1, <2>1 DEF Targeting
<1>2. CASE Select(c)
  <2>1. call'[c].pc = "part" /\ UNCHANGED <<world, meta>>
    BY <1>2, SelectFacts
  <2> QED
    BY <1>2, <2>1
<1>3. CASE OtherRead(c) \/ SwitchRead(c)
  BY <1>3, ActivityReadFacts DEF Targeting
<1>4. CASE SucceedWrite(c) \/ SwitchWrite(c)
  BY <1>4, WriteFacts DEF Targeting, NoCall
<1>5. CASE Ending(c)
  BY <1>5, EndingFacts DEF BaseInv, Targeting, NoCall
<1>6. CASE SucceedRead(c)
  BY <1>6, SucceedReadFacts DEF Targeting
<1>7. CASE \E q \in Packets, chosen \in Selections : Start(c, q, chosen)
  BY <1>7, StartFacts DEF Targeting
<1>8. CASE Unpack(c)
  BY <1>8, UnpackFacts DEF Targeting
<1> QED
  BY <1>1, <1>2, <1>3, <1>4, <1>5, <1>6, <1>7, <1>8, StepCases

\* No step of a process makes it or another one leave the slot that runs.
LEMMA RunsProcess ==
    ASSUME BaseInv, RunsFromSelected, NEW c \in Procs, Command(c) \/ Step(c) \/ Kill(c)
    PROVE  RunsFromSelected'
<1> USE DEF world, meta, parts
<1>1. TypeOk /\ Consistent
  BY DEF BaseInv
<1>2. CASE Stage(c)
  <2>1. /\ Stays(c) /\ running \in Slot /\ UNCHANGED <<running, misc, magic, switched>>
        /\ call[c].pc \in Targeting
    BY <1>1, <1>2, StageFacts, StageTargets DEF TypeOk
  <2>2. cache[running] = flash[running] /\ call[c].slot = running =>
            cache'[running] = flash'[running]
    BY <1>2, <2>1, StageSpares
  <2>3. /\ call'[c].pc # "succeed_write" /\ call'[c].slot = call[c].slot
        /\ \A d \in Procs \ {c} : call'[d] = call[d]
    BY <2>1 DEF Stays, Targeting
  <2> QED
    BY <2>1, <2>2, <2>3, RunsFrame
<1>3. CASE Ending(c)
  <2>1. /\ call'[c].pc = "idle" /\ \A d \in Procs \ {c} : call'[d] = call[d]
        /\ UNCHANGED <<world, meta, parts>>
    BY <1>1, <1>3, EndingFacts DEF NoCall
  <2> QED
    BY <2>1, RunsFrame DEF Targeting
<1>4. CASE SucceedRead(c)
  <2>1. /\ call'[c].pc = "succeed_write" /\ running \in Slot
        /\ get_current_slot(call'[c].meta) = get_current_slot(misc)
        /\ call'[c].meta.last_boot = get_current_slot(misc)
        /\ \A o \in Slot \ {get_current_slot(misc)} :
              o \in Bootable(misc) <=> o \in Bootable(call'[c].meta)
        /\ \A d \in Procs \ {c} : call'[d] = call[d]
        /\ UNCHANGED <<world, meta, parts>>
    BY <1>1, <1>4, SucceedReadFacts DEF get_current_slot, TypeOk
  <2> QED
    BY <2>1, RunsFrame DEF Targeting
<1>5. CASE OtherRead(c) \/ SwitchRead(c)
  <2>1. /\ call'[c].pc = "switch_write" /\ \A d \in Procs \ {c} : call'[d] = call[d]
        /\ UNCHANGED <<world, meta, parts>>
    BY <1>5, ActivityReadFacts
  <2> QED
    BY <2>1, RunsFrame DEF Targeting
<1>6. CASE \E q \in Packets, chosen \in Selections : Start(c, q, chosen)
  <2>1. /\ call'[c].pc = "unpack" /\ \A d \in Procs \ {c} : call'[d] = call[d]
        /\ UNCHANGED <<world, meta, parts>>
    BY <1>6, StartFacts
  <2> QED
    BY <2>1, RunsFrame DEF Targeting
<1>7. CASE Unpack(c)
  <2>1. /\ call'[c].pc = "select" /\ \A d \in Procs \ {c} : call'[d] = call[d]
        /\ UNCHANGED <<world, meta, parts>>
    BY <1>7, UnpackFacts
  <2> QED
    BY <2>1, RunsFrame DEF Targeting
<1>8. CASE Select(c)
  <2>1. /\ call'[c].pc = "part" /\ call'[c].slot = get_current_slot(misc)
        /\ \A d \in Procs \ {c} : call'[d] = call[d]
        /\ UNCHANGED <<world, meta, parts>>
    BY <1>8, SelectFacts
  <2> QED
    BY <2>1, RunsFrame
<1>9. CASE SucceedWrite(c)
  <2>1. /\ call'[c].pc = "idle" /\ \A d \in Procs \ {c} : call'[d] = call[d]
        /\ misc' = call[c].meta /\ call[c].pc = "succeed_write"
        /\ UNCHANGED <<world, magic, switched, parts>>
    BY <1>9, WriteFacts DEF SucceedWrite, At, NoCall
  <2> SUFFICES ASSUME running # NoSlot, magic, ~switched PROVE RunsFromSelected'
    BY <2>1 DEF RunsFromSelected
  <2>2. CASE get_current_slot(misc) = running
    <3>1. /\ cache[running] = flash[running] /\ get_current_slot(call[c].meta) = running
          /\ \A d \in Procs : /\ call[d].pc \in Targeting => call[d].slot = running
                              /\ call[d].pc = "succeed_write" =>
                                    /\ get_current_slot(call[d].meta) = running
                                    /\ call[d].meta.last_boot = running
      BY <2>1, <2>2 DEF RunsFromSelected
    <3>2. \A d \in Procs : /\ call'[d].pc \in Targeting => call'[d].slot = running
                           /\ call'[d].pc = "succeed_write" =>
                                 /\ get_current_slot(call'[d].meta) = running
                                 /\ call'[d].meta.last_boot = running
      BY <2>1, <3>1 DEF Targeting
    <3>3. get_current_slot(misc') = running /\ cache'[running] = flash'[running]
      BY <2>1, <3>1
    <3> QED
      BY <2>1, <3>2, <3>3 DEF RunsFromSelected
  <2>3. CASE get_current_slot(misc) # running
    <3>1. /\ get_current_slot(call[c].meta) # running /\ running \notin Bootable(call[c].meta)
          /\ \A d \in Procs : call[d].pc = "succeed_write" =>
                /\ get_current_slot(call[d].meta) # running
                /\ running \notin Bootable(call[d].meta)
      BY <2>1, <2>3 DEF RunsFromSelected
    <3>2. \A d \in Procs : call'[d].pc = "succeed_write" =>
                /\ get_current_slot(call'[d].meta) # running
                /\ running \notin Bootable(call'[d].meta)
      BY <2>1, <3>1
    <3> QED
      BY <2>1, <3>1, <3>2 DEF RunsFromSelected
  <2> QED
    BY <2>2, <2>3
<1>10. CASE SwitchWrite(c)
  BY <1>10 DEF SwitchWrite, RunsFromSelected
<1> QED
  BY <1>2, <1>3, <1>4, <1>5, <1>6, <1>7, <1>8, <1>9, <1>10, StepCases

\* RunsFromSelected is inductive, for any number of processes.
LEMMA RunsStep == BaseInv /\ RunsFromSelected /\ [Next]_vars => RunsFromSelected'
<1> SUFFICES ASSUME BaseInv, RunsFromSelected, [Next]_vars PROVE RunsFromSelected'
  OBVIOUS
<1> USE DEF world, meta, parts
<1>1. CASE UNCHANGED vars
  BY <1>1 DEF RunsFromSelected, vars
<1>2. ASSUME NEW c \in Procs, Command(c) \/ Step(c) \/ Kill(c) PROVE RunsFromSelected'
  BY <1>2, RunsProcess
<1>3. CASE WritebackMisc
  BY <1>3 DEF WritebackMisc, RunsFromSelected
<1>4. CASE WritebackPart
  <2>1. /\ running \in Slot /\ UNCHANGED <<running, misc, magic, switched, cache, call>>
    BY <1>4, WritebackFacts DEF BaseInv, TypeOk
  <2>2. cache[running] = flash[running] => flash'[running] = flash[running]
    BY <1>4, <2>1, WritebackSpares
  <2> QED
    BY <2>1, <2>2 DEF RunsFromSelected
<1>5. CASE Reset
  BY <1>5 DEF Reset, RunsFromSelected
<1>6. CASE Boot
  <2>1. /\ running = NoSlot /\ running' \in Slot /\ UNCHANGED <<magic, parts, call>>
        /\ magic => /\ running' = GetCurrentSlot(disk) /\ misc' = SpendTry(disk, running')
    BY <1>6, BootFacts
  <2>2. cache = flash /\ \A c \in Procs : call[c].pc = "idle"
    BY <2>1 DEF BaseInv, Consistent, NoCall
  <2>3. magic => get_current_slot(misc') = running' \/ running' \notin Bootable(misc')
    BY <2>1, SpendTryKeepsChoice DEF BaseInv, TypeOk, get_current_slot
  <2> QED
    BY <2>1, <2>2, <2>3 DEF RunsFromSelected, Targeting
<1> QED
  BY <1>1, <1>2, <1>3, <1>4, <1>5, <1>6 DEF Next

\* Whatever steps, of the tool, of the kernel or a power cut, come after a boot,
\* and however many processes run the tool: until the metadata is switched, what
\* the running slot holds does not change, neither in the page cache nor on the
\* medium.  RunsFromSelected is what makes it inductive: it says that every
\* process that has picked a slot picked the running one, and that no process is
\* about to write metadata that selects another one.
THEOREM RunningSlotIsSpared == Spec => RunningSlotSpared
<1> DEFINE I == BaseInv /\ RunsFromSelected
           Spared == (running # NoSlot /\ magic /\ ~switched /\ running \in Bootable(misc)) =>
                        cache'[running] = cache[running] /\ flash'[running] = flash[running]
<1>1. Init => I
  BY BaseInit DEF Init, RunsFromSelected
<1>2. I /\ [Next]_vars => I'
  BY BaseStep, RunsStep
<1>3. I /\ [Next]_vars => [Spared]_vars
  <2> SUFFICES ASSUME BaseInv, RunsFromSelected, Next,
                      running # NoSlot, magic, ~switched, running \in Bootable(misc)
               PROVE  cache'[running] = cache[running] /\ flash'[running] = flash[running]
    OBVIOUS
  <2> USE DEF parts
  <2>1. /\ cache[running] = flash[running] /\ running \in Slot
        /\ \A c \in Procs : call[c].pc \in Targeting => call[c].slot = running
    BY DEF RunsFromSelected, Bootable
  <2>2. ASSUME NEW c \in Procs, Command(c) \/ Step(c) \/ Kill(c)
        PROVE  cache'[running] = cache[running] /\ flash'[running] = flash[running]
    <3>1. CASE Stage(c)
      BY <2>1, <3>1, StageTargets, StageSpares
    <3>2. CASE ~Stage(c)
      <4>1. UNCHANGED parts
        <5>1. Ending(c) => UNCHANGED parts
          BY EndingFacts DEF BaseInv
        <5>2. (OtherRead(c) \/ SwitchRead(c)) => UNCHANGED parts
          BY ActivityReadFacts
        <5>3. SucceedRead(c) => UNCHANGED parts
          BY SucceedReadFacts
        <5>4. (SucceedWrite(c) \/ SwitchWrite(c)) => UNCHANGED parts
          BY WriteFacts
        <5>5. (\E q \in Packets, chosen \in Selections : Start(c, q, chosen)) => UNCHANGED parts
          BY StartFacts
        <5>6. Unpack(c) \/ Select(c) => UNCHANGED parts
          BY UnpackFacts, SelectFacts
        <5> QED
          BY <2>2, <3>2, <5>1, <5>2, <5>3, <5>4, <5>5, <5>6, StepCases
      <4> QED
        BY <4>1
    <3> QED
      BY <3>1, <3>2
  <2>3. CASE WritebackMisc
    BY <2>3 DEF WritebackMisc
  <2>4. CASE WritebackPart
    BY <2>1, <2>4, WritebackFacts, WritebackSpares
  <2>5. CASE Reset
    BY <2>1, <2>5 DEF Reset
  <2>6. CASE Boot
    BY <2>6 DEF Boot
  <2> QED
    BY <2>2, <2>3, <2>4, <2>5, <2>6 DEF Next
<1> QED
  BY <1>1, <1>2, <1>3, PTL DEF Spec, RunningSlotSpared

-----------------------------------------------------------------------------
(* One process at a time.  Another one may write metadata that it read before, *)
(* switch under an update, or empty the save directory of one.                 *)

Alone == \A c, d \in Procs : c = d

\* What the one process is about to write has the last_boot of the metadata, and
\* the confirmed slot is in it.
LEMMA LastBootStep ==
    ASSUME Alone, BaseInv, RunsFromSelected, LastBootKept, [Next]_vars
    PROVE  LastBootKept'
<1> USE DEF world, meta, parts
<1> DEFINE Kept == \A c \in Procs : call[c].pc = "switch_write" => call[c].meta.last_boot = misc.last_boot
<1>1. ConfirmIsRecorded /\ Kept
  BY DEF LastBootKept
<1>2. ConfirmIsRecorded' /\ Kept' => LastBootKept'
  BY DEF LastBootKept
<1> HIDE DEF Kept
<1>3. CASE UNCHANGED vars
  BY <1>1, <1>2, <1>3 DEF ConfirmIsRecorded, Kept, vars
<1>4. ASSUME NEW c \in Procs, Command(c) \/ Step(c) \/ Kill(c) PROVE LastBootKept'
  <2>1. \A d \in Procs : d = c
    BY DEF Alone
  <2>2. CASE OtherRead(c) \/ SwitchRead(c)
    <3>1. UNCHANGED <<world, meta>> /\ call'[c].meta.last_boot = misc.last_boot
      BY <2>2, ActivityReadFacts
    <3>2. ConfirmIsRecorded' /\ Kept'
      BY <1>1, <2>1, <3>1 DEF ConfirmIsRecorded, Kept
    <3> QED
      BY <1>2, <3>2
  <2>3. CASE SucceedWrite(c)
    <3>1. /\ misc' = call[c].meta /\ call'[c].pc = "idle" /\ running # NoSlot
          /\ call[c].pc = "succeed_write"
          /\ confirmed' = IF switched \/ running \notin Bootable(misc) THEN NoSlot ELSE running
      BY <2>3, WriteFacts, SlotFacts DEF SucceedWrite, At, NoCall
    <3>2. magic
      BY <3>1 DEF BaseInv, Consistent
    <3>3. ~switched /\ running \in Bootable(misc) => call[c].meta.last_boot = running
      BY <3>1, <3>2 DEF RunsFromSelected
    <3>4. ConfirmIsRecorded'
      BY <3>1, <3>3 DEF ConfirmIsRecorded
    <3>5. Kept'
      BY <2>1, <3>1 DEF Kept
    <3> QED
      BY <1>2, <3>4, <3>5
  <2>4. CASE SwitchWrite(c)
    <3>1. /\ misc' = call[c].meta /\ call'[c].pc = "idle" /\ confirmed' = confirmed
          /\ call[c].pc = "switch_write"
      BY <2>4, WriteFacts DEF SwitchWrite, At, NoCall
    <3>2. misc'.last_boot = misc.last_boot
      BY <1>1, <3>1 DEF Kept
    <3>3. ConfirmIsRecorded' /\ Kept'
      BY <1>1, <2>1, <3>1, <3>2 DEF ConfirmIsRecorded, Kept
    <3> QED
      BY <1>2, <3>3
  <2>5. CASE ~(OtherRead(c) \/ SwitchRead(c) \/ SucceedWrite(c) \/ SwitchWrite(c))
    <3>1. call'[c].pc # "switch_write" /\ UNCHANGED <<world, meta>>
      BY <1>4, <2>5, QuietSteps
    <3>2. ConfirmIsRecorded' /\ Kept'
      BY <1>1, <2>1, <3>1 DEF ConfirmIsRecorded, Kept
    <3> QED
      BY <1>2, <3>2
  <2> QED
    BY <2>2, <2>3, <2>4, <2>5
<1>5. CASE WritebackMisc \/ WritebackPart
  BY <1>1, <1>2, <1>5 DEF WritebackMisc, WritebackPart, ConfirmIsRecorded, Kept
<1>6. CASE Reset \/ Boot
  <2>1. confirmed' = NoSlot /\ \A c \in Procs : call'[c].pc = "idle"
    BY <1>6, ResetFacts, BootFacts DEF BaseInv, Consistent, NoCall
  <2>2. ConfirmIsRecorded' /\ Kept'
    BY <2>1 DEF ConfirmIsRecorded, Kept
  <2> QED
    BY <1>2, <2>2
<1> QED
  BY <1>3, <1>4, <1>5, <1>6 DEF Next

\* Once a slot was confirmed while it ran undisturbed, last_boot names it, after a
\* switch and after an update just as before.
THEOREM ConfirmStays == ASSUME Alone PROVE Spec => []ConfirmIsRecorded
<1> DEFINE I == BaseInv /\ RunsFromSelected /\ LastBootKept
<1>1. Init => I
  BY BaseInit, AllIdle DEF RunsFromSelected, LastBootKept, ConfirmIsRecorded
<1>2. I /\ [Next]_vars => I'
  BY BaseStep, RunsStep, LastBootStep
<1>3. I => ConfirmIsRecorded
  BY DEF LastBootKept
<1> QED
  BY <1>1, <1>2, <1>3, PTL DEF Spec

\* The metadata still selects the slot that the update took for the running one.
LEMMA TargetStep ==
    ASSUME Alone, BaseInv, TargetIsOther, [Next]_vars
    PROVE  TargetIsOther'
<1> USE DEF world, meta, parts
<1> DEFINE Holds(c) ==
             /\ call[c].pc = "switch_write" /\ call[c].packet # NoPacket =>
                   GetCurrentSlot(call[c].meta) = Other(call[c].slot)
             /\ call[c].pc \in Targeting => call[c].slot = get_current_slot(misc)
<1>1. \A c \in Procs : Holds(c)
  BY DEF TargetIsOther, SwitchNamesTarget, Target
<1>2. (\A c \in Procs : Holds(c)') => TargetIsOther'
  BY DEF TargetIsOther, SwitchNamesTarget, Target
<1>3. CASE UNCHANGED vars
  BY <1>1, <1>2, <1>3 DEF vars
<1>4. ASSUME NEW c \in Procs, Command(c) \/ Step(c) \/ Kill(c) PROVE TargetIsOther'
  <2> SUFFICES Holds(c)'
    BY <1>2 DEF Alone
  <2>1. CASE OtherRead(c)
    <3>1. call'[c].packet = call[c].packet /\ call'[c].pc = "switch_write"
      BY <2>1, ActivityReadFacts
    <3>2. call[c].packet = NoPacket
      <4>1. call[c] = NoCall
        BY <2>1 DEF OtherRead, At, BaseInv, Consistent
      <4> QED
        BY <4>1 DEF NoCall
    <3> QED
      BY <3>1, <3>2 DEF Targeting
  <2>2. CASE SwitchRead(c)
    <3>1. /\ call'[c].pc = "switch_write" /\ call'[c].slot = call[c].slot /\ call[c].pc = "switch"
          /\ GetCurrentSlot(call'[c].meta) = Other(get_current_slot(misc))
      BY <2>2, ActivityReadFacts DEF SwitchRead, At
    <3>2. call[c].slot = get_current_slot(misc)
      BY <1>1, <3>1 DEF Targeting
    <3> QED
      BY <3>1, <3>2 DEF Targeting
  <2>3. CASE Select(c)
    BY <2>3, SelectFacts
  <2>4. CASE Stage(c)
    <3>1. /\ call[c].pc \in Targeting /\ call'[c].pc \in Targeting /\ call'[c].slot = call[c].slot
          /\ UNCHANGED <<world, meta>>
      BY <2>4, StageFacts, StageTargets DEF BaseInv, Stays
    <3> QED
      BY <1>1, <3>1 DEF Targeting
  <2>5. CASE ~(OtherRead(c) \/ SwitchRead(c) \/ Select(c) \/ Stage(c))
    <3>1. call'[c].pc \notin Targeting \union {"switch_write"}
      BY <1>4, <2>5, QuietSteps DEF Targeting
    <3> QED
      BY <3>1
  <2> QED
    BY <2>1, <2>2, <2>3, <2>4, <2>5
<1>5. CASE WritebackMisc \/ WritebackPart
  BY <1>1, <1>2, <1>5 DEF WritebackMisc, WritebackPart
<1>6. CASE Reset \/ Boot
  <2>1. \A c \in Procs : call'[c].pc = "idle"
    <3>1. \A c \in Procs : call'[c] = NoCall
      BY <1>6, ResetFacts, BootFacts DEF BaseInv, Consistent
    <3> QED
      BY <3>1 DEF NoCall
  <2> QED
    BY <1>2, <2>1 DEF Targeting
<1> QED
  BY <1>3, <1>4, <1>5, <1>6 DEF Next

\* An update switches to the slot it wrote, although setSlotActivity looks the
\* current slot up again.
THEOREM SwitchIsToTarget == ASSUME Alone PROVE Spec => []SwitchNamesTarget
<1> DEFINE I == BaseInv /\ TargetIsOther
<1>1. Init => I
  BY BaseInit, AllIdle DEF TargetIsOther, SwitchNamesTarget, Targeting
<1>2. I /\ [Next]_vars => I'
  BY BaseStep, TargetStep
<1>3. I => SwitchNamesTarget
  BY DEF TargetIsOther
<1> QED
  BY <1>1, <1>2, <1>3, PTL DEF Spec

-----------------------------------------------------------------------------
(* The images on their way to the medium *)

\* What Carried says of a call in the middle of partition k.
LEMMA CarriedNow ==
    ASSUME TypeOk, NEW c \in Procs, Carried(c), call[c].pc \in {"part", "write", "fsync", "compare"}
    PROVE  /\ \A i \in 1 .. call[c].part - 1 :
                 PartName[i] \in (Images[call[c].packet] \intersect call[c].chosen) \ call[c].overlooked =>
                     /\ cache[Target(c)][PartName[i]] = call[c].packet
                     /\ flash[Target(c)][PartName[i]] = call[c].packet
           /\ \A i \in call[c].part .. 4 :
                 PartName[i] \in Images[call[c].packet] => temp[PartName[i]] = call[c].packet
           /\ call[c].pc = "compare" =>
                 \/ PartOf(c) \in call[c].overlooked
                 \/ flash[Target(c)][PartOf(c)] = cache[Target(c)][PartOf(c)]
<1>1. Behind(c) = 1 .. call[c].part - 1
  BY DEF Behind
<1>2. DOMAIN PartName = 1 .. 4 /\ call[c].part \in 1 .. 4
  BY PartFacts, PartOfFacts, CallFacts
<1>3. \A i \in call[c].part .. 4 : i \in DOMAIN PartName \ Behind(c)
  BY <1>1, <1>2
<1> QED
  BY <1>1, <1>3 DEF Carried

\* What shows it of the next state, in which all partitions up to n are done.
LEMMA CarriedNext ==
    ASSUME NEW c \in Procs, NEW n \in 0 .. 4, Behind(c)' = 1 .. n,
           \A i \in 1 .. n :
               PartName[i] \in (Images[call'[c].packet] \intersect call'[c].chosen) \ call'[c].overlooked =>
                   /\ cache'[Other(call'[c].slot)][PartName[i]] = call'[c].packet
                   /\ flash'[Other(call'[c].slot)][PartName[i]] = call'[c].packet,
           \A i \in n + 1 .. 4 :
               PartName[i] \in Images[call'[c].packet] => temp'[PartName[i]] = call'[c].packet,
           call'[c].pc = "compare" =>
               \/ PartName[call'[c].part] \in call'[c].overlooked
               \/ flash'[Other(call'[c].slot)][PartName[call'[c].part]]
                     = cache'[Other(call'[c].slot)][PartName[call'[c].part]]
    PROVE  Carried(c)'
<1>1. DOMAIN PartName = 1 .. 4
  BY PartFacts
<1>2. \A i \in DOMAIN PartName \ (1 .. n) : i \in n + 1 .. 4
  BY <1>1
<1> QED
  BY <1>2 DEF Carried, Target, PartOf

\* A stage within a partition: only that partition of the target changes.
LEMMA CarriedWithin ==
    ASSUME BaseInv, NEW c \in Procs, Carried(c), Stays(c), call'[c].part = call[c].part,
           call'[c].pc \in {"write", "fsync", "compare"},
           call[c].overlooked \subseteq call'[c].overlooked, temp' = temp,
           \A p \in Part \ {PartOf(c)} : /\ cache'[Target(c)][p] = cache[Target(c)][p]
                                         /\ flash'[Target(c)][p] = flash[Target(c)][p],
           call'[c].pc = "compare" =>
               \/ PartOf(c) \in call'[c].overlooked
               \/ flash'[Target(c)][PartOf(c)] = cache'[Target(c)][PartOf(c)]
    PROVE  Carried(c)'
<1>1. call[c].part \in 1 .. 4 /\ PartOf(c) = PartName[call[c].part] /\ Target(c) = Other(call[c].slot)
  BY PartOfFacts, CallFacts DEF BaseInv
<1>2. /\ call'[c].packet = call[c].packet /\ call'[c].chosen = call[c].chosen
      /\ Other(call'[c].slot) = Target(c) /\ call[c].pc \in {"part", "write", "fsync", "compare"}
  BY <1>1 DEF Stays
<1>3. Behind(c)' = 1 .. call[c].part - 1
  BY DEF Behind
<1>4. /\ \A i \in 1 .. call[c].part - 1 :
            PartName[i] \in (Images[call[c].packet] \intersect call[c].chosen) \ call[c].overlooked =>
                /\ cache[Target(c)][PartName[i]] = call[c].packet
                /\ flash[Target(c)][PartName[i]] = call[c].packet
      /\ \A i \in call[c].part .. 4 :
            PartName[i] \in Images[call[c].packet] => temp[PartName[i]] = call[c].packet
  BY <1>2, CarriedNow DEF BaseInv
<1>5. ASSUME NEW i \in 1 .. call[c].part - 1,
             PartName[i] \in (Images[call[c].packet] \intersect call[c].chosen) \ call'[c].overlooked
      PROVE  /\ cache'[Target(c)][PartName[i]] = call[c].packet
             /\ flash'[Target(c)][PartName[i]] = call[c].packet
  <2>1. PartName[i] \in Part \ {PartOf(c)}
    <3>1. i \in 1 .. 4 /\ i # call[c].part
      BY <1>1
    <3> QED
      BY <1>1, <3>1, PartFacts
  <2>2. PartName[i] \in (Images[call[c].packet] \intersect call[c].chosen) \ call[c].overlooked
    BY <1>5
  <2> QED
    BY <1>4, <2>1, <2>2
<1>6. call[c].part - 1 \in 0 .. 4 /\ (call[c].part - 1) + 1 = call[c].part
  BY <1>1
<1>7. PICK n \in 0 .. 4 : n = call[c].part - 1
  BY <1>6
<1>8. Behind(c)' = 1 .. n
  BY <1>3, <1>7
<1>9. \A i \in 1 .. n :
          PartName[i] \in (Images[call'[c].packet] \intersect call'[c].chosen) \ call'[c].overlooked =>
              /\ cache'[Other(call'[c].slot)][PartName[i]] = call'[c].packet
              /\ flash'[Other(call'[c].slot)][PartName[i]] = call'[c].packet
  BY <1>2, <1>5, <1>7
<1>10. \A i \in n + 1 .. 4 :
           PartName[i] \in Images[call'[c].packet] => temp'[PartName[i]] = call'[c].packet
  BY <1>2, <1>4, <1>6, <1>7
<1>11. call'[c].pc = "compare" =>
           \/ PartName[call'[c].part] \in call'[c].overlooked
           \/ flash'[Other(call'[c].slot)][PartName[call'[c].part]]
                 = cache'[Other(call'[c].slot)][PartName[call'[c].part]]
  BY <1>1, <1>2
<1> QED
  BY <1>8, <1>9, <1>10, <1>11, CarriedNext

\* The end of a partition: it is on the medium, unless that was not asked for or
\* not looked at.
LEMMA CarriedOn ==
    ASSUME BaseInv, NEW c \in Procs, Carried(c), Stays(c), UNCHANGED parts,
           NEW x \in Calls, x.part = call[c].part, call[c].overlooked \subseteq x.overlooked,
           call'[c] = NextPart(x),
           \A p \in Part \ {PartOf(c)} : temp'[p] = temp[p],
           PartOf(c) \in (Images[call[c].packet] \intersect call[c].chosen) \ x.overlooked =>
               /\ cache[Target(c)][PartOf(c)] = call[c].packet
               /\ flash[Target(c)][PartOf(c)] = call[c].packet
    PROVE  Carried(c)'
<1>1. call[c].part \in 1 .. 4 /\ PartOf(c) = PartName[call[c].part] /\ Target(c) = Other(call[c].slot)
  BY PartOfFacts, CallFacts DEF BaseInv
<1>2. /\ call'[c].packet = call[c].packet /\ call'[c].chosen = call[c].chosen
      /\ Other(call'[c].slot) = Target(c) /\ call[c].pc \in {"part", "write", "fsync", "compare"}
  BY <1>1 DEF Stays
<1>3. /\ call'[c].overlooked = x.overlooked
      /\ \/ call'[c].pc = "part" /\ call'[c].part = call[c].part + 1
         \/ call'[c].pc = "switch" /\ call[c].part = 4
  BY NextPartFacts
<1>4. Behind(c)' = 1 .. call[c].part /\ call'[c].pc # "compare"
  <2>1. CASE call'[c].pc = "part" /\ call'[c].part = call[c].part + 1
    BY <1>1, <2>1 DEF Behind
  <2>2. CASE call'[c].pc = "switch" /\ call[c].part = 4
    BY <2>2, PartFacts DEF Behind
  <2> QED
    BY <1>3, <2>1, <2>2
<1>5. /\ \A i \in 1 .. call[c].part - 1 :
            PartName[i] \in (Images[call[c].packet] \intersect call[c].chosen) \ call[c].overlooked =>
                /\ cache[Target(c)][PartName[i]] = call[c].packet
                /\ flash[Target(c)][PartName[i]] = call[c].packet
      /\ \A i \in call[c].part .. 4 :
            PartName[i] \in Images[call[c].packet] => temp[PartName[i]] = call[c].packet
  BY <1>2, CarriedNow DEF BaseInv
<1>6. cache' = cache /\ flash' = flash
  BY DEF parts
<1>7. ASSUME NEW i \in 1 .. call[c].part,
             PartName[i] \in (Images[call[c].packet] \intersect call[c].chosen) \ x.overlooked
      PROVE  /\ cache'[Target(c)][PartName[i]] = call[c].packet
             /\ flash'[Target(c)][PartName[i]] = call[c].packet
  <2>1. CASE i = call[c].part
    BY <1>1, <1>6, <1>7, <2>1
  <2>2. CASE i # call[c].part
    <3>1. i \in 1 .. call[c].part - 1
      BY <1>1, <2>2
    <3>2. PartName[i] \in (Images[call[c].packet] \intersect call[c].chosen) \ call[c].overlooked
      BY <1>7
    <3> QED
      BY <1>5, <1>6, <3>1, <3>2
  <2> QED
    BY <2>1, <2>2
<1>8. ASSUME NEW i \in call[c].part + 1 .. 4, PartName[i] \in Images[call[c].packet]
      PROVE  temp'[PartName[i]] = call[c].packet
  <2>1. i \in call[c].part .. 4 /\ i \in 1 .. 4 /\ i # call[c].part
    BY <1>1
  <2>2. PartName[i] \in Part \ {PartOf(c)}
    BY <1>1, <2>1, PartFacts
  <2> QED
    BY <1>5, <1>8, <2>1, <2>2
<1>9. PICK n \in 0 .. 4 : n = call[c].part
  BY <1>1
<1>10. Behind(c)' = 1 .. n /\ call'[c].pc # "compare"
  BY <1>4, <1>9
<1>11. \A i \in 1 .. n :
           PartName[i] \in (Images[call'[c].packet] \intersect call'[c].chosen) \ call'[c].overlooked =>
               /\ cache'[Other(call'[c].slot)][PartName[i]] = call'[c].packet
               /\ flash'[Other(call'[c].slot)][PartName[i]] = call'[c].packet
  BY <1>2, <1>3, <1>7, <1>9
<1>12. \A i \in n + 1 .. 4 :
           PartName[i] \in Images[call'[c].packet] => temp'[PartName[i]] = call'[c].packet
  BY <1>2, <1>8, <1>9
<1> QED
  BY <1>10, <1>11, <1>12, CarriedNext

\* A write to the partition at hand, through the page cache or past it.
LEMMA PutKeeps ==
    ASSUME BaseInv, NEW c \in Procs, NEW content \in PartContent, Put(c, content)
    PROVE  /\ \A p \in Part \ {PartOf(c)} : /\ cache'[Target(c)][p] = cache[Target(c)][p]
                                            /\ flash'[Target(c)][p] = flash[Target(c)][p]
           /\ mtd => flash' = cache'
<1>1. /\ PartOf(c) \in Part /\ Target(c) \in Slot /\ (mtd => cache = flash)
      /\ cache \in [Slot -> [Part -> PartContent]] /\ flash \in [Slot -> [Part -> PartContent]]
  BY PartOfFacts DEF BaseInv, TypeOk, PartContent, Consistent
<1>2. \A p \in Part \ {PartOf(c)} : cache'[Target(c)][p] = cache[Target(c)][p]
  BY <1>1, PutFacts DEF Put
<1>3. CASE mtd
  BY <1>1, <1>2, <1>3 DEF Put
<1>4. CASE ~mtd
  BY <1>2, <1>4 DEF Put
<1> QED
  BY <1>3, <1>4

\* Every stage brings the images on, or ends up with the one it failed on overlooked.
LEMMA CarriedStage ==
    ASSUME BaseInv, NEW c \in Procs, Stage(c), Carried(c)
    PROVE  Carried(c)'
<1> USE DEF parts
<1>1. /\ TypeOk /\ Stays(c) /\ call[c] \in Calls /\ PartOf(c) \in Part /\ Target(c) \in Slot
      /\ call[c].pc \in {"part", "write", "fsync", "compare"} /\ call[c].packet \in Packets
      /\ PartOf(c) = PartName[call[c].part] /\ call[c].part \in call[c].part .. 4
  <2>1. TypeOk /\ Stays(c)
    BY StageFacts DEF BaseInv
  <2>2. call[c].part \in 1 .. 4
    BY <2>1, PartOfFacts, CallFacts
  <2> QED
    BY <2>1, <2>2, PartOfFacts DEF BaseInv, Consistent, Stays
<1>2. /\ PartOf(c) \in Images[call[c].packet] => temp[PartOf(c)] = call[c].packet
      /\ call[c].pc = "compare" =>
            \/ PartOf(c) \in call[c].overlooked
            \/ flash[Target(c)][PartOf(c)] = cache[Target(c)][PartOf(c)]
  BY <1>1, CarriedNow
<1>3. /\ cache \in [Slot -> [Part -> PartContent]] /\ flash \in [Slot -> [Part -> PartContent]]
      /\ temp \in [Part -> Packets \union {Damaged, Absent}]
  BY <1>1 DEF TypeOk, PartContent, Files
<1>4. \A p \in Part \ {PartOf(c)} : [temp EXCEPT ![PartOf(c)] = Absent][p] = temp[p]
  BY <1>3
<1>5. CASE SkipPart(c)
  <2>1. /\ call'[c] = NextPart(call[c]) /\ UNCHANGED parts /\ temp' = temp
        /\ PartOf(c) \notin call[c].chosen \/ temp[PartOf(c)] = Absent
    BY <1>1, <1>5, MovesToNext DEF SkipPart
  <2>2. PartOf(c) \notin Images[call[c].packet] \intersect call[c].chosen
    BY <1>1, <1>2, <2>1, ContentAssumption
  <2> QED
    BY <1>1, <2>1, <2>2, CarriedOn
<1>6. CASE OpenPart(c)
  <2>1. call'[c] = [call[c] EXCEPT !.pc = "write"] /\ Put(c, Damaged) /\ temp' = temp
    BY <1>1, <1>6, MovesOn DEF OpenPart
  <2>2. call'[c].pc = "write" /\ call'[c].part = call[c].part /\ call'[c].overlooked = call[c].overlooked
    BY <1>1, <2>1, CallFacts
  <2>3. \A p \in Part \ {PartOf(c)} : /\ cache'[Target(c)][p] = cache[Target(c)][p]
                                      /\ flash'[Target(c)][p] = flash[Target(c)][p]
    BY <2>1, PutKeeps DEF PartContent
  <2> QED
    BY <1>1, <2>1, <2>2, <2>3, CarriedWithin
<1>7. CASE WritePart(c)
  <2> DEFINE content == IF temp[PartOf(c)] = Absent THEN call[c].packet ELSE temp[PartOf(c)]
             pc == IF mtd THEN "compare" ELSE "fsync"
  <2>1. /\ call'[c] = [call[c] EXCEPT !.pc = pc] /\ Put(c, content) /\ temp' = temp
        /\ pc \in {"fsync", "compare"} /\ (pc = "compare" => mtd)
    BY <1>1, <1>7, MovesOn DEF WritePart
  <2>2. content \in PartContent
    BY <1>1, <1>3 DEF PartContent
  <2> HIDE DEF content, pc
  <2>3. /\ call'[c].pc = pc /\ call'[c].part = call[c].part /\ call'[c].overlooked = call[c].overlooked
    BY <1>1, <2>1, CallFacts
  <2>4. /\ \A p \in Part \ {PartOf(c)} : /\ cache'[Target(c)][p] = cache[Target(c)][p]
                                         /\ flash'[Target(c)][p] = flash[Target(c)][p]
        /\ mtd => flash' = cache'
    BY <2>1, <2>2, PutKeeps
  <2> QED
    BY <1>1, <2>1, <2>3, <2>4, CarriedWithin
<1>8. CASE WriteFails(c) /\ mtd
  <2>1. call'[c] = [call[c] EXCEPT !.pc = "compare"] /\ UNCHANGED parts /\ temp' = temp
    BY <1>1, <1>8, MovesOn DEF WriteFails
  <2>2. call'[c].pc = "compare" /\ call'[c].part = call[c].part /\ call'[c].overlooked = call[c].overlooked
    BY <1>1, <2>1, CallFacts
  <2>3. cache = flash
    BY <1>8 DEF BaseInv, Consistent
  <2> QED
    BY <1>1, <2>1, <2>2, <2>3, CarriedWithin
<1>9. CASE Fsync(c)
  <2>1. /\ call'[c] = [call[c] EXCEPT !.pc = "compare"] /\ cache' = cache /\ temp' = temp
        /\ flash' = [flash EXCEPT ![Target(c)][PartOf(c)] = cache[Target(c)][PartOf(c)]]
    BY <1>1, <1>9, MovesOn DEF Fsync
  <2>2. call'[c].pc = "compare" /\ call'[c].part = call[c].part /\ call'[c].overlooked = call[c].overlooked
    BY <1>1, <2>1, CallFacts
  <2>3. /\ flash'[Target(c)][PartOf(c)] = cache[Target(c)][PartOf(c)]
        /\ \A p \in Part \ {PartOf(c)} : flash'[Target(c)][p] = flash[Target(c)][p]
    <3>1. cache[Target(c)][PartOf(c)] \in PartContent
      BY <1>1, <1>3
    <3> QED
      BY <1>1, <1>3, <2>1, <3>1, PutFacts
  <2> QED
    BY <1>1, <2>1, <2>2, <2>3, CarriedWithin
<1>10. CASE FsyncFails(c)
  <2> DEFINE y == [call[c] EXCEPT !.pc = "compare", !.overlooked = @ \union {PartOf(c)}]
  <2>1. /\ y.pc = "compare" /\ y.part = call[c].part
        /\ y.overlooked = call[c].overlooked \union {PartOf(c)}
    BY <1>1 DEF Calls
  <2>2. /\ Goto(c, y) /\ cache' = cache /\ temp' = temp
        /\ flash' = [flash EXCEPT ![Target(c)][PartOf(c)] = Damaged]
    BY <1>10 DEF FsyncFails
  <2> HIDE DEF y
  <2>3. call'[c] = y
    BY <1>1, <2>2, GotoFacts
  <2>4. \A p \in Part \ {PartOf(c)} : flash'[Target(c)][p] = flash[Target(c)][p]
    <3>1. Damaged \in PartContent
      BY DEF PartContent
    <3> QED
      BY <1>1, <1>3, <2>2, <3>1, PutFacts
  <2> QED
    BY <1>1, <2>1, <2>2, <2>3, <2>4, CarriedWithin
<1>11. CASE CompareOk(c)
  <2>1. /\ call'[c] = NextPart(call[c]) /\ UNCHANGED parts /\ temp' = [temp EXCEPT ![PartOf(c)] = Absent]
        /\ TRUE \in Same(c) /\ call[c].pc = "compare"
    BY <1>1, <1>11, MovesToNext DEF CompareOk, At
  <2>2. ASSUME PartOf(c) \in (Images[call[c].packet] \intersect call[c].chosen) \ call[c].overlooked
        PROVE  /\ cache[Target(c)][PartOf(c)] = call[c].packet
               /\ flash[Target(c)][PartOf(c)] = call[c].packet
    <3>1. temp[PartOf(c)] = call[c].packet /\ temp[PartOf(c)] \notin {Absent, Damaged}
      BY <1>1, <1>2, <2>2, ContentAssumption
    <3>2. temp[PartOf(c)] = cache[Target(c)][PartOf(c)]
      BY <2>1, <3>1 DEF Same
    <3>3. flash[Target(c)][PartOf(c)] = cache[Target(c)][PartOf(c)]
      BY <1>2, <2>1, <2>2
    <3> QED
      BY <3>1, <3>2, <3>3
  <2> QED
    BY <1>1, <1>4, <2>1, <2>2, CarriedOn
<1>12. CASE CompareUnread(c)
  <2> DEFINE y == [call[c] EXCEPT !.overlooked = @ \union {PartOf(c)}]
  <2>1. /\ y \in Calls /\ y.part = call[c].part /\ y.packet = call[c].packet /\ y.chosen = call[c].chosen
        /\ y.slot = call[c].slot /\ y.meta = call[c].meta
        /\ y.overlooked = call[c].overlooked \union {PartOf(c)}
    BY <1>1 DEF Calls
  <2>2. Goto(c, NextPart(y)) /\ UNCHANGED parts /\ temp' = [temp EXCEPT ![PartOf(c)] = Absent]
    BY <1>12 DEF CompareUnread
  <2> HIDE DEF y
  <2>3. call'[c] = NextPart(y)
    BY <1>1, <2>1, <2>2, MovesToNext
  <2> QED
    BY <1>1, <1>4, <2>1, <2>2, <2>3, CarriedOn
<1> QED
  BY <1>5, <1>6, <1>7, <1>8, <1>9, <1>10, <1>11, <1>12 DEF Stage

\* A step that neither writes a partition nor takes an image away.
LEMMA CarriedFrame ==
    ASSUME NEW c \in Procs, Carried(c), UNCHANGED <<cache, temp>>,
           \A s \in Slot, p \in Part : cache[s][p] = flash[s][p] => flash'[s][p] = flash[s][p],
           Target(c) \in Slot, PartOf(c) \in Part, Target(c)' = Target(c),
           call'[c].packet = call[c].packet, call'[c].chosen = call[c].chosen,
           call'[c].overlooked = call[c].overlooked, Behind(c)' = Behind(c), Behind(c) \subseteq 1 .. 4,
           call'[c].pc = "compare" => call[c].pc = "compare" /\ PartOf(c)' = PartOf(c)
    PROVE  Carried(c)'
<1>1. /\ \A i \in Behind(c) :
            PartName[i] \in (Images[call[c].packet] \intersect call[c].chosen) \ call[c].overlooked =>
                /\ cache[Target(c)][PartName[i]] = call[c].packet
                /\ flash[Target(c)][PartName[i]] = call[c].packet
      /\ \A i \in DOMAIN PartName \ Behind(c) :
            PartName[i] \in Images[call[c].packet] => temp[PartName[i]] = call[c].packet
      /\ call[c].pc = "compare" =>
            \/ PartOf(c) \in call[c].overlooked
            \/ flash[Target(c)][PartOf(c)] = cache[Target(c)][PartOf(c)]
  BY DEF Carried
<1>2. \A i \in Behind(c) :
          PartName[i] \in (Images[call[c].packet] \intersect call[c].chosen) \ call[c].overlooked =>
              /\ cache'[Target(c)][PartName[i]] = call[c].packet
              /\ flash'[Target(c)][PartName[i]] = call[c].packet
  <2> SUFFICES ASSUME NEW i \in Behind(c),
                      PartName[i] \in (Images[call[c].packet] \intersect call[c].chosen) \ call[c].overlooked
               PROVE  /\ cache'[Target(c)][PartName[i]] = call[c].packet
                      /\ flash'[Target(c)][PartName[i]] = call[c].packet
    OBVIOUS
  <2>1. PartName[i] \in Part
    BY PartFacts
  <2> QED
    BY <1>1, <2>1
<1>3. call'[c].pc = "compare" =>
          \/ PartOf(c)' \in call[c].overlooked
          \/ flash'[Target(c)][PartOf(c)'] = cache'[Target(c)][PartOf(c)']
  BY <1>1
<1> QED
  BY <1>1, <1>2, <1>3 DEF Carried

\* ImagesCarried is inductive, for one process.
LEMMA ImagesStep ==
    ASSUME Alone, BaseInv, ImagesCarried, [Next]_vars
    PROVE  ImagesCarried'
<1> USE DEF world, meta, parts
<1> DEFINE On(c) == call[c].pc \in {"select", "switch_write"} \union Targeting /\ call[c].packet # NoPacket
           Holds(c) == /\ call[c].pc \in {"unpack", "select"} => call[c].part = 1
                       /\ On(c) => Carried(c)
<1>1. \A c \in Procs : Holds(c)
  BY DEF ImagesCarried
<1>2. (\A c \in Procs : Holds(c)') => ImagesCarried'
  BY DEF ImagesCarried
<1>3. \A c \in Procs : /\ Target(c) \in Slot /\ PartOf(c) \in Part /\ Behind(c) \subseteq 1 .. 4
                       /\ call[c].part \in 1 .. 4
  <2> SUFFICES ASSUME NEW c \in Procs
               PROVE  /\ Target(c) \in Slot /\ PartOf(c) \in Part /\ Behind(c) \subseteq 1 .. 4
                      /\ call[c].part \in 1 .. 4
    OBVIOUS
  <2>1. Target(c) \in Slot /\ PartOf(c) \in Part /\ call[c].part \in 1 .. 4
    BY PartOfFacts, CallFacts DEF BaseInv
  <2>2. 1 .. call[c].part - 1 \subseteq 1 .. 4 /\ DOMAIN PartName = 1 .. 4
    BY <2>1, PartFacts
  <2> QED
    BY <2>1, <2>2 DEF Behind
<1>4. ASSUME UNCHANGED <<cache, temp, call>>,
             \A s \in Slot, p \in Part : cache[s][p] = flash[s][p] => flash'[s][p] = flash[s][p]
      PROVE  ImagesCarried'
  <2> SUFFICES ASSUME NEW c \in Procs PROVE Holds(c)'
    BY <1>2
  <2>1. Target(c)' = Target(c) /\ PartOf(c)' = PartOf(c) /\ Behind(c)' = Behind(c)
    BY <1>4 DEF Target, PartOf, Behind
  <2>2. On(c) => Carried(c)'
    BY <1>1, <1>3, <1>4, <2>1, CarriedFrame
  <2> QED
    BY <1>1, <1>4, <2>2
<1>5. ASSUME NEW c \in Procs, Command(c) \/ Step(c) \/ Kill(c) PROVE ImagesCarried'
  <2> SUFFICES Holds(c)'
    BY <1>2 DEF Alone
  <2>1. CASE Stage(c)
    <3>1. Stays(c) /\ call[c].pc \in Targeting /\ call[c].packet # NoPacket
      BY <2>1, StageFacts, StageTargets, ContentAssumption DEF BaseInv, Consistent, Stays, NoPacket
    <3>2. Carried(c)
      BY <1>1, <3>1
    <3>3. Carried(c)' /\ call'[c].pc \in Targeting
      BY <2>1, <3>1, <3>2, CarriedStage DEF Stays
    <3> QED
      BY <3>3 DEF Targeting
  <2>2. CASE SwitchRead(c)
    <3>1. /\ call'[c].pc = "switch_write" /\ call[c].pc = "switch" /\ UNCHANGED <<cache, flash, temp>>
          /\ call'[c].packet = call[c].packet /\ call'[c].chosen = call[c].chosen
          /\ call'[c].slot = call[c].slot /\ call'[c].overlooked = call[c].overlooked
      BY <2>2, ActivityReadFacts DEF SwitchRead, At
    <3>2. Target(c)' = Target(c) /\ Behind(c)' = Behind(c)
      BY <3>1 DEF Target, Behind
    <3>3. On(c)' => Carried(c)
      BY <1>1, <3>1 DEF Targeting
    <3> QED
      BY <1>3, <3>1, <3>2, <3>3, CarriedFrame
  <2>3. CASE OtherRead(c)
    <3>1. call'[c].packet = call[c].packet /\ call'[c].pc = "switch_write"
      BY <2>3, ActivityReadFacts
    <3>2. call[c].packet = NoPacket
      <4>1. call[c] = NoCall
        BY <2>3 DEF OtherRead, At, BaseInv, Consistent
      <4> QED
        BY <4>1 DEF NoCall
    <3> QED
      BY <3>1, <3>2
  <2>4. CASE Unpack(c)
    <3>1. /\ call[c].pc = "unpack" /\ call'[c] = [call[c] EXCEPT !.pc = "select"]
          /\ call'[c].pc = "select" /\ call'[c].packet = call[c].packet
          /\ \A p \in Part : p \in Images[call[c].packet] => temp'[p] = call[c].packet
      BY <2>4, UnpackFacts
    <3>2. call[c].part = 1 /\ call'[c].part = 1
      BY <1>1, <3>1, PartOfFacts, CallFacts DEF BaseInv
    <3>3. Behind(c)' = 1 .. 0
      BY <3>1, <3>2 DEF Behind
    <3>4. \A i \in DOMAIN PartName : PartName[i] \in Images[call'[c].packet] => temp'[PartName[i]] = call'[c].packet
      BY <3>1, PartFacts
    <3>5. Carried(c)'
      BY <3>1, <3>3, <3>4 DEF Carried
    <3> QED
      BY <3>2, <3>5
  <2>5. CASE Select(c)
    <3>1. /\ call[c].pc = "select" /\ call'[c].pc = "part" /\ temp' = temp
          /\ call'[c].packet = call[c].packet /\ call'[c].part = call[c].part
      BY <2>5, SelectFacts
    <3>2. call[c].part = 1 /\ (On(c)' => Carried(c))
      BY <1>1, <3>1
    <3>3. Behind(c)' = 1 .. 0 /\ Behind(c) = 1 .. 0
      BY <3>1, <3>2 DEF Behind
    <3>4. On(c)' => Carried(c)'
      BY <3>1, <3>2, <3>3 DEF Carried
    <3> QED
      BY <3>1, <3>4
  <2>6. CASE \E q \in Packets, chosen \in Selections : Start(c, q, chosen)
    <3>1. call'[c].pc = "unpack" /\ call'[c].part = 1
      BY <2>6, StartFacts
    <3> QED
      BY <3>1 DEF Targeting
  <2>7. CASE SucceedRead(c) \/ Ending(c) \/ SucceedWrite(c) \/ SwitchWrite(c)
    <3>1. call'[c].pc \in {"idle", "succeed_write"}
      BY <2>7, SucceedReadFacts, EndingFacts, WriteFacts DEF BaseInv, NoCall
    <3> QED
      BY <3>1 DEF Targeting
  <2> QED
    BY <1>5, <2>1, <2>2, <2>3, <2>4, <2>5, <2>6, <2>7, StepCases
<1>6. CASE UNCHANGED vars
  BY <1>4, <1>6 DEF vars
<1>7. CASE WritebackMisc
  BY <1>4, <1>7 DEF WritebackMisc
<1>8. CASE WritebackPart
  BY <1>4, <1>8, WritebackFacts
<1>9. CASE Reset \/ Boot
  <2>1. \A c \in Procs : call'[c].pc = "idle"
    <3>1. \A c \in Procs : call'[c] = NoCall
      BY <1>9, ResetFacts, BootFacts DEF BaseInv, Consistent
    <3> QED
      BY <3>1 DEF NoCall
  <2> QED
    BY <1>2, <2>1 DEF Targeting
<1> QED
  BY <1>5, <1>6, <1>7, <1>8, <1>9 DEF Next

\* When an update gets to the switch, every image it was asked to install is
\* complete on the medium, but for those whose failure the code does not look at.
THEOREM UpdateIsSafe == ASSUME Alone PROVE Spec => []UpdateIsDurable
<1> DEFINE I == BaseInv /\ ImagesCarried
<1>1. Init => I
  BY BaseInit, AllIdle DEF ImagesCarried, Targeting
<1>2. I /\ [Next]_vars => I'
  BY BaseStep, ImagesStep
<1>3. I => UpdateIsDurable
  <2> SUFFICES ASSUME I, NEW c \in Procs, call[c].pc \in {"switch", "switch_write"}, call[c].packet # NoPacket,
                      NEW p \in (Images[call[c].packet] \intersect call[c].chosen) \ call[c].overlooked
               PROVE  flash[Target(c)][p] = call[c].packet
    BY DEF UpdateIsDurable
  <2>1. Carried(c) /\ Behind(c) = 1 .. 4
    BY PartFacts DEF Behind, ImagesCarried, Targeting
  <2>2. p \in Part
    <3>1. call[c].packet \in Packets
      BY DEF BaseInv, TypeOk, Calls
    <3> QED
      BY <3>1, ImagesAssumption
  <2>3. PICK i \in 1 .. 4 : PartName[i] = p
    BY <2>2, PartFacts
  <2> QED
    BY <2>1, <2>3 DEF Carried
<1> QED
  BY <1>1, <1>2, <1>3, PTL DEF Spec
=============================================================================
