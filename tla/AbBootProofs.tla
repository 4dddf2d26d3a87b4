---------------------------- MODULE AbBootProofs ----------------------------
(***************************************************************************)
(* Theorems about AbBoot for every set of callers, every fault set and all *)
(* values of MaxPriority and MaxTries, checked by TLAPS.                   *)
(***************************************************************************)
EXTENDS AbBoot, AbMetaProofs

-----------------------------------------------------------------------------
(* Type correctness *)

\* The metadata a device leaves the factory with is well-typed.
LEMMA InitTyped == Init => TypeOk
BY FactoryTyped DEF Init, TypeOk, Slot

\* No step of a caller, an upgrade, a reset or the boot loader leaves the types.
LEMMA NextTyped == TypeOk /\ [Next]_vars => TypeOk'
<1> SUFFICES ASSUME TypeOk, [Next]_vars
             PROVE  TypeOk'
  OBVIOUS
<1> USE DEF TypeOk
<1>1. ASSUME NEW c \in Callers, BeginActiveCurrent(c)
      PROVE  TypeOk'
  <2>1. [op |-> "current", slot |-> running, meta |-> ActiveCurrentSlot(misc)] \in Pending
    BY <1>1, ActiveCurrentFacts DEF Pending, BeginActiveCurrent, Up
  <2> QED
    BY <1>1, <2>1 DEF BeginActiveCurrent
<1>2. ASSUME NEW c \in Callers, BeginActiveAnother(c)
      PROVE  TypeOk'
  <2>1. PICK r \in RunningSlotResults(running, Faults) \ {NoSlot} :
           call' = [call EXCEPT ![c] = [op |-> "another", slot |-> r,
                                        meta |-> ActiveAnotherSlot(misc, r)]]
    BY <1>2 DEF BeginActiveAnother
  <2>2. r \in Slot
    BY <1>2 DEF RunningSlotResults, BeginActiveAnother, Up, Slot
  <2>3. [op |-> "another", slot |-> r, meta |-> ActiveAnotherSlot(misc, r)] \in Pending
    BY <2>2, ActiveAnotherFacts DEF Pending
  <2> QED
    BY <1>2, <2>1, <2>3 DEF BeginActiveAnother
<1>3. ASSUME NEW c \in Callers, CommitActiveCurrent(c)
      PROVE  TypeOk'
  <2>1. call[c] \in Pending
    BY <1>3 DEF CommitActiveCurrent, Idle
  <2> QED
    BY <1>3, <2>1 DEF CommitActiveCurrent, Pending, Idle
<1>4. ASSUME NEW c \in Callers, CommitActiveAnother(c)
      PROVE  TypeOk'
  <2>1. call[c] \in Pending
    BY <1>4 DEF CommitActiveAnother, Idle
  <2>2. Other(call[c].slot) \in Slot
    BY <2>1 DEF Pending, Other, Slot
  <2> QED
    BY <1>4, <2>1, <2>2 DEF CommitActiveAnother, Pending, Idle
<1>5. ASSUME NEW gone \in SUBSET Callers, Abandon(gone)
      PROVE  TypeOk'
  BY <1>5 DEF Abandon
<1>6. CASE Install
  BY <1>6 DEF Install
<1>7. CASE Reset
  BY <1>7 DEF Reset
<1>8. CASE Boot
  <2> DEFINE s == GetCurrentSlot(disk)
  <2>1. s \in Slot /\ running' = s /\ disk' = SpendTry(disk, s)
    BY <1>8 DEF Boot
  <2>2. SpendTry(disk, s) \in MetaData
    BY <2>1, SpendTryFacts
  <2> QED
    BY <1>8, <2>1, <2>2 DEF Boot
<1>9. CASE UNCHANGED vars
  BY <1>9 DEF vars
<1> QED
  BY <1>1, <1>2, <1>3, <1>4, <1>5, <1>6, <1>7, <1>8, <1>9 DEF Next

\* The metadata, in the cache, on the medium and in the hands of every caller,
\* always has the types of the C structures, and a slot is always a slot.
THEOREM TypeCorrect == Spec => []TypeOk
BY InitTyped, NextTyped, PTL DEF Spec
-----------------------------------------------------------------------------
(* The inductive invariant IInv *)

\* The factory metadata is sealed, no try is spent, and nobody calls the library.
LEMMA InitIInv == Init => IInv
<1> SUFFICES ASSUME Init PROVE IInv
  OBVIOUS
<1>1. TypeOk
  BY InitTyped
<1>2. DownIsQuiet
  BY DEF Init, DownIsQuiet, Idle
<1>3. CopiesSealed
  BY FactoryTyped DEF Init, CopiesSealed, Idle
<1>4. TriesAccounted
  BY <1>1, MaxTriesAssumption
  DEF TypeOk, MetaData, SlotData, Init, TriesAccounted, Budget, Idle
<1>5. Undisturbed
  BY DEF Init, Undisturbed, Idle
<1> QED
  BY <1>1, <1>2, <1>3, <1>4, <1>5 DEF IInv

\* A call starts: it works on a sealed copy of the metadata, in which no slot
\* gains a try except the one it switches to.
LEMMA BeginIInv ==
    ASSUME IInv, NEW c \in Callers, BeginActiveCurrent(c) \/ BeginActiveAnother(c)
    PROVE  DownIsQuiet' /\ CopiesSealed' /\ TriesAccounted' /\ Undisturbed'
<1> USE DEF IInv
<1>0. running \in Slot /\ call[c].op = "idle"
  BY DEF BeginActiveCurrent, BeginActiveAnother, Up, TypeOk
<1>1. DownIsQuiet'
  BY <1>0 DEF BeginActiveCurrent, BeginActiveAnother, DownIsQuiet, Slot, NoSlot
<1>2. CASE BeginActiveCurrent(c)
  <2>1. /\ call' = [call EXCEPT ![c] = [op |-> "current", slot |-> running,
                                        meta |-> ActiveCurrentSlot(misc)]]
        /\ UNCHANGED <<misc, disk, attempts>>
    BY <1>2 DEF BeginActiveCurrent
  <2>2. CrcValid(ActiveCurrentSlot(misc)) /\ ActiveCurrentSlot(misc).slots = misc.slots
    BY ActiveCurrentFacts DEF TypeOk
  <2>3. CopiesSealed'
    BY <2>1, <2>2 DEF CopiesSealed, TypeOk
  <2>4. TriesAccounted'
    BY <2>1, <2>2 DEF TriesAccounted, Budget, TypeOk
  <2>5. Undisturbed'
    BY <1>2, <2>1, <2>2 DEF BeginActiveCurrent, Undisturbed, TypeOk
  <2> QED
    BY <1>1, <2>3, <2>4, <2>5
<1>3. CASE BeginActiveAnother(c)
  <2>1. PICK r \in RunningSlotResults(running, Faults) \ {NoSlot} :
           call' = [call EXCEPT ![c] = [op |-> "another", slot |-> r,
                                        meta |-> ActiveAnotherSlot(misc, r)]]
    BY <1>3 DEF BeginActiveAnother
  <2>2. r \in Slot
    BY <1>0, <2>1 DEF RunningSlotResults, Slot
  <2>3. UNCHANGED <<misc, disk, attempts>>
    BY <1>3 DEF BeginActiveAnother
  <2> DEFINE m == ActiveAnotherSlot(misc, r)
  <2>4. CrcValid(m) /\ m.slots[r].tries_remaining = misc.slots[r].tries_remaining
    <3>1. misc \in MetaData /\ misc.slots[r] \in SlotData
      BY <2>2 DEF TypeOk, MetaData
    <3>2. m.slots[r] = [misc.slots[r] EXCEPT !.priority = MaxPriority - 1] /\ CrcValid(m)
      BY <2>2, <3>1, ActiveAnotherFacts
    <3> QED
      BY <3>1, <3>2 DEF SlotData
  <2> HIDE DEF m
  <2>5. call' = [call EXCEPT ![c] = [op |-> "another", slot |-> r, meta |-> m]]
    BY <2>1 DEF m
  <2>6. CopiesSealed'
    BY <2>3, <2>4, <2>5 DEF CopiesSealed, TypeOk
  <2>7. TriesAccounted'
    BY <2>3, <2>4, <2>5 DEF TriesAccounted, Budget, TypeOk
  <2>8. Undisturbed'
    BY <1>3, <2>5 DEF BeginActiveAnother, Undisturbed, TypeOk
  <2> QED
    BY <1>1, <2>6, <2>7, <2>8
<1> QED
  BY <1>2, <1>3

\* A call writes its copy: the copy becomes the metadata, and a switch starts
\* the count of its target anew.
LEMMA CommitIInv ==
    ASSUME IInv, NEW c \in Callers, CommitActiveCurrent(c) \/ CommitActiveAnother(c)
    PROVE  DownIsQuiet' /\ CopiesSealed' /\ TriesAccounted' /\ Undisturbed'
<1> USE DEF IInv
<1>1. /\ running \in Slot /\ running' = running
      /\ call[c] \in Pending
      /\ misc' = call[c].meta /\ disk' = disk
      /\ call' = [call EXCEPT ![c] = Idle]
  BY DEF CommitActiveCurrent, CommitActiveAnother, Up, TypeOk, Idle
<1>2. DownIsQuiet'
  BY <1>1 DEF DownIsQuiet, Slot, NoSlot
<1>3. CopiesSealed'
  BY <1>1 DEF CopiesSealed, Pending, TypeOk, Idle
<1>4. CASE CommitActiveCurrent(c)
  <2>1. call[c].op = "current" /\ attempts' = attempts
    BY <1>4 DEF CommitActiveCurrent
  <2>2. TriesAccounted'
    BY <1>1, <2>1 DEF TriesAccounted, Budget, TypeOk, Idle
  <2>3. Undisturbed'
    BY <1>1, <1>4, <2>1 DEF CommitActiveCurrent, Undisturbed, TypeOk, Idle
  <2> QED
    BY <1>2, <1>3, <2>2, <2>3
<1>5. CASE CommitActiveAnother(c)
  <2> DEFINE o == Other(call[c].slot)
  <2>1. o \in Slot /\ o # call[c].slot /\ \A s \in Slot : s = o \/ s = call[c].slot
    BY <1>1 DEF Pending, Other, Slot
  <2>2. call[c].op = "another" /\ attempts' = [attempts EXCEPT ![o] = 0]
    BY <1>5 DEF CommitActiveAnother
  <2> HIDE DEF o
  <2>3. \A s \in Slot : attempts'[s] \in Nat /\ attempts'[s] <= attempts[s]
    BY <2>1, <2>2 DEF TypeOk
  <2>4. \A m \in MetaData, s \in Slot :
           /\ m.slots[s].tries_remaining \in Nat
           /\ m.slots[s].tries_remaining <= MaxTries
    BY MaxTriesAssumption DEF MetaData, SlotData
  <2>5. \A m \in MetaData, s \in Slot : Budget(m, s) => Budget(m, s)'
    BY <2>3, <2>4, MaxTriesAssumption DEF Budget, TypeOk
  <2>6. ASSUME NEW s \in Slot PROVE Budget(misc, s)'
    <3>1. CASE s = o
      BY <1>1, <2>2, <2>4, <3>1, MaxTriesAssumption DEF Budget, Pending, TypeOk
    <3>2. CASE s = call[c].slot
      <4>1. Budget(call[c].meta, s)
        BY <2>2, <3>2 DEF TriesAccounted
      <4> QED
        BY <1>1, <2>5, <4>1 DEF Budget, Pending
    <3> QED
      BY <2>1, <3>1, <3>2
  <2>7. ASSUME NEW s \in Slot PROVE Budget(disk, s)'
    BY <1>1, <2>5 DEF TriesAccounted, Budget, TypeOk
  <2>8. ASSUME NEW s \in Slot, NEW d \in Callers
        PROVE  \/ call'[d].op = "idle"
               \/ call'[d].op = "another" /\ call'[d].slot # s
               \/ Budget(call[d].meta, s)' /\ call'[d] = call[d]
    <3>1. CASE d = c
      BY <1>1, <3>1 DEF TypeOk, Idle
    <3>2. CASE d # c
      <4>1. call'[d] = call[d]
        BY <1>1, <3>2 DEF TypeOk
      <4>2. CASE call[d].op = "idle" \/ (call[d].op = "another" /\ call[d].slot # s)
        BY <4>1, <4>2
      <4>3. CASE ~(call[d].op = "idle" \/ (call[d].op = "another" /\ call[d].slot # s))
        <5>1. Budget(call[d].meta, s)
          BY <4>3 DEF TriesAccounted
        <5>2. call[d] \in Pending
          BY <4>3 DEF TypeOk, Idle
        <5>3. call[d].meta \in MetaData
          BY <5>2 DEF Pending
        <5> QED
          BY <2>5, <4>1, <5>1, <5>3 DEF Budget
      <4> QED
        BY <4>2, <4>3
    <3> QED
      BY <3>1, <3>2
  <2>9. TriesAccounted'
    BY <2>6, <2>7, <2>8 DEF TriesAccounted, Budget
  <2>10. Undisturbed'
    BY <1>5, <2>1 DEF CommitActiveAnother, Undisturbed, o, Slot, NoSlot
  <2> QED
    BY <1>2, <1>3, <2>9, <2>10
<1> QED
  BY <1>4, <1>5

\* The boot loader spends a try exactly when a boot is counted.
LEMMA BootIInv ==
    ASSUME IInv, Boot
    PROVE  DownIsQuiet' /\ CopiesSealed' /\ TriesAccounted' /\ Undisturbed'
<1> USE DEF IInv
<1> DEFINE b == GetCurrentSlot(disk)
<1>1. /\ running = NoSlot /\ b \in Slot /\ running' = b
      /\ disk' = SpendTry(disk, b) /\ misc' = disk'
      /\ attempts' = IF disk' = disk THEN attempts ELSE [attempts EXCEPT ![b] = @ + 1]
      /\ call' = call
  BY DEF Boot
<1> HIDE DEF b
<1>2. \A c \in Callers : call[c].op = "idle"
  BY <1>1 DEF DownIsQuiet
<1>3. /\ disk' \in MetaData /\ CrcValid(disk')
      /\ \A o \in Slot \ {b} : disk'.slots[o] = disk.slots[o]
      /\ disk' # disk => disk'.slots[b].tries_remaining = disk.slots[b].tries_remaining - 1
  BY <1>1, SpendTryFacts DEF TypeOk, CopiesSealed
<1>4. DownIsQuiet'
  BY <1>1 DEF DownIsQuiet, Slot, NoSlot
<1>5. CopiesSealed'
  BY <1>1, <1>2, <1>3 DEF CopiesSealed, CrcValid, ContentOf
<1>6. ASSUME NEW s \in Slot PROVE Budget(disk, s)'
  <2>1. Budget(disk, s)
    BY DEF TriesAccounted
  <2>2. disk.slots[s].tries_remaining \in Nat /\ attempts[s] \in Nat
    BY DEF TypeOk, MetaData, SlotData
  <2>3. CASE disk' = disk
    BY <1>1, <2>1, <2>3 DEF Budget
  <2>4. CASE disk' # disk
    <3>1. CASE s = b
      BY <1>1, <1>3, <2>1, <2>2, <2>4, <3>1, MaxTriesAssumption DEF Budget, TypeOk
    <3>2. CASE s # b
      BY <1>1, <1>3, <2>1, <2>4, <3>2 DEF Budget, TypeOk
    <3> QED
      BY <3>1, <3>2
  <2> QED
    BY <2>3, <2>4
<1>7. TriesAccounted'
  BY <1>1, <1>2, <1>6 DEF TriesAccounted, Budget
<1>8. Undisturbed'
  <2>1. b \in Bootable(disk') => GetCurrentSlot(disk') = b
    BY <1>1, SpendTryKeepsChoice DEF TypeOk, b
  <2> QED
    BY <1>1, <1>2, <2>1 DEF Undisturbed
<1> QED
  BY <1>4, <1>5, <1>7, <1>8

\* No step of a caller, an upgrade, a reset or the boot loader breaks IInv.
LEMMA NextIInv == IInv /\ [Next]_vars => IInv'
<1> SUFFICES ASSUME IInv, [Next]_vars
             PROVE  IInv'
  OBVIOUS
<1>0. TypeOk'
  BY NextTyped DEF IInv
<1>1. ASSUME NEW c \in Callers, BeginActiveCurrent(c) \/ BeginActiveAnother(c)
      PROVE  IInv'
  BY <1>0, <1>1, BeginIInv DEF IInv
<1>2. ASSUME NEW c \in Callers, CommitActiveCurrent(c) \/ CommitActiveAnother(c)
      PROVE  IInv'
  BY <1>0, <1>2, CommitIInv DEF IInv
<1>3. ASSUME NEW gone \in SUBSET Callers, Abandon(gone)
      PROVE  IInv'
  BY <1>0, <1>3
  DEF Abandon, IInv, DownIsQuiet, CopiesSealed, TriesAccounted, Undisturbed, Budget, TypeOk, Idle
<1>4. CASE Install
  <2>1. DownIsQuiet' /\ CopiesSealed' /\ TriesAccounted'
    BY <1>4 DEF Install, IInv, DownIsQuiet, CopiesSealed, TriesAccounted, Budget
  <2>2. Undisturbed'
    <3>1. /\ disk' = disk \/ disk' = misc
          /\ UNCHANGED <<misc, running, call, promised>>
      BY <1>4 DEF Install
    <3>2. ASSUME promised = NoSlot, running # NoSlot, running \in Bootable(disk')
          PROVE  GetCurrentSlot(disk') = running
      <4>1. misc.slots = disk.slots
        BY <3>2 DEF IInv, Undisturbed
      <4>2. disk'.slots = disk.slots
        BY <3>1, <4>1
      <4>3. running \in Bootable(disk)
        BY <3>2, <4>2 DEF Bootable
      <4>4. GetCurrentSlot(disk') = GetCurrentSlot(disk)
        BY <4>2, <4>3, ChoiceFromSlots
      <4> QED
        BY <3>2, <4>3, <4>4 DEF IInv, Undisturbed
    <3> QED
      BY <3>1, <3>2 DEF IInv, Undisturbed
  <2> QED
    BY <1>0, <2>1, <2>2 DEF IInv
<1>5. CASE Reset
  BY <1>0, <1>5
  DEF Reset, IInv, DownIsQuiet, CopiesSealed, TriesAccounted, Undisturbed, Budget, Idle
<1>6. CASE Boot
  BY <1>0, <1>6, BootIInv DEF IInv
<1>7. CASE UNCHANGED vars
  BY <1>0, <1>7
  DEF vars, IInv, DownIsQuiet, CopiesSealed, TriesAccounted, Undisturbed, Budget, CrcValid
<1> QED
  BY <1>1, <1>2, <1>3, <1>4, <1>5, <1>6, <1>7 DEF Next

\* In every state every copy of the metadata is sealed, the tries left in a copy
\* and the boots already taken add up to at most MaxTries, and until the first
\* switch of a boot the metadata still selects the running slot.
THEOREM Inductive == Spec => []IInv
BY InitIInv, NextIInv, PTL DEF Spec

\* No crash, overlap or failed write leaves metadata whose checksum does not
\* cover its content.
THEOREM ChecksumCorrect == Spec => []CrcCoversContent
<1>1. IInv => CrcCoversContent
  BY DEF IInv, CopiesSealed, CrcCoversContent
<1> QED
  BY <1>1, Inductive, PTL

\* One switch to a slot buys it at most MaxTries boots, however many callers
\* overlap and whatever is lost in a reset.
THEOREM TrialIsBounded == Spec => []AttemptsBounded
<1>1. IInv => AttemptsBounded
  BY MaxTriesAssumption
  DEF IInv, TypeOk, MetaData, SlotData, TriesAccounted, Budget, AttemptsBounded
<1> QED
  BY <1>1, Inductive, PTL

\* Until a switch is reported as done, a reset brings the device back to the
\* slot it runs from, if that slot can still be booted.
THEOREM ResetIsSafe == Spec => []ResetKeepsSlot
<1>1. IInv => ResetKeepsSlot
  BY DEF IInv, TypeOk, Undisturbed, ResetKeepsSlot, Up, Slot, NoSlot
<1> QED
  BY <1>1, Inductive, PTL

-----------------------------------------------------------------------------
(* A reported switch and the callers that can undo it *)

\* Whoever is about to switch has its target on trial in its copy.
LEMMA NextSwitchesOnTrial ==
    ASSUME TypeOk, SwitchesOnTrial, [Next]_vars
    PROVE  SwitchesOnTrial'
<1>1. ASSUME NEW c \in Callers, BeginActiveCurrent(c)
      PROVE  SwitchesOnTrial'
  BY <1>1 DEF BeginActiveCurrent, SwitchesOnTrial, OnTrial, TypeOk
<1>2. ASSUME NEW c \in Callers, BeginActiveAnother(c)
      PROVE  SwitchesOnTrial'
  <2>1. PICK r \in RunningSlotResults(running, Faults) \ {NoSlot} :
           call' = [call EXCEPT ![c] = [op |-> "another", slot |-> r,
                                        meta |-> ActiveAnotherSlot(misc, r)]]
    BY <1>2 DEF BeginActiveAnother
  <2>2. r \in Slot
    BY <1>2 DEF RunningSlotResults, BeginActiveAnother, Up, Slot, TypeOk
  <2> DEFINE m == ActiveAnotherSlot(misc, r)
  <2>3. misc \in MetaData /\ misc.slots[r] \in SlotData
    BY <2>2 DEF TypeOk, MetaData
  <2>4. /\ m.slots[r] = [misc.slots[r] EXCEPT !.priority = MaxPriority - 1]
        /\ m.slots[Other(r)] = [priority |-> MaxPriority, tries_remaining |-> MaxTries,
                                successful_boot |-> 0]
    BY <2>2, <2>3, ActiveAnotherFacts
  <2>5. Other(Other(r)) = r
    BY <2>2 DEF Other, Slot
  <2> HIDE DEF m
  <2>6. OnTrial(m, Other(r))
    BY <2>3, <2>4, <2>5 DEF OnTrial, SlotData
  <2>7. call' = [call EXCEPT ![c] = [op |-> "another", slot |-> r, meta |-> m]]
    BY <2>1 DEF m
  <2> QED
    BY <2>6, <2>7 DEF SwitchesOnTrial, OnTrial, TypeOk
<1>3. ASSUME NEW c \in Callers, CommitActiveCurrent(c) \/ CommitActiveAnother(c)
      PROVE  SwitchesOnTrial'
  BY <1>3 DEF CommitActiveCurrent, CommitActiveAnother, SwitchesOnTrial, OnTrial, TypeOk, Idle
<1>4. ASSUME NEW gone \in SUBSET Callers, Abandon(gone)
      PROVE  SwitchesOnTrial'
  BY <1>4 DEF Abandon, SwitchesOnTrial, OnTrial, TypeOk, Idle
<1>5. CASE Install \/ Boot \/ UNCHANGED vars
  BY <1>5 DEF Install, Boot, vars, SwitchesOnTrial, OnTrial
<1>6. CASE Reset
  BY <1>6 DEF Reset, SwitchesOnTrial, Idle
<1> QED
  BY <1>1, <1>2, <1>3, <1>4, <1>5, <1>6 DEF Next

\* However many callers overlap, a reported switch stays on trial until the next
\* boot unless a call that read the metadata before the switch confirms after it.
THEOREM SwitchIsUndoneOnlyByStaleCopies == Spec => SwitchStands
<1>1. Init => SwitchesOnTrial
  BY DEF Init, SwitchesOnTrial, Idle
<1>2. TypeOk /\ SwitchesOnTrial /\ [Next]_vars => SwitchesOnTrial'
  BY NextSwitchesOnTrial
<1>3. ASSUME TypeOk, DownIsQuiet, SwitchesOnTrial, [Next]_vars, promised' # NoSlot
      PROVE  \/ OnTrial(misc', promised')
             \/ promised' = promised /\ ~OnTrial(misc, promised)
             \/ \E c \in Callers : Stale(c) /\ CommitActiveCurrent(c)
  <2>1. CASE UNCHANGED <<misc, promised>>
    BY <2>1
  <2>2. ASSUME NEW c \in Callers, CommitActiveCurrent(c)
        PROVE  \/ OnTrial(misc', promised')
               \/ promised' = promised /\ ~OnTrial(misc, promised)
               \/ Stale(c)
    BY <2>2 DEF CommitActiveCurrent, Stale, OnTrial
  <2>3. ASSUME NEW c \in Callers, CommitActiveAnother(c)
        PROVE  OnTrial(misc', promised')
    <3>1. OnTrial(call[c].meta, Other(call[c].slot))
      BY <1>3, <2>3 DEF CommitActiveAnother, SwitchesOnTrial
    <3>2. misc' = call[c].meta /\ promised' = Other(call[c].slot)
      BY <2>3 DEF CommitActiveAnother
    <3> QED
      BY <3>1, <3>2 DEF OnTrial
  <2>4. CASE Reset \/ Boot
    BY <1>3, <2>4 DEF Reset, Boot, DownIsQuiet
  <2> QED
    BY <1>3, <2>1, <2>2, <2>3, <2>4
    DEF Next, BeginActiveCurrent, BeginActiveAnother, Abandon, Install, vars
<1>4. IInv => TypeOk /\ DownIsQuiet
  BY DEF IInv
<1> QED
  BY <1>1, <1>2, <1>3, <1>4, Inductive, PTL DEF Spec, SwitchStands

-----------------------------------------------------------------------------
(* One caller at a time: a switch is kept, and can be undone by the boot loader *)

\* A single caller never holds a stale copy, so nothing takes a slot off trial
\* before the boot loader does.
LEMMA NextTrialInv ==
    ASSUME \A c, d \in Callers : c = d
    PROVE  TypeOk /\ DownIsQuiet /\ TrialInv /\ [Next]_vars => TrialInv'
<1> SUFFICES ASSUME TypeOk, DownIsQuiet, TrialInv, [Next]_vars
             PROVE  TrialInv'
  OBVIOUS
<1> DEFINE Promise == promised # NoSlot => OnTrial(misc, promised)
           Fresh == \A c \in Callers : call[c].op = "current" => call[c].meta.slots = misc.slots
<1>1. SwitchesOnTrial'
  BY NextSwitchesOnTrial DEF TrialInv
<1>2. ASSUME NEW c \in Callers, BeginActiveCurrent(c)
      PROVE  Promise' /\ Fresh'
  <2>1. ActiveCurrentSlot(misc).slots = misc.slots
    BY ActiveCurrentFacts DEF TypeOk
  <2> QED
    BY <1>2, <2>1 DEF BeginActiveCurrent, TrialInv, OnTrial, TypeOk
<1>3. ASSUME NEW c \in Callers, BeginActiveAnother(c)
      PROVE  Promise' /\ Fresh'
  BY <1>3 DEF BeginActiveAnother, TrialInv, OnTrial, TypeOk
<1>4. ASSUME NEW c \in Callers, CommitActiveCurrent(c)
      PROVE  Promise' /\ Fresh'
  BY <1>4 DEF CommitActiveCurrent, TrialInv, OnTrial, TypeOk, Idle
<1>5. ASSUME NEW c \in Callers, CommitActiveAnother(c)
      PROVE  Promise' /\ Fresh'
  BY <1>5 DEF CommitActiveAnother, TrialInv, SwitchesOnTrial, OnTrial, TypeOk, Idle
<1>6. ASSUME NEW gone \in SUBSET Callers, Abandon(gone)
      PROVE  Promise' /\ Fresh'
  BY <1>6 DEF Abandon, TrialInv, OnTrial, TypeOk, Idle
<1>7. CASE Install \/ UNCHANGED vars
  BY <1>1, <1>7 DEF Install, vars, TrialInv, OnTrial
<1>8. CASE Reset
  BY <1>1, <1>8 DEF Reset, TrialInv, Idle
<1>9. CASE Boot
  BY <1>1, <1>9 DEF Boot, TrialInv, DownIsQuiet
<1> QED
  BY <1>1, <1>2, <1>3, <1>4, <1>5, <1>6, <1>7, <1>8, <1>9 DEF Next, TrialInv

\* With one caller at a time, a slot that was switched to stays on trial.
LEMMA TrialInvariant ==
    ASSUME \A c, d \in Callers : c = d
    PROVE  Spec => []TrialInv
<1>1. Init => TrialInv
  BY DEF Init, TrialInv, SwitchesOnTrial, Idle
<1>2. IInv => TypeOk /\ DownIsQuiet
  BY DEF IInv
<1>3. TypeOk /\ DownIsQuiet /\ TrialInv /\ [Next]_vars => TrialInv'
  BY NextTrialInv
<1> QED
  BY <1>1, <1>2, <1>3, Inductive, PTL DEF Spec

\* With one caller at a time, a switch that was reported as done stays the
\* choice of the metadata until the next boot, whatever that caller does next.
THEOREM SwitchIsKept ==
    ASSUME \A c, d \in Callers : c = d
    PROVE  Spec => []SwitchHolds
<1>1. TypeOk /\ TrialInv => SwitchHolds
  BY OnTrialSelects DEF TypeOk, TrialInv, SwitchHolds
<1> QED
  BY <1>1, TypeCorrect, TrialInvariant, PTL

\* With one caller at a time, the switched-to slot gives way to the slot it
\* replaced once its tries are spent, if that slot can still be booted.
THEOREM SwitchIsOnTrial ==
    ASSUME \A c, d \in Callers : c = d
    PROVE  Spec => []SwitchFallsBack
<1>1. TypeOk /\ TrialInv => SwitchFallsBack
  BY OnTrialSelects DEF TypeOk, TrialInv, SwitchFallsBack
<1> QED
  BY <1>1, TypeCorrect, TrialInvariant, PTL
=============================================================================
