---------------------------- MODULE AbMetaProofs ----------------------------
(***************************************************************************)
(* What the operators of AbMeta return, for every metadata record and all  *)
(* values of MaxPriority and MaxTries, checked by TLAPS.  The proofs about *)
(* the state machines cite these lemmas instead of the definitions.        *)
(***************************************************************************)
EXTENDS AbMeta, TLAPS

\* Sealing metadata leaves its content alone, keeps its type and makes its
\* checksum valid.
LEMMA SealFacts ==
    ASSUME NEW m \in MetaData
    PROVE  /\ Seal(m) \in MetaData
           /\ Seal(m).slots = m.slots
           /\ Seal(m).last_boot = m.last_boot
           /\ CrcValid(Seal(m))
BY DEF Seal, MetaData, Content, ContentOf, CrcValid

\* Confirming the current slot changes no slot record.
LEMMA ActiveCurrentFacts ==
    ASSUME NEW m \in MetaData
    PROVE  /\ ActiveCurrentSlot(m) \in MetaData
           /\ ActiveCurrentSlot(m).slots = m.slots
           /\ CrcValid(ActiveCurrentSlot(m))
<1> DEFINE n == [m EXCEPT !.last_boot = ReadOk]
<1>1. n \in MetaData /\ n.slots = m.slots
  BY DEF MetaData, ReadOk
<1>2. ActiveCurrentSlot(m) = Seal(n)
  BY DEF ActiveCurrentSlot
<1> HIDE DEF n
<1> QED
  BY <1>1, <1>2, SealFacts

\* Switching away from slot r gives the other slot the top priority, all its
\* tries and no mark of success, and leaves r one step below it.
LEMMA ActiveAnotherFacts ==
    ASSUME NEW m \in MetaData, NEW r \in Slot
    PROVE  /\ ActiveAnotherSlot(m, r) \in MetaData
           /\ ActiveAnotherSlot(m, r).slots[r] = [m.slots[r] EXCEPT !.priority = MaxPriority - 1]
           /\ ActiveAnotherSlot(m, r).slots[Other(r)] =
                 [priority |-> MaxPriority, tries_remaining |-> MaxTries, successful_boot |-> 0]
           /\ CrcValid(ActiveAnotherSlot(m, r))
<1> DEFINE p == [m EXCEPT !.slots[r].priority = MaxPriority - 1]
           q == [p EXCEPT !.slots[Other(r)] =
                   [priority |-> MaxPriority, tries_remaining |-> MaxTries, successful_boot |-> 0]]
           n == [q EXCEPT !.last_boot = ReadOk]
<1>1. Other(r) \in Slot /\ Other(r) # r
  BY DEF Slot, Other
<1>2. /\ m.slots \in [Slot -> SlotData]
      /\ m.slots[r] \in SlotData
  BY DEF MetaData
<1>3. [m.slots[r] EXCEPT !.priority = MaxPriority - 1] \in SlotData
  BY <1>2, MaxPriorityAssumption DEF SlotData
<1>4. p \in MetaData /\ p.slots = [m.slots EXCEPT ![r] = [m.slots[r] EXCEPT !.priority = MaxPriority - 1]]
  BY <1>2, <1>3 DEF MetaData
<1>5. [priority |-> MaxPriority, tries_remaining |-> MaxTries, successful_boot |-> 0] \in SlotData
  BY MaxPriorityAssumption, MaxTriesAssumption DEF SlotData
<1> HIDE DEF p
<1>6. /\ q \in MetaData
      /\ q.slots = [p.slots EXCEPT ![Other(r)] =
            [priority |-> MaxPriority, tries_remaining |-> MaxTries, successful_boot |-> 0]]
  BY <1>1, <1>4, <1>5 DEF MetaData
<1>7. ActiveAnotherSlot(m, r) = Seal(n)
  BY DEF ActiveAnotherSlot, p
<1> HIDE DEF q
<1>8. n \in MetaData /\ n.slots = q.slots
  BY <1>6 DEF MetaData, ReadOk
<1> HIDE DEF n
<1>9. Seal(n) \in MetaData /\ Seal(n).slots = q.slots /\ CrcValid(Seal(n))
  BY <1>8, SealFacts
<1> QED
  BY <1>1, <1>2, <1>4, <1>6, <1>7, <1>9

\* The boot loader takes one try from a slot that is not marked successful.
LEMMA SpendTryFacts ==
    ASSUME NEW m \in MetaData, NEW s \in Slot
    PROVE  /\ SpendTry(m, s) \in MetaData
           /\ CrcValid(m) => CrcValid(SpendTry(m, s))
           /\ \A o \in Slot \ {s} : SpendTry(m, s).slots[o] = m.slots[o]
           /\ SpendTry(m, s) # m =>
                 SpendTry(m, s).slots[s].tries_remaining = m.slots[s].tries_remaining - 1
           /\ SpendTry(m, s).slots[s].priority = m.slots[s].priority
           /\ SpendTry(m, s).slots[s].successful_boot = m.slots[s].successful_boot
<1> DEFINE n == [m EXCEPT !.slots[s].tries_remaining = @ - 1]
<1>1. CASE m.slots[s].successful_boot = 0 /\ m.slots[s].tries_remaining > 0
  <2>1. m.slots \in [Slot -> SlotData] /\ m.slots[s] \in SlotData
    BY DEF MetaData
  <2>2. [m.slots[s] EXCEPT !.tries_remaining = @ - 1] \in SlotData
    BY <1>1, <2>1, MaxTriesAssumption DEF SlotData
  <2>3. /\ n \in MetaData
        /\ n.slots = [m.slots EXCEPT ![s] = [m.slots[s] EXCEPT !.tries_remaining = @ - 1]]
    BY <2>1, <2>2 DEF MetaData
  <2>4. /\ n.slots[s].tries_remaining = m.slots[s].tries_remaining - 1
        /\ n.slots[s].priority = m.slots[s].priority
        /\ n.slots[s].successful_boot = m.slots[s].successful_boot
    BY <2>1, <2>3 DEF SlotData
  <2>5. SpendTry(m, s) = Seal(n)
    BY <1>1 DEF SpendTry
  <2> HIDE DEF n
  <2> QED
    BY <2>1, <2>3, <2>4, <2>5, SealFacts
<1>2. CASE ~(m.slots[s].successful_boot = 0 /\ m.slots[s].tries_remaining > 0)
  BY <1>2 DEF SpendTry
<1> QED
  BY <1>1, <1>2

\* The choice between slots of which one is bootable depends on the slot
\* records only, not on last_boot or the checksum.
LEMMA ChoiceFromSlots ==
    ASSUME NEW m, NEW n, m.slots = n.slots, Bootable(m) # {}
    PROVE  GetCurrentSlot(m) = GetCurrentSlot(n)
BY DEF GetCurrentSlot, Bootable

\* Spending a try on the chosen slot leaves it the choice while it is bootable.
LEMMA SpendTryKeepsChoice ==
    ASSUME NEW m \in MetaData, NEW s \in Slot,
           GetCurrentSlot(m) = s, s \in Bootable(SpendTry(m, s))
    PROVE  GetCurrentSlot(SpendTry(m, s)) = s
<1> DEFINE n == SpendTry(m, s)
<1>1. /\ n \in MetaData
      /\ \A o \in Slot \ {s} : n.slots[o] = m.slots[o]
      /\ n # m => n.slots[s].tries_remaining = m.slots[s].tries_remaining - 1
      /\ n.slots[s].priority = m.slots[s].priority
      /\ n.slots[s].successful_boot = m.slots[s].successful_boot
  BY SpendTryFacts
<1> HIDE DEF n
<1>2. CASE n = m
  BY <1>2 DEF n
<1>3. CASE n # m
  <2>1. m.slots[s] \in SlotData /\ n.slots[s] \in SlotData
    BY <1>1 DEF MetaData
  <2>2. s \in Bootable(n)
    BY DEF n
  <2>3. s \in Bootable(m)
    BY <1>1, <1>3, <2>1, <2>2, MaxTriesAssumption DEF Bootable, SlotIsBootable, SlotData
  <2>4. \A o \in Slot : o \in Bootable(m) <=> o \in Bootable(n)
    BY <1>1, <2>2, <2>3 DEF Bootable
  <2>5. \A o \in Slot : m.slots[o].priority = n.slots[o].priority
    BY <1>1
  <2>6. GetCurrentSlot(n) = s
    BY <2>2, <2>3, <2>4, <2>5 DEF GetCurrentSlot, Slot
  <2> QED
    BY <2>6 DEF n
<1> QED
  BY <1>2, <1>3

\* The factory metadata is well-typed and sealed.
LEMMA FactoryTyped == FactoryMeta \subseteq MetaData /\ \A m \in FactoryMeta : CrcValid(m)
<1>1. FactoryA \subseteq SlotData /\ FactoryB \subseteq SlotData
  BY MaxPriorityAssumption, MaxTriesAssumption DEF FactoryA, FactoryB, SlotData
<1>2. FactoryContent \subseteq Content
  BY <1>1 DEF FactoryContent, Content, Slot
<1> QED
  BY <1>2 DEF FactoryMeta, MetaData, Content, CrcValid, ContentOf

\* Metadata in which slot s is on trial selects s, and selects the other slot
\* once the tries of s are gone, if the other slot can still be booted.
LEMMA OnTrialSelects ==
    ASSUME NEW m \in MetaData, NEW s \in Slot, OnTrial(m, s)
    PROVE  /\ GetCurrentSlot(m) = s
           /\ Other(s) \in Bootable(m) =>
                 GetCurrentSlot([m EXCEPT !.slots[s].tries_remaining = 0]) = Other(s)
<1>1. /\ m.slots \in [Slot -> SlotData]
      /\ Other(s) \in Slot /\ Other(s) # s
      /\ Slot = {s, Other(s)}
  BY DEF MetaData, Slot, Other
<1>2. /\ m.slots[s].priority = MaxPriority /\ m.slots[s].tries_remaining = MaxTries
      /\ m.slots[s].successful_boot = 0
      /\ m.slots[Other(s)].priority = MaxPriority - 1
  BY DEF OnTrial
<1>3. s \in Bootable(m)
  BY <1>2, MaxPriorityAssumption, MaxTriesAssumption DEF Bootable, SlotIsBootable
<1>4. GetCurrentSlot(m) = s
  <2>1. CASE s = 0
    BY <1>2, <1>3, <2>1, MaxPriorityAssumption DEF GetCurrentSlot, Other
  <2>2. CASE s = 1
    BY <1>2, <1>3, <2>2, MaxPriorityAssumption DEF GetCurrentSlot, Other
  <2> QED
    BY <2>1, <2>2 DEF Slot
<1>5. ASSUME Other(s) \in Bootable(m)
      PROVE  GetCurrentSlot([m EXCEPT !.slots[s].tries_remaining = 0]) = Other(s)
  <2> DEFINE n == [m EXCEPT !.slots[s].tries_remaining = 0]
  <2>1. n.slots = [m.slots EXCEPT ![s] = [m.slots[s] EXCEPT !.tries_remaining = 0]]
    BY DEF MetaData
  <2>2. m.slots[s] \in SlotData
    BY <1>1
  <2> HIDE DEF n
  <2>3. n.slots[s].tries_remaining = 0 /\ n.slots[s].successful_boot = 0
    BY <1>1, <1>2, <2>1, <2>2 DEF SlotData
  <2>4. n.slots[Other(s)] = m.slots[Other(s)]
    BY <1>1, <2>1
  <2>5. Bootable(n) = {Other(s)}
    BY <1>1, <1>5, <2>3, <2>4 DEF Bootable, SlotIsBootable
  <2>6. GetCurrentSlot(n) = Other(s)
    <3>1. Other(s) \in Bootable(n) /\ s \notin Bootable(n)
      BY <1>1, <2>5
    <3> QED
      BY <3>1 DEF GetCurrentSlot, Other, Slot
  <2> QED
    BY <2>6 DEF n
<1> QED
  BY <1>4, <1>5
=============================================================================
