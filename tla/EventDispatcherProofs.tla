---- MODULE EventDispatcherProofs ----
(***************************************************************************)
(* Proofs about EventDispatcher, for any number of threads, any set of     *)
(* actions and any size of the ring.                                       *)
(***************************************************************************)
EXTENDS EventDispatcher, FiniteSetTheorems, TLAPS

\* Stepping an index of the ring, modulo its size, is moving one slot ahead.
LEMMA NextSlotAhead ==
    ASSUME NEW s \in Slots
    PROVE  NextSlot(s) = Ahead(s, 1) /\ NextSlot(s) \in Slots
  BY SizeAssumption DEF NextSlot, Ahead, Slots

\* The remaining capacity is at least one and at most the size of the ring.
LEMMA FreeSlotsRange ==
    ASSUME NEW pop \in Slots, NEW push \in Slots
    PROVE  FreeSlots(pop, push) \in 1 .. Size
  BY SizeAssumption DEF FreeSlots, Slots

\* Moving ahead by at most one turn of the ring stays within the ring.
LEMMA AheadType ==
    ASSUME NEW s \in Slots, NEW i \in 0 .. Size
    PROVE  Ahead(s, i) \in Slots
  BY SizeAssumption DEF Ahead, Slots

\* Distinct positions within one turn of the ring are distinct slots.
LEMMA AheadInjective ==
    ASSUME NEW s \in Slots, NEW i \in 0 .. Size - 1, NEW j \in 0 .. Size - 1,
           Ahead(s, i) = Ahead(s, j)
    PROVE  i = j
  BY SizeAssumption DEF Ahead, Slots

\* Moving one slot ahead first is moving one slot further: what is left pending after a
\* pop keeps its slots.
LEMMA AheadShift ==
    ASSUME NEW s \in Slots, NEW i \in 0 .. Size - 1
    PROVE  Ahead(Ahead(s, 1), i) = Ahead(s, i + 1)
  BY SizeAssumption DEF Ahead, Slots

----------------------------------------------------------------------------
(* Types *)

\* Every step of Schedule and of Run keeps the types, and a call in progress keeps its
\* action.
LEMMA TypeStep ==
    ASSUME TypeOK, CallInv, [Next]_vars
    PROVE  TypeOK' /\ CallInv'
<1> USE DEF TypeOK, CallInv, CallerStages, RunStages
<1>1. ASSUME NEW c \in Callers, NEW a \in Actions, CallSchedule(c, a)
      PROVE  TypeOK' /\ CallInv'
  BY <1>1 DEF CallSchedule, runVars
<1>2. ASSUME NEW c \in Callers, Reserve(c)
      PROVE  TypeOK' /\ CallInv'
  BY <1>2, NextSlotAhead DEF Reserve, runVars
<1>3. ASSUME NEW c \in Callers, RetryReserve(c)
      PROVE  TypeOK' /\ CallInv'
  BY <1>3 DEF RetryReserve, runVars
<1>4. ASSUME NEW c \in Callers, FillSlot(c)
      PROVE  TypeOK' /\ CallInv'
  BY <1>4 DEF FillSlot, runVars
<1>5. ASSUME NEW c \in Callers, CheckSlotFree(c)
      PROVE  TypeOK' /\ CallInv'
  BY <1>5 DEF CheckSlotFree, runVars
<1>6. ASSUME NEW c \in Callers, FlagSlot(c)
      PROVE  TypeOK' /\ CallInv'
  BY <1>6 DEF FlagSlot, runVars
<1>7. ASSUME NEW c \in Callers, MeasureCapacity(c)
      PROVE  TypeOK' /\ CallInv'
  <2>1. FreeSlots(popIndex, index[c]) \in 1 .. Size
    BY FreeSlotsRange
  <2> QED
    BY <1>7, <2>1 DEF MeasureCapacity, runVars
<1>8. ASSUME NEW c \in Callers, StoreCapacity(c)
      PROVE  TypeOK' /\ CallInv'
  BY <1>8 DEF StoreCapacity, runVars
<1>9. ASSUME NEW c \in Callers, RequestExecution(c)
      PROVE  TypeOK' /\ CallInv'
  BY <1>9, SizeAssumption DEF RequestExecution, Slots
<1>10. CASE StartAction
  BY <1>10 DEF StartAction, callerVars
<1>11. CASE NoAction
  BY <1>11 DEF NoAction, callerVars
<1>12. CASE EndAction
  BY <1>12 DEF EndAction, callerVars
<1>13. CASE ClearFlag
  BY <1>13 DEF ClearFlag, callerVars
<1>14. CASE AdvancePop
  BY <1>14, NextSlotAhead DEF AdvancePop, callerVars
<1>15. CASE Idle
  BY <1>15 DEF Idle, callerVars
<1>16. CASE SpuriousWakeUp
  BY <1>16 DEF SpuriousWakeUp, callerVars
<1>17. CASE UNCHANGED vars
  BY <1>17 DEF vars
<1> QED
  BY <1>1, <1>2, <1>3, <1>4, <1>5, <1>6, <1>7, <1>8, <1>9, <1>10, <1>11, <1>12,
     <1>13, <1>14, <1>15, <1>16, <1>17 DEF Next, CallerStep, RunStep

\* The constructor establishes the types.
LEMMA TypeInit == Init => TypeOK /\ CallInv
<1> SUFFICES ASSUME Init PROVE TypeOK /\ CallInv
  OBVIOUS
<1>1. 0 \in Slots /\ Size \in 1 .. Size
  BY SizeAssumption DEF Slots
<1>2. CallInv
  BY DEF Init, CallInv
<1>3. TypeOK
  <2>1. first \in [Slots -> Actions \cup {None}] /\ second \in [Slots -> BOOLEAN]
    BY DEF Init
  <2>2. /\ stage \in [Callers -> CallerStages]
        /\ index \in [Callers -> Slots]
        /\ action \in [Callers -> Actions \cup {None}]
        /\ lowest \in [Callers -> 1 .. Size]
    BY <1>1 DEF Init, CallerStages
  <2>3. /\ pushIndex \in Slots /\ popIndex \in Slots /\ minCapacity \in 1 .. Size
        /\ runStage \in RunStages /\ running \in Actions \cup {None}
        /\ ready \in BOOLEAN /\ aborted \in BOOLEAN
    BY <1>1 DEF Init, RunStages
  <2>4. pending \in Seq(Actions)
    BY DEF Init
  <2> QED
    BY <2>1, <2>2, <2>3, <2>4 DEF TypeOK
<1> QED
  BY <1>2, <1>3

\* Every index stays within the ring, and the capacity that Schedule stores in
\* minCapacity is at least one, so that its second really_assert never fails.
THEOREM TypeCorrect == Spec => []TypeOK
<1>1. Init => TypeOK /\ CallInv
  BY TypeInit
<1>2. TypeOK /\ CallInv /\ [Next]_vars => (TypeOK /\ CallInv)'
  BY TypeStep
<1> QED
  BY <1>1, <1>2, PTL DEF Spec

----------------------------------------------------------------------------
(* The ring *)

\* Finitely many callers are about to reserve a slot.
LEMMA ReservingFinite ==
    ASSUME TypeOK
    PROVE  IsFiniteSet(Reserving) /\ Cardinality(Reserving) \in Nat
<1>1. IsFiniteSet(Callers)
  BY CallersAssumption, FS_AddElement DEF Callers
<1>2. Reserving \subseteq Callers
  BY DEF Reserving
<1> QED
  BY <1>1, <1>2, FS_Subset, FS_CardinalityType

\* What the steps below need to know about the size of the window.
LEMMA WindowFacts ==
    ASSUME MaxOutstanding <= Size, TypeOK, WindowInv
    PROVE  /\ Len(pending) \in Nat
           /\ BusySlots \in 0 .. 1
           /\ Len(pending) + BusySlots + Cardinality(Reserving) <= Size
           /\ Len(pending) + BusySlots <= Size
           /\ Front \in Slots
<1>1. Len(pending) \in Nat /\ BusySlots \in 0 .. 1
  BY DEF TypeOK, BusySlots
<1>2. Cardinality(Reserving) \in Nat
  BY ReservingFinite
<1>3. Len(pending) + BusySlots + Cardinality(Reserving) <= Size
  BY <1>1, <1>2, SizeAssumption, OutstandingAssumption DEF WindowInv, Outstanding
<1>4. Front \in Slots
  BY AheadType, SizeAssumption DEF Front, TypeOK
<1> QED
  BY <1>1, <1>2, <1>3, <1>4, SizeAssumption

\* The constructor leaves an empty ring.
LEMMA RingInit == Init => RingInv
<1> SUFFICES ASSUME Init PROVE RingInv
  OBVIOUS
<1>1. Len(pending) = 0 /\ BusySlots = 0 /\ Front = 0
  BY DEF Init, BusySlots, Front
<1>2. Reserving = {}
  BY DEF Init, Reserving
<1>3. WindowInv
  BY <1>1, <1>2, FS_EmptySet, SizeAssumption, OutstandingAssumption
     DEF WindowInv, Outstanding, Ahead, Init
<1>4. PendingInv /\ FillingInv /\ FlaggedInv /\ RunningInv /\ CallInv
  BY <1>1 DEF Init, PendingInv, FillingInv, Filling, FlaggedInv, RunningInv, CallInv, BusySlots
<1> QED
  BY <1>3, <1>4 DEF RingInv

\* Entering Schedule keeps the ring: a call that is about to reserve is counted in
\* advance.
LEMMA CallScheduleRing ==
    ASSUME MaxOutstanding <= Size, TypeOK, RingInv,
           NEW c \in Callers, NEW a \in Actions, CallSchedule(c, a)
    PROVE  RingInv'
<1>1. BusySlots' = BusySlots /\ Front' = Front
  BY DEF CallSchedule, runVars, BusySlots, Front
<1>2. c \notin Reserving /\ Reserving' = Reserving \cup {c}
  BY DEF CallSchedule, Reserving, TypeOK
<1>3. Cardinality(Reserving') = Cardinality(Reserving) + 1
  BY <1>2, ReservingFinite, FS_AddElement
<1>4. WindowInv'
  BY <1>1, <1>3, WindowFacts, ReservingFinite, OutstandingAssumption
     DEF RingInv, WindowInv, Outstanding, CallSchedule, runVars
<1>5. \A d \in Callers : Filling(d)' <=> Filling(d)
  BY DEF CallSchedule, Filling, TypeOK
<1>6. \A d \in Callers : Filling(d) => d # c /\ index'[d] = index[d] /\ action'[d] = action[d] /\ stage'[d] = stage[d]
  BY DEF CallSchedule, Filling, TypeOK
<1>7. PendingInv'
  BY <1>1, <1>5, <1>6 DEF RingInv, PendingInv, CallSchedule
<1>8. FillingInv'
  BY <1>1, <1>5, <1>6 DEF RingInv, FillingInv, CallSchedule
<1>9. FlaggedInv' /\ RunningInv' /\ CallInv'
  BY <1>1 DEF RingInv, FlaggedInv, RunningInv, CallInv, CallSchedule, runVars, TypeOK
<1> QED
  BY <1>4, <1>7, <1>8, <1>9 DEF RingInv

\* Winning the compare_exchange_weak keeps the ring: the slot is free, and no other
\* caller fills it.
LEMMA ReserveRing ==
    ASSUME MaxOutstanding <= Size, TypeOK, RingInv, NEW c \in Callers, Reserve(c)
    PROVE  RingInv'
<1>1. BusySlots' = BusySlots /\ Front' = Front
  BY DEF Reserve, runVars, BusySlots, Front
<1>2. c \in Reserving /\ Reserving' = Reserving \ {c}
  BY DEF Reserve, Reserving, TypeOK
<1>3. Cardinality(Reserving') = Cardinality(Reserving) - 1
  BY <1>2, ReservingFinite, FS_RemoveElement
<1>4. /\ Len(pending') = Len(pending) + 1
      /\ \A i \in 1 .. Len(pending) : pending'[i] = pending[i]
      /\ pending'[Len(pending) + 1] = action[c]
  BY DEF Reserve, RingInv, CallInv, TypeOK
<1>5. Cardinality(Reserving) >= 1
  BY <1>2, <1>3, ReservingFinite, FS_RemoveElement, FS_CardinalityType, FS_EmptySet
<1>6. Len(pending) + BusySlots < Size /\ Len(pending) \in 0 .. Size - 1
  BY <1>5, WindowFacts, ReservingFinite, SizeAssumption DEF RingInv
<1>7. pushIndex' = Ahead(Front, Len(pending) + 1)
  <2>1. pushIndex' = Ahead(pushIndex, 1)
    BY NextSlotAhead DEF Reserve, TypeOK
  <2>2. pushIndex = Ahead(Front, Len(pending))
    BY DEF RingInv, WindowInv
  <2>3. Front \in Slots
    BY WindowFacts DEF RingInv
  <2> QED
    BY <2>1, <2>2, <2>3, <1>6, SizeAssumption DEF Ahead, Slots
<1>8. WindowInv'
  BY <1>1, <1>3, <1>4, <1>7, WindowFacts, ReservingFinite, OutstandingAssumption
     DEF RingInv, WindowInv, Outstanding
<1>9. index[c] = Ahead(Front, Len(pending)) /\ index[c] \in Slots
  BY DEF Reserve, Reserves, RingInv, WindowInv, TypeOK
<1>10. \A i \in 1 .. Len(pending) : Ahead(Front, i - 1) # index[c]
  <2> SUFFICES ASSUME NEW i \in 1 .. Len(pending), Ahead(Front, i - 1) = index[c]
               PROVE  FALSE
    OBVIOUS
  <2>1. i - 1 \in 0 .. Size - 1 /\ i - 1 # Len(pending)
    BY <1>6, SizeAssumption
  <2> QED
    BY <2>1, <1>6, <1>9, AheadInjective, WindowFacts DEF RingInv
<1>11. ~second[index[c]]
  <2>1. BusySlots = 1 => index[c] # popIndex
    <3> SUFFICES ASSUME BusySlots = 1 PROVE index[c] # popIndex
      OBVIOUS
    <3>1. Front = Ahead(popIndex, 1) /\ popIndex \in Slots
      BY DEF BusySlots, Front, TypeOK
    <3>2. Len(pending) < Size - 1
      BY <1>6, SizeAssumption
    <3> QED
      BY <3>1, <3>2, <1>6, <1>9, SizeAssumption DEF Ahead, Slots
  <2> QED
    BY <2>1, <1>9, <1>10 DEF RingInv, FlaggedInv
<1>12. /\ Filling(c)' /\ ~Filling(c)
       /\ \A d \in Callers \ {c} : (Filling(d)' <=> Filling(d)) /\ stage'[d] = stage[d]
       /\ stage'[c] = "fill"
       /\ index' = index /\ action' = action /\ first' = first /\ second' = second
  BY DEF Reserve, Filling, TypeOK
<1>13. PendingInv'
  <2> SUFFICES ASSUME NEW i \in 1 .. Len(pending')
               PROVE  \/ second[Ahead(Front, i - 1)] /\ first[Ahead(Front, i - 1)] = pending'[i]
                      \/ ~second[Ahead(Front, i - 1)] /\ \E d \in Callers : Filling(d)' /\ index[d] = Ahead(Front, i - 1)
    BY <1>1, <1>12 DEF PendingInv
  <2>1. CASE i = Len(pending) + 1
    BY <2>1, <1>6, <1>9, <1>11, <1>12
  <2>2. CASE i \in 1 .. Len(pending)
    BY <2>2, <1>4, <1>12 DEF RingInv, PendingInv
  <2> QED
    BY <2>1, <2>2, <1>4, <1>6
<1>14. FillingInv'
  <2> SUFFICES ASSUME NEW d \in Callers, Filling(d)'
               PROVE  /\ ~second[index[d]]
                      /\ stage'[d] \in {"check", "flag"} => first[index[d]] = action[d]
                      /\ \E i \in 1 .. Len(pending') : index[d] = Ahead(Front, i - 1) /\ pending'[i] = action[d]
                      /\ \A e \in Callers \ {d} : Filling(e)' => index[e] # index[d]
    BY <1>1, <1>12 DEF FillingInv
  <2>1. \A e \in Callers : Filling(e) => \E i \in 1 .. Len(pending) : index[e] = Ahead(Front, i - 1) /\ pending[i] = action[e]
    BY DEF RingInv, FillingInv
  <2>2. \A e \in Callers : Filling(e) => index[e] # index[c]
    BY <2>1, <1>10
  <2>3. CASE d = c
    <3>1. Len(pending) + 1 \in 1 .. Len(pending')
      BY <1>4, <1>6
    <3>2. index[c] = Ahead(Front, (Len(pending) + 1) - 1)
      BY <1>6, <1>9
    <3> QED
      BY <2>3, <2>2, <3>1, <3>2, <1>4, <1>11, <1>12
  <2>4. CASE d # c
    <3>1. Filling(d)
      BY <2>4, <1>12
    <3>2. PICK i \in 1 .. Len(pending) : index[d] = Ahead(Front, i - 1) /\ pending[i] = action[d]
      BY <3>1, <2>1
    <3>3. i \in 1 .. Len(pending') /\ pending'[i] = action[d]
      BY <3>2, <1>4, <1>6
    <3>4. \A e \in Callers \ {d} : Filling(e)' => index[e] # index[d]
      BY <3>1, <2>2, <2>4, <1>12 DEF RingInv, FillingInv
    <3>5. ~second[index[d]] /\ (stage'[d] \in {"check", "flag"} => first[index[d]] = action[d])
      BY <3>1, <2>4, <1>12 DEF RingInv, FillingInv
    <3> QED
      BY <3>2, <3>3, <3>4, <3>5
  <2> QED
    BY <2>3, <2>4
<1>15. FlaggedInv'
  BY <1>1, <1>4, <1>6, <1>12 DEF RingInv, FlaggedInv, Reserve, runVars
<1>16. RunningInv' /\ CallInv'
  BY <1>1 DEF RingInv, RunningInv, CallInv, Reserve, runVars, TypeOK
<1> QED
  BY <1>8, <1>13, <1>14, <1>15, <1>16 DEF RingInv

\* Steps that touch neither the ring nor a filling caller leave its invariant alone.
LEMMA RingUntouched ==
    ASSUME TypeOK, RingInv,
           UNCHANGED <<first, second, pushIndex, popIndex, running, pending>>,
           BusySlots' = BusySlots, Front' = Front,
           (runStage = "execute") <=> (runStage' = "execute"),
           Reserving' = Reserving,
           CallInv',
           \A c \in Callers : Filling(c)' <=> Filling(c),
           \A c \in Callers : Filling(c) => /\ index'[c] = index[c]
                                            /\ action'[c] = action[c]
                                            /\ stage'[c] = "flag" => stage[c] \in {"check", "flag"}
                                            /\ stage'[c] = "check" => stage[c] = "check"
    PROVE  RingInv'
<1>1. WindowInv'
  BY DEF RingInv, WindowInv, Outstanding
<1>2. PendingInv'
  BY DEF RingInv, PendingInv
<1>3. FillingInv'
  BY DEF RingInv, FillingInv
<1>4. FlaggedInv' /\ RunningInv'
  BY DEF RingInv, FlaggedInv, RunningInv
<1> QED
  BY <1>1, <1>2, <1>3, <1>4 DEF RingInv

\* Storing the action in the reserved slot disturbs no other slot.
LEMMA FillSlotRing ==
    ASSUME MaxOutstanding <= Size, TypeOK, RingInv, NEW c \in Callers, FillSlot(c)
    PROVE  RingInv'
<1>1. BusySlots' = BusySlots /\ Front' = Front /\ Reserving' = Reserving
  BY DEF FillSlot, runVars, BusySlots, Front, Reserving, TypeOK
<1>2. WindowInv'
  BY <1>1 DEF RingInv, WindowInv, Outstanding, FillSlot
<1>3. /\ Filling(c) /\ index[c] \in Slots
      /\ \A d \in Callers : Filling(d)' <=> Filling(d)
      /\ \A d \in Callers \ {c} : stage'[d] = stage[d]
      /\ first'[index[c]] = action[c]
      /\ \A s \in Slots \ {index[c]} : first'[s] = first[s]
      /\ index' = index /\ action' = action /\ second' = second /\ pending' = pending
  BY DEF FillSlot, Filling, TypeOK
<1>4. ~second[index[c]] /\ \A d \in Callers \ {c} : Filling(d) => index[d] # index[c]
  BY <1>3 DEF RingInv, FillingInv
<1>5. \A i \in 1 .. Len(pending) : Ahead(Front, i - 1) \in Slots
  BY WindowFacts, AheadType, SizeAssumption DEF RingInv
<1>6. PendingInv'
  BY <1>1, <1>3, <1>4, <1>5 DEF RingInv, PendingInv
<1>7. FillingInv'
  BY <1>1, <1>3, <1>4 DEF RingInv, FillingInv, TypeOK
<1>8. FlaggedInv' /\ RunningInv' /\ CallInv'
  BY <1>1 DEF RingInv, FlaggedInv, RunningInv, CallInv, FillSlot, runVars, TypeOK
<1> QED
  BY <1>2, <1>6, <1>7, <1>8 DEF RingInv

\* Setting the flag turns a slot that is being filled into one that can be executed.
LEMMA FlagSlotRing ==
    ASSUME MaxOutstanding <= Size, TypeOK, RingInv, NEW c \in Callers, FlagSlot(c)
    PROVE  RingInv'
<1>1. BusySlots' = BusySlots /\ Front' = Front /\ Reserving' = Reserving
  BY DEF FlagSlot, runVars, BusySlots, Front, Reserving, TypeOK
<1>2. WindowInv'
  BY <1>1 DEF RingInv, WindowInv, Outstanding, FlagSlot
<1>3. /\ Filling(c) /\ ~Filling(c)' /\ index[c] \in Slots
      /\ \A d \in Callers \ {c} : (Filling(d)' <=> Filling(d)) /\ stage'[d] = stage[d]
      /\ second'[index[c]]
      /\ \A s \in Slots \ {index[c]} : second'[s] = second[s]
      /\ index' = index /\ action' = action /\ first' = first /\ pending' = pending
  BY DEF FlagSlot, Filling, TypeOK
<1>4. /\ first[index[c]] = action[c]
      /\ \A d \in Callers \ {c} : Filling(d) => index[d] # index[c]
  BY <1>3 DEF RingInv, FillingInv, FlagSlot
<1>5. \A i \in 1 .. Len(pending) : Ahead(Front, i - 1) \in Slots
  BY WindowFacts, AheadType, SizeAssumption DEF RingInv
<1>6. PICK k \in 1 .. Len(pending) : index[c] = Ahead(Front, k - 1) /\ pending[k] = action[c]
  BY <1>3 DEF RingInv, FillingInv
<1>7. \A i \in 1 .. Len(pending) : i # k => Ahead(Front, i - 1) # index[c]
  <2> SUFFICES ASSUME NEW i \in 1 .. Len(pending), Ahead(Front, i - 1) = Ahead(Front, k - 1)
               PROVE  i = k
    BY <1>6
  <2>1. i - 1 \in 0 .. Size - 1 /\ k - 1 \in 0 .. Size - 1
    BY WindowFacts, SizeAssumption DEF RingInv
  <2>2. i - 1 = k - 1
    BY <2>1, AheadInjective, WindowFacts DEF RingInv
  <2> QED
    BY <2>2, WindowFacts DEF RingInv
<1>8. PendingInv'
  <2> SUFFICES ASSUME NEW i \in 1 .. Len(pending)
               PROVE  \/ second'[Ahead(Front, i - 1)] /\ first[Ahead(Front, i - 1)] = pending[i]
                      \/ ~second'[Ahead(Front, i - 1)] /\ \E d \in Callers : Filling(d)' /\ index[d] = Ahead(Front, i - 1)
    BY <1>1, <1>3 DEF PendingInv
  <2>1. CASE i = k
    BY <2>1, <1>3, <1>4, <1>6
  <2>2. CASE i # k
    BY <2>2, <1>3, <1>5, <1>7 DEF RingInv, PendingInv
  <2> QED
    BY <2>1, <2>2
<1>9. FillingInv'
  BY <1>1, <1>3, <1>4 DEF RingInv, FillingInv, TypeOK
<1>10. FlaggedInv'
  BY <1>1, <1>3, <1>6 DEF RingInv, FlaggedInv, FlagSlot, runVars
<1>11. RunningInv' /\ CallInv'
  BY <1>1, <1>3 DEF RingInv, RunningInv, CallInv, FlagSlot, runVars, TypeOK
<1> QED
  BY <1>2, <1>8, <1>9, <1>10, <1>11 DEF RingInv

\* The front slot is flagged: it is that of the oldest pending action.
LEMMA FrontFlagged ==
    ASSUME MaxOutstanding <= Size, TypeOK, RingInv, runStage = "try", second[popIndex]
    PROVE  Len(pending) >= 1 /\ first[popIndex] = pending[1] /\ pending[1] \in Actions
<1>1. BusySlots = 0 /\ Front = popIndex /\ popIndex \in Slots
  BY DEF BusySlots, Front, TypeOK
<1>2. PICK i \in 1 .. Len(pending) : popIndex = Ahead(Front, i - 1)
  BY <1>1 DEF RingInv, FlaggedInv
<1>3. Len(pending) \in Nat /\ Len(pending) <= Size
  BY WindowFacts, <1>1, SizeAssumption DEF RingInv
<1>4. Ahead(Front, 0) = popIndex
  BY <1>1, SizeAssumption DEF Ahead, Slots
<1>5. i - 1 = 0
  BY <1>1, <1>2, <1>3, <1>4, AheadInjective, SizeAssumption
<1>6. 1 \in 1 .. Len(pending) /\ Ahead(Front, 1 - 1) = popIndex
  BY <1>2, <1>3, <1>4, <1>5
<1>7. first[popIndex] = pending[1]
  BY <1>6 DEF RingInv, PendingInv
<1> QED
  BY <1>6, <1>7, <1>3 DEF TypeOK

\* Starting the action at the front keeps the ring: the next slot becomes the front.
LEMMA StartActionRing ==
    ASSUME MaxOutstanding <= Size, TypeOK, RingInv, StartAction
    PROVE  RingInv'
<1>1. BusySlots = 0 /\ BusySlots' = 1 /\ Front = popIndex /\ Front' = Ahead(Front, 1) /\ Reserving' = Reserving
  BY DEF StartAction, callerVars, BusySlots, Front, Reserving
<1>2. Len(pending) >= 1 /\ first[popIndex] = pending[1] /\ pending[1] \in Actions
  BY FrontFlagged DEF StartAction
<1>3. Len(pending) \in Nat /\ Len(pending) <= Size /\ Front \in Slots
  BY WindowFacts, <1>1, SizeAssumption DEF RingInv
<1>4. /\ Len(pending') = Len(pending) - 1
      /\ \A i \in 1 .. Len(pending) - 1 : pending'[i] = pending[i + 1]
  BY <1>2, <1>3 DEF StartAction, TypeOK
<1>5. \A i \in 1 .. Len(pending) - 1 : Ahead(Front', i - 1) = Ahead(Front, i)
  BY <1>1, <1>3, AheadShift, SizeAssumption
<1>6. /\ UNCHANGED <<first, second, pushIndex, popIndex, stage, index, action>>
      /\ \A d \in Callers : Filling(d)' <=> Filling(d)
  BY DEF StartAction, callerVars, Filling
<1>7. WindowInv'
  <2>1. Outstanding' = Outstanding
    BY <1>1, <1>3, <1>4, ReservingFinite DEF Outstanding
  <2>2. Ahead(Front', Len(pending')) = Ahead(Front, Len(pending))
    BY <1>1, <1>2, <1>3, <1>4, AheadShift, SizeAssumption
  <2> QED
    BY <2>1, <2>2, <1>6 DEF RingInv, WindowInv
<1>8. PendingInv'
  <2> SUFFICES ASSUME NEW i \in 1 .. Len(pending) - 1
               PROVE  \/ second[Ahead(Front, i)] /\ first[Ahead(Front, i)] = pending[i + 1]
                      \/ ~second[Ahead(Front, i)] /\ \E d \in Callers : Filling(d) /\ index[d] = Ahead(Front, i)
    BY <1>4, <1>5, <1>6 DEF PendingInv
  <2>1. i + 1 \in 1 .. Len(pending) /\ (i + 1) - 1 = i
    BY <1>3
  <2> QED
    BY <2>1 DEF RingInv, PendingInv
<1>9. FillingInv'
  <2> SUFFICES ASSUME NEW d \in Callers, Filling(d)
               PROVE  \E i \in 1 .. Len(pending') : index[d] = Ahead(Front', i - 1) /\ pending'[i] = action[d]
    BY <1>6 DEF RingInv, FillingInv
  <2>1. PICK k \in 1 .. Len(pending) : index[d] = Ahead(Front, k - 1) /\ pending[k] = action[d]
    BY DEF RingInv, FillingInv
  <2>2. ~second[index[d]]
    BY DEF RingInv, FillingInv
  <2>3. k # 1
    BY <2>1, <2>2, <1>1, <1>3, SizeAssumption DEF StartAction, Ahead, Slots
  <2>4. k - 1 \in 1 .. Len(pending) - 1 /\ (k - 1) + 1 = k
    BY <2>3, <1>3
  <2> QED
    BY <2>1, <2>4, <1>4, <1>5
<1>10. FlaggedInv'
  <2> SUFFICES ASSUME NEW s \in Slots, second[s], s # popIndex
               PROVE  \E i \in 1 .. Len(pending') : s = Ahead(Front', i - 1)
    BY <1>1, <1>6 DEF FlaggedInv
  <2>1. PICK k \in 1 .. Len(pending) : s = Ahead(Front, k - 1)
    BY <1>1 DEF RingInv, FlaggedInv
  <2>2. k # 1
    BY <2>1, <1>1, <1>3, SizeAssumption DEF Ahead, Slots
  <2>3. k - 1 \in 1 .. Len(pending) - 1
    BY <2>2, <1>3
  <2> QED
    BY <2>1, <2>3, <1>4, <1>5
<1>11. RunningInv' /\ CallInv'
  BY <1>2, NoneAssumption DEF RingInv, RunningInv, CallInv, StartAction, callerVars
<1> QED
  BY <1>7, <1>8, <1>9, <1>10, <1>11 DEF RingInv

\* No pending action lies in the slot of the executing one.
LEMMA BusySlotApart ==
    ASSUME MaxOutstanding <= Size, TypeOK, RingInv, BusySlots = 1
    PROVE  /\ \A i \in 1 .. Len(pending) : Ahead(Front, i - 1) # popIndex
           /\ \A c \in Callers : Filling(c) => index[c] # popIndex
<1>1. Front = Ahead(popIndex, 1) /\ popIndex \in Slots
  BY DEF BusySlots, Front, TypeOK
<1>2. Len(pending) \in Nat /\ Len(pending) <= Size - 1
  BY WindowFacts, SizeAssumption DEF RingInv
<1>3. \A i \in 1 .. Len(pending) : Ahead(Front, i - 1) # popIndex
  BY <1>1, <1>2, SizeAssumption DEF Ahead, Slots
<1> QED
  BY <1>3 DEF RingInv, FillingInv

\* Emptying the slot of the action that returned disturbs no pending action.
LEMMA EndActionRing ==
    ASSUME MaxOutstanding <= Size, TypeOK, RingInv, EndAction
    PROVE  RingInv'
<1>1. BusySlots = 1 /\ BusySlots' = 1 /\ Front' = Front /\ Reserving' = Reserving
  BY DEF EndAction, callerVars, BusySlots, Front, Reserving
<1>2. /\ \A d \in Callers : Filling(d)' <=> Filling(d)
      /\ UNCHANGED <<second, pushIndex, popIndex, stage, index, action, pending>>
      /\ \A s \in Slots \ {popIndex} : first'[s] = first[s]
  BY DEF EndAction, callerVars, Filling, TypeOK
<1>3. \A i \in 1 .. Len(pending) : Ahead(Front, i - 1) \in Slots \ {popIndex}
  BY <1>1, WindowFacts, BusySlotApart, AheadType, SizeAssumption DEF RingInv
<1>4. WindowInv'
  BY <1>1, <1>2 DEF RingInv, WindowInv, Outstanding
<1>5. PendingInv'
  BY <1>1, <1>2, <1>3 DEF RingInv, PendingInv
<1>6. FillingInv'
  <2>1. \A d \in Callers : Filling(d) => index[d] \in Slots \ {popIndex}
    BY <1>1, BusySlotApart DEF TypeOK
  <2> QED
    BY <1>1, <1>2, <2>1 DEF RingInv, FillingInv
<1>7. FlaggedInv' /\ RunningInv' /\ CallInv'
  BY <1>1, <1>2 DEF RingInv, FlaggedInv, RunningInv, CallInv, EndAction
<1> QED
  BY <1>4, <1>5, <1>6, <1>7 DEF RingInv

\* Clearing the flag gives the slot back: it is that of no pending action.
LEMMA ClearFlagRing ==
    ASSUME MaxOutstanding <= Size, TypeOK, RingInv, ClearFlag
    PROVE  RingInv'
<1>1. BusySlots = 1 /\ BusySlots' = 0 /\ Front' = Front /\ Reserving' = Reserving
  BY DEF ClearFlag, callerVars, BusySlots, Front, Reserving
<1>2. /\ \A d \in Callers : Filling(d)' <=> Filling(d)
      /\ UNCHANGED <<first, pushIndex, popIndex, stage, index, action, pending>>
      /\ \A s \in Slots \ {popIndex} : second'[s] = second[s]
      /\ ~second'[popIndex]
  BY DEF ClearFlag, callerVars, Filling, TypeOK
<1>3. \A i \in 1 .. Len(pending) : Ahead(Front, i - 1) \in Slots \ {popIndex}
  BY <1>1, WindowFacts, BusySlotApart, AheadType, SizeAssumption DEF RingInv
<1>4. WindowInv'
  BY <1>1, <1>2, WindowFacts, ReservingFinite, OutstandingAssumption DEF RingInv, WindowInv, Outstanding
<1>5. PendingInv'
  BY <1>1, <1>2, <1>3 DEF RingInv, PendingInv
<1>6. FillingInv'
  <2>1. \A d \in Callers : Filling(d) => index[d] \in Slots \ {popIndex}
    BY <1>1, BusySlotApart DEF TypeOK
  <2> QED
    BY <1>1, <1>2, <2>1 DEF RingInv, FillingInv
<1>7. FlaggedInv'
  BY <1>1, <1>2 DEF RingInv, FlaggedInv
<1>8. RunningInv' /\ CallInv'
  BY <1>1, <1>2 DEF RingInv, RunningInv, CallInv, ClearFlag
<1> QED
  BY <1>4, <1>5, <1>6, <1>7, <1>8 DEF RingInv

\* Advancing the pop index leaves the front where it is.
LEMMA AdvancePopRing ==
    ASSUME MaxOutstanding <= Size, TypeOK, RingInv, AdvancePop
    PROVE  RingInv'
<1>1. BusySlots = 0 /\ BusySlots' = 0 /\ Reserving' = Reserving
  BY DEF AdvancePop, callerVars, BusySlots, Reserving
<1>2. Front' = Front
  BY NextSlotAhead DEF AdvancePop, Front, TypeOK
<1>3. /\ \A d \in Callers : Filling(d)' <=> Filling(d)
      /\ UNCHANGED <<first, second, pushIndex, stage, index, action, pending>>
  BY DEF AdvancePop, callerVars, Filling
<1>4. WindowInv' /\ PendingInv' /\ FillingInv'
  BY <1>1, <1>2, <1>3 DEF RingInv, WindowInv, Outstanding, PendingInv, FillingInv
<1>5. FlaggedInv' /\ RunningInv' /\ CallInv'
  BY <1>1, <1>2, <1>3 DEF RingInv, FlaggedInv, RunningInv, CallInv, AdvancePop
<1> QED
  BY <1>4, <1>5 DEF RingInv

\* Every step keeps the ring, provided that there are slots for all outstanding actions.
LEMMA RingStep ==
    ASSUME MaxOutstanding <= Size, TypeOK, RingInv, [Next]_vars
    PROVE  RingInv'
<1>0. CallInv'
  BY TypeStep DEF RingInv
<1>1. ASSUME NEW c \in Callers, RetryReserve(c) PROVE RingInv'
  <2>1. \A d \in Callers : Filling(d) => d # c /\ index'[d] = index[d]
    BY <1>1 DEF RetryReserve, Filling, TypeOK
  <2> QED
    BY <1>0, <1>1, <2>1, RingUntouched
       DEF RetryReserve, runVars, BusySlots, Front, Reserving, Filling
<1>2. ASSUME NEW c \in Callers, CheckSlotFree(c) PROVE RingInv'
  BY <1>0, <1>2, RingUntouched
     DEF CheckSlotFree, runVars, BusySlots, Front, Reserving, Filling, TypeOK
<1>3. ASSUME NEW c \in Callers, MeasureCapacity(c) PROVE RingInv'
  BY <1>0, <1>3, RingUntouched
     DEF MeasureCapacity, runVars, BusySlots, Front, Reserving, Filling, TypeOK
<1>4. ASSUME NEW c \in Callers, StoreCapacity(c) PROVE RingInv'
  BY <1>0, <1>4, RingUntouched
     DEF StoreCapacity, runVars, BusySlots, Front, Reserving, Filling, TypeOK
<1>5. ASSUME NEW c \in Callers, RequestExecution(c) PROVE RingInv'
  <2>1. \A d \in Callers : Filling(d) => d # c /\ index'[d] = index[d] /\ action'[d] = action[d]
    BY <1>5 DEF RequestExecution, Filling, TypeOK
  <2>2. BusySlots' = BusySlots /\ Front' = Front /\ Reserving' = Reserving
    BY <1>5 DEF RequestExecution, BusySlots, Front, Reserving, TypeOK
  <2>3. \A d \in Callers : Filling(d)' <=> Filling(d)
    BY <1>5 DEF RequestExecution, Filling, TypeOK
  <2> QED
    BY <1>0, <1>5, <2>1, <2>2, <2>3, RingUntouched DEF RequestExecution, Filling, TypeOK
<1>6. CASE NoAction \/ Idle \/ SpuriousWakeUp
  BY <1>0, <1>6, RingUntouched
     DEF NoAction, Idle, SpuriousWakeUp, callerVars, BusySlots, Front, Reserving, Filling
<1>7. CASE UNCHANGED vars
  BY <1>0, <1>7, RingUntouched DEF vars, BusySlots, Front, Reserving, Filling
<1> QED
  BY <1>1, <1>2, <1>3, <1>4, <1>5, <1>6, <1>7, CallScheduleRing, ReserveRing, FillSlotRing,
     FlagSlotRing, StartActionRing, EndActionRing, ClearFlagRing, AdvancePopRing
     DEF Next, CallerStep, RunStep

\* The ring buffer's invariant holds however many threads call Schedule, as long
\* as they have no more actions outstanding than there are slots.
THEOREM RingCorrect ==
    ASSUME MaxOutstanding <= Size
    PROVE  Spec => [](TypeOK /\ RingInv)
<1>1. Init => TypeOK /\ RingInv
  BY TypeInit, RingInit
<1>2. TypeOK /\ RingInv /\ [Next]_vars => (TypeOK /\ RingInv)'
  BY TypeStep, RingStep DEF RingInv
<1> QED
  BY <1>1, <1>2, PTL DEF Spec

\* Neither really_assert of Schedule ever fails, in any interleaving, as long as
\* no more actions are outstanding than there are slots.
THEOREM NoAssertFails ==
    ASSUME MaxOutstanding <= Size
    PROVE  Spec => []AssertsHold
<1>1. Init => AssertsHold
  BY DEF Init, AssertsHold
<1>2. TypeOK /\ RingInv /\ AssertsHold /\ [Next]_vars => AssertsHold'
  <2> SUFFICES ASSUME TypeOK, RingInv, ~aborted, [Next]_vars PROVE ~aborted'
    BY DEF AssertsHold
  <2>1. ASSUME NEW c \in Callers, CheckSlotFree(c) PROVE ~aborted'
    BY <2>1 DEF CheckSlotFree, RingInv, FillingInv, Filling
  <2>2. ASSUME NEW c \in Callers, StoreCapacity(c) PROVE ~aborted'
    <3>1. lowest[c] \in 1 .. Size
      BY DEF TypeOK
    <3>2. minCapacity' >= 1
      BY <2>2, <3>1, SizeAssumption DEF StoreCapacity
    <3> QED
      BY <2>2, <3>2 DEF StoreCapacity
  <2>3. ASSUME NEW c \in Callers, CallerStep(c) PROVE ~aborted'
    BY <2>1, <2>2, <2>3
       DEF CallerStep, Reserve, RetryReserve, FillSlot, FlagSlot, MeasureCapacity, RequestExecution
  <2>4. ASSUME NEW c \in Callers, NEW a \in Actions, CallSchedule(c, a) PROVE ~aborted'
    BY <2>4 DEF CallSchedule
  <2>5. CASE RunStep \/ SpuriousWakeUp \/ UNCHANGED vars
    BY <2>5 DEF RunStep, StartAction, NoAction, EndAction, ClearFlag, AdvancePop, Idle, SpuriousWakeUp, vars
  <2> QED
    BY <2>3, <2>4, <2>5 DEF Next
<1> QED
  BY <1>1, <1>2, RingCorrect, PTL DEF Spec

----------------------------------------------------------------------------
(* Refinement *)

\* Every step is a step of the first-in first-out queue or leaves it unchanged.
LEMMA QueueStep ==
    ASSUME MaxOutstanding <= Size, TypeOK, RingInv, [Next]_vars
    PROVE  [Queue!Next]_(Queue!vars)
<1> SUFFICES Queue!Next \/ UNCHANGED <<pending, running>>
  BY DEF Queue!vars
<1>1. ASSUME NEW c \in Callers, Reserve(c) PROVE Queue!Next
  <2>1. Len(pending) < Size
    <3>1. c \in Reserving
      BY <1>1 DEF Reserve, Reserving
    <3>2. Cardinality(Reserving) >= 1
      BY <3>1, ReservingFinite, FS_EmptySet
    <3> QED
      BY <3>2, WindowFacts, ReservingFinite, SizeAssumption DEF RingInv
  <2>2. action[c] \in Actions
    BY <1>1 DEF RingInv, CallInv, Reserve
  <2>3. Queue!Accept(action[c])
    BY <1>1, <2>1 DEF Reserve, runVars, Queue!Accept
  <2> QED
    BY <2>2, <2>3 DEF Queue!Next
<1>2. CASE StartAction
  <2>1. Len(pending) >= 1 /\ first[popIndex] = pending[1]
    BY <1>2, FrontFlagged DEF StartAction
  <2>2. pending # <<>>
    BY <2>1
  <2>3. running = None
    BY <1>2 DEF StartAction, RingInv, RunningInv
  <2>4. running' = Head(pending) /\ pending' = Tail(pending)
    BY <1>2, <2>1, <2>2 DEF StartAction, TypeOK
  <2> QED
    BY <2>2, <2>3, <2>4 DEF Queue!Start, Queue!Next
<1>3. CASE EndAction
  BY <1>3 DEF EndAction, RingInv, RunningInv, Queue!Finish, Queue!Next
<1>4. ASSUME NEW c \in Callers, CallerStep(c)
      PROVE  Queue!Next \/ UNCHANGED <<pending, running>>
  BY <1>1, <1>4 DEF CallerStep, RetryReserve, FillSlot, CheckSlotFree, FlagSlot, MeasureCapacity,
                    StoreCapacity, RequestExecution, runVars
<1>5. ASSUME NEW c \in Callers, NEW a \in Actions, CallSchedule(c, a)
      PROVE  UNCHANGED <<pending, running>>
  BY <1>5 DEF CallSchedule, runVars
<1>6. CASE NoAction \/ ClearFlag \/ AdvancePop \/ Idle \/ SpuriousWakeUp \/ UNCHANGED vars
  BY <1>6 DEF NoAction, ClearFlag, AdvancePop, Idle, SpuriousWakeUp, vars
<1> QED
  BY <1>2, <1>3, <1>4, <1>5, <1>6 DEF Next, RunStep

\* The dispatcher implements the first-in first-out queue: every action whose slot
\* was reserved is run in turn, once, and nothing else is ever run.
THEOREM ImplementsActionQueue ==
    ASSUME MaxOutstanding <= Size
    PROVE  Spec => Queue!Safety
<1>1. Init => Queue!Init
  BY DEF Init, Queue!Init
<1>2. TypeOK /\ RingInv /\ [Next]_vars => [Queue!Next]_(Queue!vars)
  BY QueueStep
<1> QED
  BY <1>1, <1>2, RingCorrect, PTL DEF Spec, Queue!Safety
====
