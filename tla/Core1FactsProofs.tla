-------------------------- MODULE Core1FactsProofs --------------------------
(***************************************************************************)
(* Proofs about the park handshakes and the fact ring: that Core 1 is      *)
(* excluded, that the ring is race free and no drop goes unnoticed, and    *)
(* that it implements FactQueue, for every number of slots and every index *)
(* width the slots divide.                                                 *)
(***************************************************************************)
EXTENDS Core1Facts, SequenceTheorems, TLAPS

-----------------------------------------------------------------------------
(* The park handshakes exclude Core 1, for every interleaving. *)

\* Cold boot: Core 0 waits, Core 1 is about to show its park, no flash write.
LEMMA ParkInitInv == ParkInit => ParkInv
  BY DEF ParkInit, ParkInv, ParkTypeOK, Core0Pcs, Core1Pcs, WipeExcludesCore1,
         FlashExcludesCore1

\* Every step of either core keeps ParkInv: the flags say where their writers
\* are, and no park flag is left over when Core 0 begins to wait for it.
LEMMA ParkStepInv ==
  ASSUME ParkInv, [ParkNext]_parkVars
  PROVE  ParkInv'
<1> USE DEF ParkInv, ParkTypeOK, Core0Pcs, Core1Pcs, WipeExcludesCore1, FlashExcludesCore1
<1>1. CASE ResetRequest
  BY <1>1 DEF ResetRequest
<1>2. CASE LoopAgain
  BY <1>2 DEF LoopAgain
<1>3. CASE ParkSeen
  BY <1>3 DEF ParkSeen
<1>4. CASE Wipe
  BY <1>4 DEF Wipe
<1>5. CASE FlashQuiesce
  BY <1>5 DEF FlashQuiesce
<1>6. CASE FlashParkSeen
  BY <1>6 DEF FlashParkSeen
<1>7. CASE FlashRelease
  BY <1>7 DEF FlashRelease
<1>8. CASE FlashReleased
  BY <1>8 DEF FlashReleased
<1>9. CASE LotEnter
  BY <1>9 DEF LotEnter
<1>10. CASE LotSpinEnds
  BY <1>10 DEF LotSpinEnds
<1>11. CASE LotLeave
  BY <1>11 DEF LotLeave
<1>12. CASE LoopTop
  BY <1>12 DEF LoopTop
<1>13. CASE FlashGate
  BY <1>13 DEF FlashGate
<1>14. CASE RamSpinEnds
  BY <1>14 DEF RamSpinEnds
<1>15. CASE RamLeave
  BY <1>15 DEF RamLeave
<1>16. CASE BusReturns
  BY <1>16 DEF BusReturns
<1>17. CASE UNCHANGED parkVars
  BY <1>17 DEF parkVars
<1> QED
  BY <1>1, <1>2, <1>3, <1>4, <1>5, <1>6, <1>7, <1>8, <1>9, <1>10, <1>11, <1>12, <1>13,
     <1>14, <1>15, <1>16, <1>17
     DEF ParkNext, Core0Park, Core0Proceeds, Core1Park

-----------------------------------------------------------------------------
(* The ring *)

\* Every integer is a multiple of n and a remainder below n.
LEMMA Division ==
  ASSUME NEW n \in Nat \ {0}, NEW a \in Int
  PROVE  \E q \in Int : a = n * q + (a % n) /\ a % n \in 0..(n - 1)
<1>1. a \div n \in Int /\ a = n * (a \div n) + (a % n) /\ a % n \in 0..(n - 1)
  BY SMT
<1> QED
  BY <1>1

\* ... in one way only.
LEMMA Remainder ==
  ASSUME NEW n \in Nat \ {0}, NEW a \in Int, NEW q \in Int,
         NEW r \in 0..(n - 1), a = n * q + r
  PROVE  a % n = r
<1>1. PICK p \in Int : a = n * p + (a % n) /\ a % n \in 0..(n - 1)
  BY Division
<1>2. PICK s \in 0..(n - 1) : s = a % n
  BY <1>1
<1>3. n * q + r = n * p + s
  BY <1>1, <1>2
<1>4. CASE q < p
  <2>1. n * (p - q) >= n
    BY <1>4, SMT
  <2>2. n * (p - q) = n * p - n * q
    BY SMT
  <2> QED
    BY <2>1, <2>2, <1>3, SMT
<1>5. CASE p < q
  <2>1. n * (q - p) >= n
    BY <1>5, SMT
  <2>2. n * (q - p) = n * q - n * p
    BY SMT
  <2> QED
    BY <2>1, <2>2, <1>3, SMT
<1>6. CASE p = q
  BY <1>6, <1>3, <1>2, SMT
<1> QED
  BY <1>4, <1>5, <1>6, SMT

\* An index counts up and wraps at IdxMod.
LEMMA IncIs ==
  ASSUME NEW i \in Indices
  PROVE  Inc(i) = (IF i = IdxMod - 1 THEN 0 ELSE i + 1) /\ Inc(i) \in Indices
<1> USE SlotsAssumption
<1>1. CASE i = IdxMod - 1
  <2>1. i + 1 = IdxMod * 1 + 0 /\ 0 \in 0..(IdxMod - 1) /\ i + 1 \in Int
    BY <1>1 DEF Indices
  <2>2. (i + 1) % IdxMod = 0
    BY <2>1, Remainder
  <2> QED
    BY <2>2, <1>1 DEF Inc, Indices
<1>2. CASE i # IdxMod - 1
  <2>1. i + 1 = IdxMod * 0 + (i + 1) /\ i + 1 \in 0..(IdxMod - 1)
    BY <1>2 DEF Indices
  <2>2. (i + 1) % IdxMod = i + 1
    BY <2>1, Remainder
  <2> QED
    BY <2>1, <2>2, <1>2 DEF Inc, Indices
<1> QED
  BY <1>1, <1>2

\* One turn back of the indices.
LEMMA MinusOne == IdxMod * (-1) = -IdxMod
<1>1. \A m \in Int : m * (-1) = -m
  OBVIOUS
<1> QED
  BY <1>1, SlotsAssumption

\* What an unsigned 8-bit `head - tail` is.
LEMMA DistanceIs ==
  ASSUME NEW h \in Indices, NEW t \in Indices
  PROVE  (h - t) % IdxMod = IF h >= t THEN h - t ELSE h - t + IdxMod
<1> USE SlotsAssumption
<1>1. CASE h >= t
  <2>1. h - t = IdxMod * 0 + (h - t) /\ h - t \in 0..(IdxMod - 1) /\ h - t \in Int
    BY <1>1 DEF Indices
  <2> QED
    BY <2>1, <1>1, Remainder
<1>2. CASE h < t
  <2>1. h \in Int /\ t \in Int /\ IdxMod \in Int /\ h < t /\ 0 <= h /\ t <= IdxMod - 1
    BY <1>2 DEF Indices
  <2>2. IdxMod * (-1) = -IdxMod
    BY MinusOne
  <2>3. h - t \in Int /\ h - t + IdxMod \in 0..(IdxMod - 1) /\ h - t = -IdxMod + (h - t + IdxMod)
    BY ONLY <2>1
  <2>4. ASSUME NEW n \in Int, NEW r \in 0..(IdxMod - 1), n = IdxMod * (-1) + r
        PROVE  n % IdxMod = r
    BY <2>4, Remainder
  <2>5. (h - t) % IdxMod = h - t + IdxMod
    BY ONLY <2>2, <2>3, <2>4
  <2> QED
    BY <2>5, <1>2 DEF Indices
<1> QED
  BY <1>1, <1>2 DEF Indices

\* A push moves the head away from the tail.
LEMMA DistanceGrows ==
  ASSUME NEW h \in Indices, NEW t \in Indices, (h - t) % IdxMod < Slots
  PROVE  (Inc(h) - t) % IdxMod = ((h - t) % IdxMod) + 1 /\ Inc(h) # t
<1>1. Inc(h) = (IF h = IdxMod - 1 THEN 0 ELSE h + 1) /\ Inc(h) \in Indices
  BY IncIs
<1>2. (h - t) % IdxMod = IF h >= t THEN h - t ELSE h - t + IdxMod
  BY DistanceIs
<1>3. (Inc(h) - t) % IdxMod = IF Inc(h) >= t THEN Inc(h) - t ELSE Inc(h) - t + IdxMod
  BY <1>1, DistanceIs
<1> QED
  BY <1>1, <1>2, <1>3, SlotsAssumption DEF Indices

\* A pop moves the tail towards the head.
LEMMA DistanceShrinks ==
  ASSUME NEW h \in Indices, NEW t \in Indices, h # t
  PROVE  (h - Inc(t)) % IdxMod = ((h - t) % IdxMod) - 1
<1>1. Inc(t) = (IF t = IdxMod - 1 THEN 0 ELSE t + 1) /\ Inc(t) \in Indices
  BY IncIs
<1>2. (h - t) % IdxMod = IF h >= t THEN h - t ELSE h - t + IdxMod
  BY DistanceIs
<1>3. (h - Inc(t)) % IdxMod = IF h >= Inc(t) THEN h - Inc(t) ELSE h - Inc(t) + IdxMod
  BY <1>1, DistanceIs
<1> QED
  BY <1>1, <1>2, <1>3, SlotsAssumption DEF Indices

\* Slots divides IdxMod: wrapping does not change a slot.
LEMMA SlotWraps ==
  ASSUME NEW i \in Nat
  PROVE  Slot(i + IdxMod) = Slot(i) /\ Slot(i) \in 0..(Slots - 1)
<1>0. Slots \in Nat \ {0} /\ IdxMod \in Int /\ IdxMod % Slots = 0 /\ i \in Int
  BY SlotsAssumption
<1>1. PICK q \in Int : i = Slots * q + (i % Slots) /\ i % Slots \in 0..(Slots - 1)
  BY <1>0, Division
<1>2. PICK m \in Int : IdxMod = Slots * m
  <2>1. PICK m \in Int : IdxMod = Slots * m + (IdxMod % Slots)
    BY <1>0, Division
  <2>2. Slots * m \in Int
    BY <1>0
  <2> QED
    BY <1>0, <2>1, <2>2
<1>3. i + IdxMod = Slots * (q + m) + (i % Slots)
  <2>1. Slots * (q + m) = Slots * q + Slots * m
    BY <1>0, SMT
  <2> QED
    BY <1>0, <1>1, <1>2, <2>1
<1>4. (i + IdxMod) % Slots = i % Slots
  <2>1. i + IdxMod \in Int /\ q + m \in Int
    BY <1>0
  <2> QED
    BY <1>0, <1>1, <1>3, <2>1, Remainder
<1> QED
  BY <1>1, <1>4 DEF Slot

\* Fewer than Slots apart, two indices have two slots.
LEMMA SlotsDiffer ==
  ASSUME NEW i \in Nat, NEW j \in Nat, i < j, j < i + Slots
  PROVE  Slot(i) # Slot(j)
<1>0. Slots \in Nat \ {0} /\ i \in Int /\ j \in Int
  BY SlotsAssumption
<1>1. PICK q \in Int : i = Slots * q + (i % Slots) /\ i % Slots \in 0..(Slots - 1)
  BY <1>0, Division
<1>2. PICK p \in Int : j = Slots * p + (j % Slots) /\ j % Slots \in 0..(Slots - 1)
  BY <1>0, Division
<1>3. SUFFICES ASSUME i % Slots = j % Slots PROVE FALSE
  BY DEF Slot
<1>4. Slots * (p - q) = j - i
  <2>1. Slots * (p - q) = Slots * p - Slots * q
    BY <1>0, SMT
  <2> QED
    BY <1>0, <1>1, <1>2, <1>3, <2>1
<1>5. CASE p - q <= 0
  <2>1. Slots * (p - q) <= 0
    BY <1>0, <1>5, SMT
  <2> QED
    BY <1>0, <2>1, <1>4
<1>6. CASE p - q >= 1
  <2>1. Slots * (p - q) >= Slots
    BY <1>0, <1>6, SMT
  <2> QED
    BY <1>0, <2>1, <1>4
<1> QED
  BY <1>5, <1>6

-----------------------------------------------------------------------------
\* SlotNotShared and the refinement need more than they say: a push that has
\* found room keeps it, a pop under way has something to pop, and each core's
\* place in the ring's code is a place in the park protocol's.
FactsInv ==
  /\ TypeOK
  /\ ParkInv
  /\ Used <= Slots
  /\ push \in {"write", "publish"} => Used < Slots
  /\ push # "idle" => pc1 = "bus" /\ pushFact \in Facts
  /\ push = "publish" => ring[Slot(head)] = pushFact
  /\ observe \in {"slot", "free"} => head # tail
  /\ observe # "pass" => pc0 = "serve"
  /\ observe = "free" => popped = ring[Slot(tail)]
  /\ observe = "clear" => faultFacts
  /\ DropNotForgotten

\* The empty ring of a cold boot satisfies the invariant.
LEMMA InitInv == Init => FactsInv
<1> SUFFICES ASSUME Init PROVE FactsInv
  OBVIOUS
<1>1. ParkInv
  BY ParkInitInv DEF Init
<1>2. TypeOK
  <2>1. ParkTypeOK
    BY <1>1 DEF ParkInv
  <2>2. 0 \in Indices
    BY SlotsAssumption DEF Indices
  <2> QED
    BY <2>1, <2>2 DEF Init, TypeOK
<1>3. Used = 0
  BY DistanceIs, SlotsAssumption DEF Used, Init, Indices
<1> QED
  BY <1>1, <1>2, <1>3, SlotsAssumption DEF FactsInv, DropNotForgotten, Init

\* What the distance and the slots are, in a state where the indices are typed.
LEMMA UsedIs ==
  ASSUME TypeOK
  PROVE  /\ Used = IF head >= tail THEN head - tail ELSE head - tail + IdxMod
         /\ Used \in Nat
         /\ Used = 0 <=> head = tail
         /\ Slot(head) = Slot(tail + Used)
<1> USE SlotsAssumption
<1>1. Used = IF head >= tail THEN head - tail ELSE head - tail + IdxMod
  BY DistanceIs DEF Used, TypeOK
<1>2. Used \in Nat /\ (Used = 0 <=> head = tail)
  BY <1>1 DEF TypeOK, Indices
<1>3. Slot(head) = Slot(tail + Used)
  <2>1. CASE head >= tail
    <3>1. tail + Used = head
      BY <1>1, <2>1 DEF TypeOK, Indices
    <3> QED
      BY <3>1
  <2>2. CASE head < tail
    <3>1. tail + Used = head + IdxMod /\ head \in Nat
      BY <1>1, <2>2 DEF TypeOK, Indices
    <3> QED
      BY <3>1, SlotWraps
  <2> QED
    BY <2>1, <2>2 DEF TypeOK, Indices
<1> QED
  BY <1>1, <1>2, <1>3

\* Within the waiting facts and the free slot after them, slots are distinct.
LEMMA HeadSlotFree ==
  ASSUME TypeOK, Used < Slots, NEW k \in Nat, k < Used
  PROVE  Slot(tail + k) # Slot(head)
<1>1. Used \in Nat /\ Slot(head) = Slot(tail + Used)
  BY UsedIs
<1>2. tail \in Nat /\ Slots \in Nat
  BY SlotsAssumption DEF TypeOK, Indices
<1>3. tail + k \in Nat /\ tail + Used \in Nat /\ tail + k < tail + Used
      /\ tail + Used < (tail + k) + Slots
  BY <1>1, <1>2
<1> QED
  BY <1>1, <1>3, SlotsDiffer

\* A step of the whole is a step of the park protocol, or leaves it alone.
LEMMA StepIsParkStep == [Next]_vars => [ParkNext]_parkVars
<1> SUFFICES ASSUME [Next]_vars PROVE [ParkNext]_parkVars
  OBVIOUS
<1>1. CASE Core0Step
  BY <1>1 DEF Core0Step, ParkNext, Core0Park, Core0Proceeds
<1>2. CASE Core1Step
  BY <1>2 DEF Core1Step, ParkNext
<1>3. CASE UNCHANGED vars
  BY <1>3 DEF vars
<1> QED
  BY <1>1, <1>2, <1>3 DEF Next

\* A step of the park protocol that leaves the ring's words alone.
ParkMoves ==
  /\ UNCHANGED ringVars
  /\ \/ observe = "pass" /\ (ResetRequest \/ FlashQuiesce \/ LoopAgain)
     \/ ParkSeen \/ FlashParkSeen \/ FlashRelease \/ FlashReleased
     \/ push = "idle" /\ Core1Park

\* The steps of Next, one by one.
LEMMA StepCases ==
  ASSUME [Next]_vars
  PROVE  \/ ParkMoves
         \/ UNCHANGED vars
         \/ Wipe /\ FactsReset
         \/ /\ UNCHANGED parkVars
            /\ \/ \E f \in Facts : Push(f)
               \/ PushCheck \/ PushDrop \/ PushSlot \/ PushHead
               \/ ObserveBegins \/ PopNone \/ PopSome \/ PopSlot \/ PopTail
               \/ LostSeen \/ LostClear \/ Unalarm
<1>1. CASE Core0Step
  BY <1>1 DEF Core0Step, ParkMoves, Core0Observe
<1>2. CASE Core1Step
  BY <1>2 DEF Core1Step, ParkMoves, Core1Push
<1> QED
  BY <1>1, <1>2 DEF Next

\* Every step keeps the invariant: one case per action.
LEMMA StepInv ==
  ASSUME FactsInv, [Next]_vars
  PROVE  FactsInv'
<1>1. ParkInv' /\ ParkTypeOK'
  BY StepIsParkStep, ParkStepInv DEF FactsInv, ParkInv
<1>2. TypeOK /\ ParkInv /\ Used \in Nat
  BY UsedIs DEF FactsInv
<1>3. ASSUME UNCHANGED <<head, tail>> PROVE Used' = Used
  BY <1>3 DEF Used
<1>4. CASE ParkMoves
  <2>1. UNCHANGED ringVars /\ Used' = Used
    BY <1>3, <1>4 DEF ParkMoves, ringVars
  <2>2. TypeOK'
    BY <1>1, <1>2, <2>1 DEF TypeOK, ringVars, Indices
  <2>3. push # "idle" => pc1' = pc1
    BY <1>4 DEF ParkMoves, ResetRequest, FlashQuiesce, LoopAgain, ParkSeen, FlashParkSeen,
                FlashRelease, FlashReleased
  <2>4. observe # "pass" => pc0' = "serve"
    BY <1>4 DEF FactsInv, ParkMoves, ParkSeen, FlashParkSeen, FlashRelease, FlashReleased,
                Core1Park, LotEnter, LotSpinEnds, LotLeave, LoopTop, FlashGate, RamSpinEnds,
                RamLeave, BusReturns
  <2> QED
    BY <1>1, <2>1, <2>2, <2>3, <2>4 DEF FactsInv, DropNotForgotten, ringVars, Slot
<1>5. CASE UNCHANGED vars
  <2>1. UNCHANGED ringVars /\ UNCHANGED parkVars /\ Used' = Used
    BY <1>3, <1>5 DEF vars, ringVars
  <2>2. TypeOK'
    BY <1>1, <1>2, <2>1 DEF TypeOK, ringVars, Indices
  <2> QED
    BY <1>1, <2>1, <2>2 DEF FactsInv, DropNotForgotten, ringVars, parkVars, Slot
<1>6. CASE Wipe /\ FactsReset
  <2>1. push = "idle" /\ observe = "pass"
    BY <1>2, <1>6 DEF FactsInv, Wipe, ParkInv, WipeExcludesCore1
  <2>2. 0 \in Indices
    BY SlotsAssumption DEF Indices
  <2>3. TypeOK'
    BY <1>1, <1>2, <1>6, <2>2 DEF TypeOK, FactsReset, Indices
  <2>4. Used' = 0
    BY <1>6, <2>2, DistanceIs, SlotsAssumption DEF Used, FactsReset, Indices
  <2> QED
    BY <1>1, <1>6, <2>1, <2>3, <2>4, SlotsAssumption DEF FactsInv, DropNotForgotten, FactsReset
<1>7. ASSUME UNCHANGED parkVars, NEW f \in Facts, Push(f) PROVE FactsInv'
  <2>1. Used' = Used
    BY <1>3, <1>7 DEF Push
  <2>2. TypeOK'
    BY <1>1, <1>2, <1>7 DEF TypeOK, Push, Indices
  <2> QED
    BY <1>1, <1>7, <2>1, <2>2 DEF FactsInv, DropNotForgotten, Push, parkVars, Slot
<1>8. CASE UNCHANGED parkVars /\ PushCheck
  <2>1. Used' = Used
    BY <1>3, <1>8 DEF PushCheck
  <2>2. TypeOK'
    BY <1>1, <1>2, <1>8 DEF TypeOK, PushCheck, Indices
  <2>3. DropNotForgotten'
    BY <1>8, Zenon DEF FactsInv, DropNotForgotten, PushCheck
  <2> QED
    BY <1>1, <1>2, <1>8, <2>1, <2>2, <2>3, SlotsAssumption
       DEF FactsInv, PushCheck, parkVars, Slot
<1>9. CASE UNCHANGED parkVars /\ PushDrop
  <2>1. Used' = Used
    BY <1>3, <1>9 DEF PushDrop
  <2>2. TypeOK'
    BY <1>1, <1>2, <1>9 DEF TypeOK, PushDrop, Indices
  <2> QED
    BY <1>1, <1>9, <2>1, <2>2 DEF FactsInv, DropNotForgotten, PushDrop, parkVars, Slot
<1>10. CASE UNCHANGED parkVars /\ PushSlot
  <2>1. Used' = Used
    BY <1>3, <1>10 DEF PushSlot
  <2>2. head \in Nat /\ Slot(head) \in 0..(Slots - 1) /\ Slot(tail) \in 0..(Slots - 1)
    BY <1>2, SlotWraps DEF TypeOK, Indices
  <2>3. TypeOK'
    BY <1>1, <1>2, <1>10, <2>2 DEF TypeOK, PushSlot, Indices
  <2>4. ring'[Slot(head)] = pushFact
    BY <1>2, <1>10, <2>2 DEF TypeOK, PushSlot
  <2>5. observe = "free" => ring'[Slot(tail)] = ring[Slot(tail)]
    <3>1. observe = "free" => Used # 0 /\ Used < Slots
      BY <1>2, <1>10, UsedIs DEF FactsInv, PushSlot
    <3>2. observe = "free" => Slot(tail + 0) # Slot(head)
      BY <1>2, <3>1, HeadSlotFree
    <3>3. tail + 0 = tail
      BY <1>2 DEF TypeOK, Indices
    <3> QED
      BY <1>2, <1>10, <2>2, <3>2, <3>3 DEF TypeOK, PushSlot
  <2>6. Slot(head)' = Slot(head) /\ Slot(tail)' = Slot(tail)
    BY <1>10 DEF PushSlot, Slot
  <2> QED
    BY <1>1, <1>10, <2>1, <2>3, <2>4, <2>5, <2>6
       DEF FactsInv, DropNotForgotten, PushSlot, parkVars
<1>11. CASE UNCHANGED parkVars /\ PushHead
  <2>1. head' \in Indices
    BY <1>2, <1>11, IncIs DEF TypeOK, PushHead
  <2>2. TypeOK'
    BY <1>1, <1>2, <1>11, <2>1 DEF TypeOK, PushHead, Indices
  <2>3. Used < Slots
    BY <1>11 DEF FactsInv, PushHead
  <2>4. Used' = Used + 1 /\ head' # tail
    <3>1. head' = Inc(head) /\ tail' = tail /\ head \in Indices /\ tail \in Indices
      BY <1>2, <1>11 DEF PushHead, TypeOK
    <3>2. (Inc(head) - tail) % IdxMod = ((head - tail) % IdxMod) + 1 /\ Inc(head) # tail
      BY <2>3, <3>1, DistanceGrows DEF Used
    <3> QED
      BY <3>1, <3>2 DEF Used
  <2>5. Slot(tail)' = Slot(tail)
    BY <1>11 DEF PushHead, Slot
  <2> QED
    BY <1>1, <1>2, <1>11, <2>2, <2>3, <2>4, <2>5, SlotsAssumption
       DEF FactsInv, DropNotForgotten, PushHead, parkVars
<1>12. CASE UNCHANGED parkVars /\ ObserveBegins
  <2>1. Used' = Used
    BY <1>3, <1>12 DEF ObserveBegins
  <2>2. TypeOK'
    BY <1>1, <1>2, <1>12 DEF TypeOK, ObserveBegins, Indices
  <2> QED
    BY <1>1, <1>12, <2>1, <2>2 DEF FactsInv, DropNotForgotten, ObserveBegins, parkVars, Slot
<1>13. CASE UNCHANGED parkVars /\ (PopNone \/ PopSome \/ PopSlot)
  <2>1. Used' = Used
    BY <1>3, <1>13 DEF PopNone, PopSome, PopSlot
  <2>2. tail \in Nat /\ Slot(tail) \in 0..(Slots - 1)
    BY <1>2, SlotWraps DEF TypeOK, Indices
  <2>3. TypeOK'
    BY <1>1, <1>2, <1>13, <2>2 DEF TypeOK, PopNone, PopSome, PopSlot, Indices
  <2> QED
    BY <1>1, <1>13, <2>1, <2>3
       DEF FactsInv, DropNotForgotten, PopNone, PopSome, PopSlot, parkVars, Slot
<1>14. CASE UNCHANGED parkVars /\ PopTail
  <2>1. tail' \in Indices
    BY <1>2, <1>14, IncIs DEF TypeOK, PopTail
  <2>2. TypeOK'
    BY <1>1, <1>2, <1>14, <2>1 DEF TypeOK, PopTail, Indices
  <2>3. Used' = Used - 1
    <3>1. tail' = Inc(tail) /\ head' = head /\ head \in Indices /\ tail \in Indices
      BY <1>2, <1>14 DEF PopTail, TypeOK
    <3>2. head # tail
      BY <1>14 DEF FactsInv, PopTail
    <3>3. (head - Inc(tail)) % IdxMod = ((head - tail) % IdxMod) - 1
      BY <3>1, <3>2, DistanceShrinks
    <3> QED
      BY <3>1, <3>3 DEF Used
  <2>4. Slot(head)' = Slot(head)
    BY <1>14 DEF PopTail, Slot
  <2> QED
    BY <1>1, <1>2, <1>14, <2>2, <2>3, <2>4, SlotsAssumption
       DEF FactsInv, DropNotForgotten, PopTail, parkVars
<1>15. CASE UNCHANGED parkVars /\ LostSeen
  <2>1. Used' = Used
    BY <1>3, <1>15 DEF LostSeen
  <2>2. TypeOK'
    BY <1>1, <1>2, <1>15 DEF TypeOK, LostSeen, Indices
  <2> QED
    BY <1>1, <1>2, <1>15, <2>1, <2>2
       DEF FactsInv, DropNotForgotten, LostSeen, parkVars, Slot, TypeOK
<1>16. CASE UNCHANGED parkVars /\ LostClear
  <2>1. Used' = Used
    BY <1>3, <1>16 DEF LostClear
  <2>2. TypeOK'
    BY <1>1, <1>2, <1>16 DEF TypeOK, LostClear, Indices
  <2> QED
    BY <1>1, <1>16, <2>1, <2>2 DEF FactsInv, DropNotForgotten, LostClear, parkVars, Slot
<1>17. CASE UNCHANGED parkVars /\ Unalarm
  <2>1. Used' = Used
    BY <1>3, <1>17 DEF Unalarm
  <2>2. TypeOK'
    BY <1>1, <1>2, <1>17 DEF TypeOK, Unalarm, Indices
  <2> QED
    BY <1>1, <1>17, <2>1, <2>2 DEF FactsInv, DropNotForgotten, Unalarm, parkVars, Slot
<1> QED
  BY <1>4, <1>5, <1>6, <1>7, <1>8, <1>9, <1>10, <1>11, <1>12, <1>13, <1>14, <1>15, <1>16,
     <1>17, StepCases

\* FactsInv holds in every reachable state.
LEMMA FactsInvariant == Spec => []FactsInv
<1>1. FactsInv /\ [Next]_vars => FactsInv'
  BY StepInv
<1> QED
  BY <1>1, InitInv, PTL DEF Spec

\* The indices stay within their width and the ring holds facts, for every
\* number of slots and every index width it divides.
THEOREM TypeCorrect == Spec => []TypeOK
<1>1. FactsInv => TypeOK
  BY DEF FactsInv
<1> QED
  BY <1>1, FactsInvariant, PTL

\* The park flags say where their writers are, with the fact ring in use.
THEOREM ParkHolds == Spec => []ParkInv
<1>1. FactsInv => ParkInv
  BY DEF FactsInv
<1> QED
  BY <1>1, FactsInvariant, PTL

\* Section A's unlocked wipe of the shared state never meets Core 1 in
\* processBus, core1FactPush included.
THEOREM WipeExcludes == Spec => []WipeExcludesCore1
<1>1. ParkInv => WipeExcludesCore1
  BY DEF ParkInv
<1> QED
  BY <1>1, ParkHolds, PTL

\* While Core 0 writes flash, Core 1 is in its RAM-resident spin.
THEOREM FlashExcludes == Spec => []FlashExcludesCore1
<1>1. ParkInv => FlashExcludesCore1
  BY DEF ParkInv
<1> QED
  BY <1>1, ParkHolds, PTL

\* core1FactPush never writes the slot core1FactPop is reading, and never laps
\* it, for every number of slots.
THEOREM SlotsAreOwned == Spec => []SlotNotShared
<1>1. FactsInv => SlotNotShared
  <2> SUFFICES ASSUME FactsInv PROVE SlotNotShared
    OBVIOUS
  <2>1. TypeOK /\ Used <= Slots
    BY DEF FactsInv
  <2>2. SUFFICES ASSUME push \in {"write", "publish"}, observe \in {"slot", "free"}
                 PROVE  Slot(head) # Slot(tail)
    BY <2>1 DEF SlotNotShared
  <2>3. Used < Slots /\ head # tail
    BY <2>2 DEF FactsInv
  <2>4. Used \in Nat /\ 0 < Used
    BY <2>1, <2>3, UsedIs
  <2>5. Slot(tail + 0) # Slot(head)
    BY <2>1, <2>3, <2>4, HeadSlotFree
  <2>6. tail + 0 = tail
    BY <2>1 DEF TypeOK, Indices
  <2> QED
    BY <2>5, <2>6
<1> QED
  BY <1>1, FactsInvariant, PTL

\* A fact dropped on a full ring leaves the lost flag or F_FACTS standing until
\* the operator has cleared it.
THEOREM DropsAreNoticed == Spec => []DropNotForgotten
<1>1. FactsInv => DropNotForgotten
  BY DEF FactsInv
<1> QED
  BY <1>1, FactsInvariant, PTL

-----------------------------------------------------------------------------
\* The queue the ring stands for is a sequence as long as the distance.
LEMMA QueueIs ==
  ASSUME TypeOK
  PROVE  /\ Queue \in Seq(Facts \cup {NoFact})
         /\ Len(Queue) = Used
         /\ \A i \in 1..Used : Queue[i] = ring[Slot(tail + i - 1)]
<1>1. Used \in Nat
  BY UsedIs
<1>2. ASSUME NEW i \in 1..Used PROVE ring[Slot(tail + i - 1)] \in Facts \cup {NoFact}
  <2>1. tail + i - 1 \in Nat
    BY <1>1 DEF TypeOK, Indices
  <2>2. Slot(tail + i - 1) \in 0..(Slots - 1)
    BY <2>1, SlotWraps
  <2> QED
    BY <2>2 DEF TypeOK
<1> QED
  BY <1>1, <1>2 DEF Queue

\* The empty ring is the empty queue.
LEMMA InitRefines == Init => Abstract!Init
<1> SUFFICES ASSUME Init PROVE Abstract!Init
  OBVIOUS
<1>1. TypeOK
  BY InitInv DEF FactsInv
<1>2. Used = 0
  BY <1>1, UsedIs DEF Init
<1>3. Queue = <<>>
  BY <1>1, <1>2, QueueIs
<1>4. (lost \/ push = "drop") = FALSE
  BY Zenon DEF Init
<1> QED
  BY <1>3, <1>4 DEF Init, Abstract!Init

\* A function that agrees with a sequence and has one element more.
LEMMA AppendIs ==
  ASSUME NEW S, NEW s \in Seq(S), NEW e \in S, NEW f,
         f = [i \in 1..(Len(s) + 1) |-> f[i]],
         \A i \in 1..Len(s) : f[i] = s[i],
         f[Len(s) + 1] = e
  PROVE  f = Append(s, e)
<1>1. /\ Append(s, e) \in Seq(S) /\ Len(Append(s, e)) = Len(s) + 1
      /\ \A i \in 1..Len(s) : Append(s, e)[i] = s[i]
      /\ Append(s, e)[Len(s) + 1] = e
  BY AppendProperties
<1>2. Len(s) \in Nat /\ Append(s, e) \in [1..(Len(s) + 1) -> S]
  BY <1>1, LenProperties
<1>3. \A i \in 1..(Len(s) + 1) : f[i] = Append(s, e)[i]
  BY <1>1, <1>2
<1> QED
  BY <1>2, <1>3

\* A function that agrees with a sequence from its second element on is its tail.
LEMMA TailIs ==
  ASSUME NEW S, NEW s \in Seq(S), s # <<>>, NEW f,
         f = [i \in 1..(Len(s) - 1) |-> f[i]],
         \A i \in 1..(Len(s) - 1) : f[i] = s[i + 1]
  PROVE  f = Tail(s)
<1>1. /\ Tail(s) \in Seq(S) /\ Len(Tail(s)) = Len(s) - 1
      /\ \A i \in 1..Len(Tail(s)) : Tail(s)[i] = s[i + 1]
  BY HeadTailProperties
<1>2. Tail(s) \in [1..(Len(s) - 1) -> S]
  BY <1>1, LenProperties
<1> QED
  BY <1>1, <1>2

\* Each step is a step of the queue or changes nothing of it: a fact is put when
\* the head moves, taken when the tail moves, and dropped when the test fails.
LEMMA StepRefines ==
  ASSUME FactsInv, [Next]_vars
  PROVE  [Abstract!Next]_Abstract!queueVars
<1> DEFINE Dropped == lost \/ push = "drop"
<1>1. TypeOK /\ Used \in Nat /\ Queue \in Seq(Facts \cup {NoFact}) /\ Len(Queue) = Used
  BY UsedIs, QueueIs DEF FactsInv
<1>2. ASSUME UNCHANGED <<ring, head, tail>> PROVE Queue' = Queue
  BY <1>2 DEF Queue, Used, Slot
<1>3. SUFFICES Abstract!Next \/ (Queue' = Queue /\ Dropped' = Dropped /\ fact' = fact)
  BY DEF Abstract!queueVars
<1>4. CASE ParkMoves \/ UNCHANGED vars
  BY <1>2, <1>4 DEF ParkMoves, vars, ringVars
<1>5. CASE Wipe /\ FactsReset
  <2>1. push = "idle"
    BY <1>5 DEF FactsInv, Wipe, ParkInv, WipeExcludesCore1
  <2>2. Used' = 0
    BY <1>5, DistanceIs, SlotsAssumption DEF Used, FactsReset, Indices
  <2>3. Queue' = <<>>
    BY <2>2 DEF Queue
  <2>4. Dropped' = FALSE
    BY <1>5, <2>1, Zenon DEF FactsReset
  <2>5. Abstract!Clear
    BY <1>5, <2>3, <2>4 DEF Abstract!Clear, FactsReset
  <2> QED
    BY <2>5 DEF Abstract!Next
<1>6. ASSUME NEW f \in Facts, Push(f) PROVE UNCHANGED <<Queue, Dropped, fact>>
  <2>1. Queue' = Queue /\ fact' = fact
    BY <1>2, <1>6 DEF Push
  <2>2. Dropped' = Dropped
    BY <1>6, Zenon DEF Push
  <2> QED
    BY <2>1, <2>2
<1>7. CASE PushCheck
  <2>1. Queue' = Queue /\ fact' = fact
    BY <1>2, <1>7 DEF PushCheck
  <2>2. CASE Used = Slots
    <3>1. Dropped' = TRUE
      BY <1>7, <2>2, Zenon DEF PushCheck
    <3>2. Abstract!Drop
      BY <1>1, <2>1, <2>2, <3>1 DEF Abstract!Drop
    <3> QED
      BY <3>2 DEF Abstract!Next
  <2>3. CASE Used # Slots
    <3>1. push = "check" /\ push' = "write" /\ lost' = lost
      BY <1>7, <2>3 DEF PushCheck
    <3>2. push' # "drop" /\ push # "drop"
      BY <3>1
    <3>3. Dropped' = Dropped
      BY <3>1, <3>2, Zenon
    <3> QED
      BY <2>1, <3>3
  <2> QED
    BY <2>2, <2>3
<1>8. CASE PushDrop
  <2>1. Queue' = Queue /\ fact' = fact
    BY <1>2, <1>8 DEF PushDrop
  <2>2. Dropped' = TRUE /\ Dropped = TRUE
    BY <1>8, Zenon DEF PushDrop
  <2> QED
    BY <2>1, <2>2
<1>9. CASE PushSlot
  <2>1. Used' = Used /\ tail' = tail /\ fact' = fact
    BY <1>9 DEF PushSlot, Used
  <2>2. ASSUME NEW i \in 1..Used PROVE ring'[Slot(tail + i - 1)] = ring[Slot(tail + i - 1)]
    <3>1. Used < Slots
      BY <1>9 DEF FactsInv, PushSlot
    <3>2. i - 1 \in Nat /\ i - 1 < Used /\ tail + (i - 1) = tail + i - 1 /\ tail + i - 1 \in Nat
      BY <1>1 DEF TypeOK, Indices
    <3>3. Slot(tail + (i - 1)) # Slot(head)
      BY <1>1, <3>1, <3>2, HeadSlotFree
    <3>4. Slot(tail + i - 1) # Slot(head)
      BY <3>2, <3>3
    <3>5. Slot(tail + i - 1) \in 0..(Slots - 1)
      BY <3>2, SlotWraps
    <3> QED
      BY <1>1, <1>9, <3>4, <3>5 DEF PushSlot, TypeOK
  <2>3. Queue' = Queue
    BY <2>1, <2>2 DEF Queue, Slot
  <2>4. push # "drop" /\ push' # "drop" /\ lost' = lost
    BY <1>9 DEF PushSlot
  <2>5. Dropped' = Dropped
    BY <2>4, Zenon
  <2> QED
    BY <2>1, <2>3, <2>5
<1>10. CASE PushHead
  <2>1. ring' = ring /\ tail' = tail /\ fact' = fact /\ lost' = lost /\ head' = Inc(head)
        /\ push = "publish" /\ push' = "idle"
    BY <1>10 DEF PushHead
  <2>2. Used < Slots /\ pushFact \in Facts /\ ring[Slot(head)] = pushFact
    BY <2>1 DEF FactsInv
  <2>3. Used' = Used + 1
    <3>1. (Inc(head) - tail) % IdxMod = ((head - tail) % IdxMod) + 1
      BY <1>1, <2>2, DistanceGrows DEF Used, TypeOK
    <3> QED
      BY <2>1, <3>1 DEF Used
  <2>4. Queue' = [i \in 1..(Used + 1) |-> ring[Slot(tail + i - 1)]]
    BY <2>1, <2>3 DEF Queue, Slot
  <2>5. ring[Slot(tail + (Used + 1) - 1)] = pushFact
    <3>1. tail + (Used + 1) - 1 = tail + Used
      BY <1>1 DEF TypeOK, Indices
    <3> QED
      BY <1>1, <2>2, <3>1, UsedIs
  <2>6. Queue' = Append(Queue, pushFact)
    <3>1. /\ Queue' = [i \in 1..(Len(Queue) + 1) |-> Queue'[i]]
          /\ Queue'[Len(Queue) + 1] = pushFact
      BY <1>1, <2>4, <2>5
    <3>2. \A i \in 1..Len(Queue) : Queue'[i] = Queue[i]
      BY <1>1, <2>4, QueueIs
    <3> QED
      BY <1>1, <2>2, <3>1, <3>2, AppendIs
  <2>7. Dropped' = Dropped
    <3>1. push # "drop" /\ push' # "drop"
      BY <2>1
    <3> QED
      BY <2>1, <3>1, Zenon
  <2>8. Abstract!Put(pushFact)
    BY <1>1, <2>1, <2>2, <2>6, <2>7 DEF Abstract!Put
  <2> QED
    BY <2>2, <2>8 DEF Abstract!Next
<1>11. CASE ObserveBegins \/ PopSome \/ PopSlot \/ LostSeen \/ Unalarm
  <2>1. Queue' = Queue /\ fact' = fact
    BY <1>2, <1>11 DEF ObserveBegins, PopSome, PopSlot, LostSeen, Unalarm
  <2>2. lost' = lost /\ push' = push
    BY <1>11 DEF ObserveBegins, PopSome, PopSlot, LostSeen, Unalarm
  <2>3. Dropped' = Dropped
    BY <2>2, Zenon
  <2> QED
    BY <2>1, <2>3
<1>12. CASE PopNone
  <2>1. Queue' = Queue
    BY <1>2, <1>12 DEF PopNone
  <2>2. Used = 0
    BY <1>1, <1>12, UsedIs DEF PopNone
  <2>3. Queue = <<>>
    BY <1>1, <2>2
  <2>4. lost' = lost /\ push' = push
    BY <1>12 DEF PopNone
  <2>5. Dropped' = Dropped
    BY <2>4, Zenon
  <2>6. Abstract!TakeNone
    BY <1>12, <2>1, <2>3, <2>5 DEF Abstract!TakeNone, PopNone
  <2> QED
    BY <2>6 DEF Abstract!Next
<1>13. CASE PopTail
  <2>1. /\ ring' = ring /\ head' = head /\ tail' = Inc(tail) /\ lost' = lost /\ push' = push
        /\ observe = "free" /\ fact' = popped
    BY <1>13 DEF PopTail
  <2>2. head # tail /\ popped = ring[Slot(tail)]
    BY <2>1 DEF FactsInv
  <2>3. Used > 0
    BY <1>1, <2>2, UsedIs
  <2>4. Used' = Used - 1
    <3>1. (head - Inc(tail)) % IdxMod = ((head - tail) % IdxMod) - 1
      BY <1>1, <2>2, DistanceShrinks DEF TypeOK
    <3> QED
      BY <2>1, <3>1 DEF Used
  <2>5. ASSUME NEW i \in 1..(Used - 1) PROVE Slot(Inc(tail) + i - 1) = Slot(tail + (i + 1) - 1)
    <3>1. tail \in Indices /\ i \in Nat /\ i > 0
      BY <1>1 DEF TypeOK
    <3>2. Inc(tail) = IF tail = IdxMod - 1 THEN 0 ELSE tail + 1
      BY <3>1, IncIs
    <3>3. CASE tail = IdxMod - 1
      <4>1. /\ Inc(tail) + i - 1 = i - 1 /\ tail + (i + 1) - 1 = (i - 1) + IdxMod
            /\ i - 1 \in Nat
        BY <3>1, <3>2, <3>3, SlotsAssumption DEF Indices
      <4> QED
        BY <4>1, SlotWraps
    <3>4. CASE tail # IdxMod - 1
      <4>1. Inc(tail) + i - 1 = tail + (i + 1) - 1
        BY <3>1, <3>2, <3>4 DEF Indices
      <4> QED
        BY <4>1
    <3> QED
      BY <3>3, <3>4
  <2>6. Queue' = [i \in 1..(Used - 1) |-> ring[Slot(Inc(tail) + i - 1)]]
    BY <2>1, <2>4 DEF Queue, Slot
  <2>7. ASSUME NEW i \in 1..(Used - 1) PROVE Queue[i + 1] = ring[Slot(tail + (i + 1) - 1)]
    <3>1. i + 1 \in 1..Used
      BY <1>1
    <3> QED
      BY <3>1 DEF Queue
  <2>8. Queue # <<>>
    BY <1>1, <2>3
  <2>9. Queue' = Tail(Queue)
    <3>1. Queue' = [i \in 1..(Len(Queue) - 1) |-> Queue'[i]]
      BY <1>1, <2>6
    <3>2. \A i \in 1..(Len(Queue) - 1) : Queue'[i] = Queue[i + 1]
      BY <1>1, <2>5, <2>6, <2>7
    <3> QED
      BY <1>1, <2>8, <3>1, <3>2, TailIs
  <2>10. Head(Queue) = ring[Slot(tail)]
    <3>1. 1 \in 1..Used /\ tail + 1 - 1 = tail
      BY <1>1, <2>3 DEF TypeOK, Indices
    <3>2. Queue[1] = ring[Slot(tail)]
      BY <3>1 DEF Queue
    <3> QED
      BY <1>1, <2>8, <3>2
  <2>11. Dropped' = Dropped
    BY <2>1, Zenon
  <2>12. Abstract!Take
    BY <2>1, <2>2, <2>8, <2>9, <2>10, <2>11 DEF Abstract!Take
  <2> QED
    BY <2>12 DEF Abstract!Next
<1>14. CASE LostClear
  <2>1. Queue' = Queue /\ fact' = fact /\ lost' = FALSE /\ push' = push
    BY <1>2, <1>14 DEF LostClear
  <2>2. CASE push = "drop"
    <3>1. Dropped' = TRUE /\ Dropped = TRUE
      BY <2>1, <2>2, Zenon
    <3> QED
      BY <2>1, <3>1
  <2>3. CASE push # "drop"
    <3>1. Dropped' = FALSE /\ Dropped = lost
      <4>1. lost \in BOOLEAN
        BY <1>1 DEF TypeOK
      <4> QED
        BY <2>1, <2>3, <4>1, Zenon
    <3>2. CASE lost
      <4>1. Abstract!NoticeDrop
        BY <2>1, <3>1, <3>2 DEF Abstract!NoticeDrop
      <4> QED
        BY <4>1 DEF Abstract!Next
    <3>3. CASE ~lost
      <4>1. lost = FALSE
        BY <1>1, <3>3 DEF TypeOK
      <4> QED
        BY <2>1, <3>1, <4>1
    <3> QED
      BY <3>2, <3>3
  <2> QED
    BY <2>2, <2>3
<1> QED
  BY <1>4, <1>5, <1>6, <1>7, <1>8, <1>9, <1>10, <1>11, <1>12, <1>13, <1>14, StepCases

\* The lock-free ring implements the bounded first-in first-out queue, for every
\* number of slots and every index width it divides: core1FactPop returns what
\* core1FactPush was given, each fact once and in order.
THEOREM Refinement == Spec => IsFactQueue
<1>1. FactsInv /\ [Next]_vars => [Abstract!Next]_Abstract!queueVars
  BY StepRefines
<1> QED
  BY <1>1, InitRefines, FactsInvariant, PTL DEF Spec, IsFactQueue, Abstract!Spec
=============================================================================
