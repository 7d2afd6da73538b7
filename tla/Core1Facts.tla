----------------------------- MODULE Core1Facts -----------------------------
(***************************************************************************)
(* The facts Core 1 reports to Core 0 (ipc/core1_facts.cpp): a ring of     *)
(* Slots entries whose free-running head and tail wrap at IdxMod (2^8 in   *)
(* the code), written without a lock.  Core 1 pushes; Core 0's observer    *)
(* (core0/ops/observe.cpp) pops at the top of every pass and then looks at *)
(* the lost flag.  Each access to the shared words is a step of its own.   *)
(* The ring is emptied by a soft reset, under the handshake of CorePark.   *)
(***************************************************************************)
EXTENDS CorePark, Integers, Sequences

CONSTANTS Facts,      \* the reports, FACT_NONE excluded
          NoFact,     \* FACT_NONE
          Slots,      \* FACT_SLOTS
          IdxMod      \* the indices count modulo this

ASSUME SlotsAssumption ==
  /\ Slots \in Nat \ {0}
  /\ IdxMod \in Nat
  /\ IdxMod > Slots
  /\ IdxMod % Slots = 0

ASSUME FactsAssumption == NoFact \notin Facts /\ Facts # {}

VARIABLES
  ring, head, tail, lost,   \* the shared words
  push,                     \* where Core 1 is in core1FactPush
  pushFact,                 \* its argument
  observe,                  \* where Core 0 is in observeTick
  popped,                   \* the slot core1FactPop has read, until it returns
  fact,                     \* what core1FactPop returned last
  faultFacts,               \* F_FACTS is among the event faults
  unseenDrop                \* history: a push failed since F_FACTS was last clear

ringVars == <<ring, head, tail, lost, push, pushFact, observe, popped, fact,
              faultFacts, unseenDrop>>
vars == <<parkVars, ringVars>>

\* A slip: an index wider than the ring's.
IncUnwrapped(i) == i + 1

Inc(i)  == (i + 1) % IdxMod
Slot(i) == i % Slots
Used    == (head - tail) % IdxMod

Init ==
  /\ ParkInit
  /\ ring = [s \in 0..(Slots - 1) |-> NoFact]
  /\ head = 0 /\ tail = 0 /\ lost = FALSE
  /\ push = "idle" /\ pushFact = NoFact
  /\ observe = "pass" /\ popped = NoFact /\ fact = NoFact
  /\ faultFacts = FALSE /\ unseenDrop = FALSE

-----------------------------------------------------------------------------
(* Core 1: core1FactPush, from anywhere in processBus *)

Push(f) ==
  /\ pc1 = "bus" /\ push = "idle"
  /\ push' = "check" /\ pushFact' = f
  /\ UNCHANGED <<ring, head, tail, lost, observe, popped, fact, faultFacts, unseenDrop>>

\* A slip: the full test is off by one.
PushCheckLate ==
  /\ push = "check"
  /\ push' = IF Used = Slots + 1 THEN "drop" ELSE "write"
  /\ unseenDrop' = (unseenDrop \/ Used = Slots + 1)
  /\ UNCHANGED <<ring, head, tail, lost, pushFact, observe, popped, fact, faultFacts>>

\* The tail is read once; what Core 0 frees afterwards is not seen.
PushCheck ==
  /\ push = "check"
  /\ push' = IF Used = Slots THEN "drop" ELSE "write"
  /\ unseenDrop' = (unseenDrop \/ Used = Slots)
  /\ UNCHANGED <<ring, head, tail, lost, pushFact, observe, popped, fact, faultFacts>>

\* A slip: a push that finds no room does not say so.
PushDropSilent ==
  /\ push = "drop"
  /\ push' = "idle"
  /\ UNCHANGED <<ring, head, tail, lost, pushFact, observe, popped, fact,
                 faultFacts, unseenDrop>>

PushDrop ==
  /\ push = "drop"
  /\ lost' = TRUE
  /\ push' = "idle"
  /\ UNCHANGED <<ring, head, tail, pushFact, observe, popped, fact, faultFacts, unseenDrop>>

\* A slip: the head moves although nothing was written, and again afterwards.
PushSlotUnordered ==
  /\ push = "write"
  /\ head' = Inc(head)
  /\ push' = "publish"
  /\ UNCHANGED <<ring, tail, lost, pushFact, observe, popped, fact, faultFacts, unseenDrop>>

PushSlot ==
  /\ push = "write"
  /\ ring' = [ring EXCEPT ![Slot(head)] = pushFact]
  /\ push' = "publish"
  /\ UNCHANGED <<head, tail, lost, pushFact, observe, popped, fact, faultFacts, unseenDrop>>

PushHead ==
  /\ push = "publish"
  /\ head' = Inc(head)
  /\ push' = "idle"
  /\ UNCHANGED <<ring, tail, lost, pushFact, observe, popped, fact, faultFacts, unseenDrop>>

Core1Push == PushCheck \/ PushDrop \/ PushSlot \/ PushHead

-----------------------------------------------------------------------------
(* Core 0: observeTick, at the top of a pass *)

\* A slip: a pass that stands in a fault does not drain.
ObserveBeginsUnfaulted ==
  /\ pc0 = "serve" /\ observe = "pass" /\ ~soft_reset_requested /\ ~faultFacts
  /\ observe' = "pop"
  /\ UNCHANGED <<ring, head, tail, lost, push, pushFact, popped, fact, faultFacts, unseenDrop>>

ObserveBegins ==
  /\ pc0 = "serve" /\ observe = "pass" /\ ~soft_reset_requested
  /\ observe' = "pop"
  /\ UNCHANGED <<ring, head, tail, lost, push, pushFact, popped, fact, faultFacts, unseenDrop>>

\* core1FactPop finds tail = head: the drain is over.
PopNone ==
  /\ observe = "pop" /\ tail = head
  /\ fact' = NoFact
  /\ observe' = "lost"
  /\ UNCHANGED <<ring, head, tail, lost, push, pushFact, popped, faultFacts, unseenDrop>>

PopSome ==
  /\ observe = "pop" /\ tail # head
  /\ observe' = "slot"
  /\ UNCHANGED <<ring, head, tail, lost, push, pushFact, popped, fact, faultFacts, unseenDrop>>

PopSlot ==
  /\ observe = "slot"
  /\ popped' = ring[Slot(tail)]
  /\ observe' = "free"
  /\ UNCHANGED <<ring, head, tail, lost, push, pushFact, fact, faultFacts, unseenDrop>>

PopTail ==
  /\ observe = "free"
  /\ tail' = Inc(tail)
  /\ fact' = popped
  /\ popped' = NoFact
  /\ observe' = "pop"
  /\ UNCHANGED <<ring, head, lost, push, pushFact, faultFacts, unseenDrop>>

\* if (core1FactsLost()) factsLost(); faultSet(F_FACTS) comes first ...
LostSeen ==
  /\ observe = "lost"
  /\ observe' = IF lost THEN "clear" ELSE "pass"
  /\ faultFacts' = (faultFacts \/ lost)
  /\ UNCHANGED <<ring, head, tail, lost, push, pushFact, popped, fact, unseenDrop>>

\* ... and core1FactsLostClear after it: a drop in between is cleared unseen,
\* but F_FACTS stands.
LostClear ==
  /\ observe = "clear"
  /\ lost' = FALSE
  /\ observe' = "pass"
  /\ UNCHANGED <<ring, head, tail, push, pushFact, popped, fact, faultFacts, unseenDrop>>

Core0Observe == PopNone \/ PopSome \/ PopSlot \/ PopTail \/ LostSeen \/ LostClear

\* `unalarm`: the operator has seen the fault. A drop flagged but not yet
\* observed is still to come.
Unalarm ==
  /\ pc0 = "serve" /\ observe = "pass" /\ ~soft_reset_requested
  /\ faultFacts
  /\ faultFacts' = FALSE
  /\ unseenDrop' = (lost \/ push = "drop")
  /\ UNCHANGED <<ring, head, tail, lost, push, pushFact, observe, popped, fact>>

\* core1FactsReset and machineReset, in the wipe of a soft reset
FactsReset ==
  /\ head' = 0 /\ tail' = 0 /\ lost' = FALSE
  /\ faultFacts' = FALSE /\ unseenDrop' = FALSE
  /\ UNCHANGED <<ring, push, pushFact, observe, popped, fact>>

-----------------------------------------------------------------------------
Core0Step ==
  \/ (ObserveBegins \/ Core0Observe) /\ UNCHANGED parkVars
  \/ Unalarm /\ UNCHANGED parkVars
  \/ observe = "pass" /\ (ResetRequest \/ FlashQuiesce) /\ UNCHANGED ringVars
  \/ observe = "pass" /\ LoopAgain /\ UNCHANGED ringVars
  \/ (ParkSeen \/ FlashParkSeen \/ FlashRelease \/ FlashReleased) /\ UNCHANGED ringVars
  \/ Wipe /\ FactsReset

Core1Step ==
  \/ (\E f \in Facts : Push(f)) /\ UNCHANGED parkVars
  \/ Core1Push /\ UNCHANGED parkVars
  \/ push = "idle" /\ Core1Park /\ UNCHANGED ringVars

Next == Core0Step \/ Core1Step

\* Core 0's loop and Core 1's loop both keep running. A fact is not owed, and
\* neither is a command: only the passes and the code already begun are.
\* Strong for Core 1: processBus reports a bounded number of facts and returns.
\* Strong for a pass: a host that lets the input run dry ends processSerial.
Fairness ==
  /\ SF_vars(ObserveBegins /\ UNCHANGED parkVars)
  /\ WF_vars(Core0Observe /\ UNCHANGED parkVars)
  /\ WF_vars(observe = "pass" /\ LoopAgain /\ UNCHANGED ringVars)
  /\ WF_vars((ParkSeen \/ FlashParkSeen \/ FlashRelease \/ FlashReleased) /\ UNCHANGED ringVars)
  /\ WF_vars(Wipe /\ FactsReset)
  /\ WF_vars(Core1Push /\ UNCHANGED parkVars)
  /\ SF_vars(push = "idle" /\ Core1Park /\ UNCHANGED ringVars)

Spec == Init /\ [][Next]_vars
FairSpec == Spec /\ Fairness

-----------------------------------------------------------------------------
Indices == 0..(IdxMod - 1)

TypeOK ==
  /\ ParkTypeOK
  /\ ring \in [0..(Slots - 1) -> Facts \cup {NoFact}]
  /\ head \in Indices /\ tail \in Indices
  /\ lost \in BOOLEAN
  /\ push \in {"idle", "check", "drop", "write", "publish"}
  /\ pushFact \in Facts \cup {NoFact}
  /\ observe \in {"pass", "pop", "slot", "free", "lost", "clear"}
  /\ popped \in Facts \cup {NoFact}
  /\ fact \in Facts \cup {NoFact}
  /\ faultFacts \in BOOLEAN /\ unseenDrop \in BOOLEAN

\* Core 1 never writes the slot Core 0 is reading, and the head never laps the
\* tail: the lock-free ring has no data race on a slot (core1FactPush's full
\* test against core1FactPop's late tail write).
SlotNotShared ==
  /\ Used <= Slots
  /\ (push \in {"write", "publish"} /\ observe \in {"slot", "free"})
        => Slot(head) # Slot(tail)

\* A dropped fact cannot go unnoticed: from the failed push until the operator
\* clears it, the lost flag or F_FACTS stands, or the flag is about to be set,
\* although Core 0 clears the flag without a lock.
DropNotForgotten == unseenDrop => (lost \/ push = "drop" \/ faultFacts)

\* The facts between tail and head, oldest first: what the ring stands for.
Queue == [i \in 1..Used |-> ring[Slot(tail + i - 1)]]

\* A push refused is dropped when it has found the ring full.
Abstract == INSTANCE FactQueue WITH
              Room <- Slots, queue <- Queue,
              dropped <- (lost \/ push = "drop"), taken <- fact

\* The ring is a bounded FIFO: whatever the interleaving of the two cores,
\* core1FactPop returns the facts pushed, each once and in order, and a push
\* fails only when Slots facts are waiting.
IsFactQueue == Abstract!Spec

\* A waiting fact is popped, unless a soft reset drops it: the head of the queue
\* moves on under any stream of pushes.
FactsArePopped ==
  \A t \in Indices : (tail = t /\ head # t) ~> (tail # t \/ head = t)
=============================================================================
