----------------------------- MODULE FactQueue ------------------------------
(***************************************************************************)
(* What ipc/core1_facts.h promises: a bounded first-in first-out queue of  *)
(* facts between two cores, in which a fact that finds no room is dropped  *)
(* and the drop is flagged.                                                *)
(***************************************************************************)
EXTENDS Naturals, Sequences

CONSTANTS Facts,      \* what Core 1 may report
          NoFact,     \* FACT_NONE
          Room        \* facts the queue holds

VARIABLES queue,      \* facts reported and not yet taken, oldest first
          dropped,    \* a fact was dropped since Core 0 last took notice
          taken       \* what core1FactPop returned last

queueVars == <<queue, dropped, taken>>

Init == queue = <<>> /\ dropped = FALSE /\ taken = NoFact

Put(f) == /\ Len(queue) < Room
          /\ queue' = Append(queue, f)
          /\ UNCHANGED <<dropped, taken>>

Drop == /\ Len(queue) = Room
        /\ dropped' = TRUE
        /\ UNCHANGED <<queue, taken>>

Take == /\ queue # <<>>
        /\ taken' = Head(queue)
        /\ queue' = Tail(queue)
        /\ UNCHANGED dropped

TakeNone == /\ queue = <<>>
            /\ taken' = NoFact
            /\ UNCHANGED <<queue, dropped>>

NoticeDrop == dropped /\ dropped' = FALSE /\ UNCHANGED <<queue, taken>>

Clear == /\ queue' = <<>>
         /\ dropped' = FALSE
         /\ UNCHANGED taken

Next == \/ \E f \in Facts : Put(f)
        \/ Drop \/ Take \/ TakeNone \/ NoticeDrop \/ Clear

Spec == Init /\ [][Next]_queueVars
=============================================================================
