----------------------------- MODULE MCSlotMap ------------------------------
(* SlotMap on a stepper, a vacuum node and two slots. *)
EXTENDS SlotMap
CONSTANTS a, b

\* The config's default head: both nodes, in order.
DefaultMap == [s \in Slots |-> IF s = 0 THEN a ELSE b]
=============================================================================
