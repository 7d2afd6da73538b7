------------------------------- MODULE MCLegs -------------------------------
(* Machines for TLC: a Z and an X, and the same with a rotary A *)
EXTENDS Legs
CONSTANTS z, x, a

ZX == <<z, x>>
ZA == <<z, a>>
ZThenRest == [n \in Nodes |-> IF n = z THEN 1 ELSE 2]
=============================================================================
