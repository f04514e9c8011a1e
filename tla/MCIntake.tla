------------------------------ MODULE MCIntake ------------------------------
(* One document, and machines whose clocks disagree.                       *)
EXTENDS Intake, TLC

CONSTANTS m1, m2, m3

Clocks == [m \in Machine |-> IF m = m2 THEN 1 ELSE 0]
OneBehind == [m \in Machine |-> IF m = m3 THEN 0 ELSE 1]
=============================================================================
