---------------------------- MODULE AtomicFiling ----------------------------
(***************************************************************************)
(* What filing a document is, to the person who asked for it: the document *)
(* is at its own name or at the one it was filed under, and Intern says    *)
(* which.  While an operation is under way, or was given up to a person,   *)
(* Intern says nothing and the document may move; what it does say is so.  *)
(***************************************************************************)

VARIABLES
  where,    \* where the document is
  belief    \* what Intern says about it

vars == <<where, belief>>

Place == {"orig", "filed"}

\* What is said of a document that is there.
Says(place) == IF place = "orig" THEN "unfiled" ELSE "filed"

Init ==
  /\ where = "orig"
  /\ belief = "unfiled"

\* An apply, an undo or a retried deletion takes the document up.
Begin ==
  /\ belief # "working"
  /\ belief' = "working"
  /\ UNCHANGED where

Move ==
  /\ belief \in {"working", "unsure"}
  /\ where' \in Place \ {where}
  /\ UNCHANGED belief

\* The operation completed or rolled back, and the belief is right.
Settle ==
  /\ belief = "working"
  /\ belief' = Says(where)
  /\ UNCHANGED where

\* The operation is left to a person, undecided.
GiveUp ==
  /\ belief = "working"
  /\ belief' = "unsure"
  /\ UNCHANGED where

Next == Begin \/ Move \/ Settle \/ GiveUp

Spec == Init /\ [][Next]_vars
=============================================================================
