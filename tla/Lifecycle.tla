----------------------------- MODULE Lifecycle -----------------------------
(***************************************************************************)
(* What the queue is to somebody who looks at it: each document is in one  *)
(* phase of its life, and there is one lane.  A document is in the lane    *)
(* while it is read, filed or unfiled; it enters the lane from the phase   *)
(* the work is for, and comes out where that work may end.                 *)
(***************************************************************************)

CONSTANT Document

VARIABLE phase

\* A document is done when it was filed or its name was kept, left when a
\* copy of it could not be deleted, stopped when it failed or was canceled.
Lane == {"reading", "filing", "unfiling"}
AtRest == {"none", "waiting", "ready", "review", "left", "done", "stopped", "gone"}
Phase == Lane \cup AtRest

Init == phase \in [Document -> AtRest]

Goes(d, from, to) == phase[d] \in from /\ \E p \in to : phase' = [phase EXCEPT ![d] = p]

LaneIsFree == \A d \in Document : phase[d] \notin Lane

Arrive(d) == Goes(d, {"none"}, {"waiting"})

TakeUp(d) ==
  /\ LaneIsFree
  /\ \/ Goes(d, {"waiting"}, {"reading"})
     \/ Goes(d, {"ready", "left"}, {"filing"})
     \/ Goes(d, {"done"}, {"unfiling"})

\* A reading gives the document back, or comes to an end.
EndReading(d) == Goes(d, {"reading"}, {"waiting", "ready", "review", "stopped"})

\* An operation is carried out, rolled back, or left to a person.
EndFiling(d) == Goes(d, {"filing", "unfiling"}, {"ready", "done", "review", "left"})

\* What a person, or the loop for a person, makes of a document at rest.  One
\* that is left is not read again before somebody has given it up.
Decide(d) ==
  \/ Goes(d, {"waiting"}, {"review", "stopped"})
  \/ Goes(d, {"ready"}, {"review", "done", "stopped"})
  \/ Goes(d, {"review"}, {"waiting", "ready", "done", "stopped"})
  \/ Goes(d, {"left"}, {"ready", "done", "stopped"})
  \/ Goes(d, {"stopped"}, {"waiting"})

Forget(Gone) ==
  /\ \A d \in Gone : phase[d] \in AtRest \ {"none", "gone"}
  /\ phase' = [d \in Document |-> IF d \in Gone THEN "gone" ELSE phase[d]]

Next ==
  \/ \E d \in Document : Arrive(d) \/ TakeUp(d) \/ EndReading(d) \/ EndFiling(d) \/ Decide(d)
  \/ \E Gone \in SUBSET Document : Forget(Gone)

Spec == Init /\ [][Next]_phase
=============================================================================
