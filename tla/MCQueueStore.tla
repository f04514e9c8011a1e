--------------------------- MODULE MCQueueStore ---------------------------
(* One document and two receipts under two sessions.                       *)
EXTENDS QueueHistory
=============================================================================
