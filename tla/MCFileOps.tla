----------------------------- MODULE MCFileOps -----------------------------
(* One document under two processes, one after the other.                  *)
EXTENDS FileOps, TLC

CONSTANTS s1, s2

\* Nothing orders the sessions: ids are random.
Sessions == Permutations({s1, s2})
=============================================================================
