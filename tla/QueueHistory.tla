---------------------------- MODULE QueueHistory ----------------------------
(***************************************************************************)
(* The store of QueueStore with two history variables: when a document was *)
(* last worked on, and when a session was last heard from.  They record    *)
(* what the sessions did and not what the statements wrote, so that they   *)
(* say independently of lease_expires_at and heartbeat_at when a session   *)
(* may lose its work.  No statement reads them.                            *)
(***************************************************************************)
EXTENDS QueueStore

VARIABLES
  worked,  \* ticks since a statement on the document left it with its owner
  heard    \* ticks since the session last asked the queue for something

historyVars == <<worked, heard>>
hvars == <<storeVars, historyVars>>

-----------------------------------------------------------------------------
\* s goes on with document i: it claims it, reads it, applies it, or writes
\* its journal, and the document is still its own.
GoesOnWith(s, i) ==
  /\ items'[i].owner = s
  /\ Process(s, i) \/ Apply(s, i) \/ \E r \in ReceiptId : Journal(s, i, r)

\* s asks for work, whether or not there is any; or it renews a lease, whether
\* or not it still has one; or it goes on with an operation.
IsHeard(s) ==
  \/ open(s)
  \/ claim_next_none(s)
  \/ renew_lease_refused(s)
  \/ \E i \in Item :
       /\ items'[i].owner = s
       /\ \/ claim_next(s, i)
          \/ renew_lease(s, i)
          \/ Apply(s, i)
          \/ \E r \in ReceiptId : Journal(s, i, r)

Older(age) == IF age < LEASE_SECONDS THEN age + 1 ELSE age

HInit ==
  /\ Init
  /\ worked = [i \in Item |-> LEASE_SECONDS]
  /\ heard = [s \in Session |-> LEASE_SECONDS]

HTick ==
  /\ Tick
  /\ worked' = [i \in Item |-> Older(worked[i])]
  /\ heard' = [s \in Session |-> Older(heard[s])]

HStep(s) ==
  /\ Step(s)
  /\ worked' = [i \in Item |-> IF GoesOnWith(s, i) THEN 0 ELSE worked[i]]
  /\ heard' = [heard EXCEPT ![s] = IF IsHeard(s) THEN 0 ELSE @]

HNext == HTick \/ \E s \in Session : HStep(s)

HSpec == HInit /\ [][HNext]_hvars

\* A live session's scheduler comes back to recovery, and time passes.
HFairSpec ==
  /\ HSpec
  /\ WF_hvars(HTick)
  /\ \A s \in Session : WF_storeVars(recover_interrupted(s))

-----------------------------------------------------------------------------
\* A session loses a document it is working on by its own doing, or after a
\* whole lease in which it neither went on with the document nor was heard
\* from in any other way.  Asking for more work while it reads keeps a slow
\* session's document, although nothing renews the lease then: claim_next
\* commits its heartbeat when it finds nothing, and renew_lease when it is
\* refused.  Every statement has to have renewed what the takeover reads.
WorkIsLostOnlyInSilence ==
  [][\A i \in Item, s \in Session :
       items[i].owner = s /\ items'[i].owner # s =>
         Step(s) \/ (worked[i] = LEASE_SECONDS /\ heard[s] = LEASE_SECONDS)]_hvars
=============================================================================
