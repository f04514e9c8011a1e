---------------------------- MODULE QueueStore ----------------------------
(***************************************************************************)
(* The durable queue of intern-core (crates/intern-core/src/store.rs) and  *)
(* the statements the pipeline's repository runs against the same tables   *)
(* (crates/intern-queue/src/pipeline.rs).                                  *)
(*                                                                         *)
(* One SQLite database is shared by every session that ever opened it.     *)
(* Each public operation is one immediate transaction, so each is one      *)
(* action.  Sessions call the operations in any order: what holds here     *)
(* holds whatever the callers above the store do.                          *)
(*                                                                         *)
(* Time is kept as timers that Tick runs down: row.lease is what is left   *)
(* of lease_expires_at, and quiet[s] how long ago heartbeat_at was         *)
(* written, saturated at LEASE_SECONDS.                                    *)
(***************************************************************************)
EXTENDS Naturals

CONSTANTS
  Session,        \* session ids, one per QueueStore ever opened
  NoSession,      \* owner_session IS NULL
  MaxItems,       \* bound on queue_items rows ever inserted
  MaxReceipts,    \* bound on operation_receipts rows ever inserted
  LEASE_SECONDS   \* the lease, in ticks

ASSUME NoSessionAssumption == NoSession \notin Session
ASSUME BoundsAssumption == MaxItems \in Nat /\ MaxReceipts \in Nat
ASSUME LeaseAssumption == LEASE_SECONDS \in Nat \ {0}

VARIABLES
  items,      \* queue_items by id
  receipts,   \* operation_receipts by id
  session,    \* the life of each session: no row, row and process, row only
  quiet       \* ticks since the session's heartbeat_at

storeVars == <<items, receipts, session, quiet>>

-----------------------------------------------------------------------------
(* Rows *)

Item == 1..MaxItems             \* AUTOINCREMENT: an id is never used twice
ReceiptId == 1..MaxReceipts
NULL == 0                       \* a receipt reference that IS NULL

Processing == {"extracting", "analyzing"}
Active == Processing \cup {"applying"}
Status == Active \cup {"queued", "ready", "needs_review", "failed",
                       "canceled", "completed"}
NoRow == {"absent", "deleted"}

ErrorCode == {"none", "DUPLICATE", "UPLOADER_UNVERIFIED",
              "SOURCE_DELETE_FAILED", "RECONCILIATION_REQUIRED", "OTHER"}

Direction == {"apply", "undo"}
Terminal == {"complete", "rolled_back"}
Unfinished == {"planned", "copied", "verified", "published",
               "rollback_required"}
Stage == Terminal \cup Unfinished

Row == [status   : Status \cup NoRow,
        failures : 0..2,
        error    : ErrorCode,
        owner    : Session \cup {NoSession},
        lease    : 0..LEASE_SECONDS,
        prev     : {"none", "ready", "completed"},
        active   : ReceiptId \cup {NULL},
        recon    : ReceiptId \cup {NULL},
        begun    : BOOLEAN]      \* applying_epoch > 0

Receipt == [item  : Item \cup {0},
            dir   : Direction,
            stage : Stage \cup NoRow]

EmptyRow == [status |-> "absent", failures |-> 0, error |-> "none",
             owner |-> NoSession, lease |-> 0, prev |-> "none",
             active |-> NULL, recon |-> NULL, begun |-> FALSE]

EmptyReceipt == [item |-> 0, dir |-> "apply", stage |-> "absent"]

\* QueueStatus::can_transition_to
CanTransition ==
       {"queued"} \X {"canceled", "needs_review"}
  \cup {"extracting"} \X {"analyzing", "needs_review", "queued", "failed", "canceled"}
  \cup {"analyzing"} \X {"ready", "needs_review", "queued", "failed", "canceled"}
  \cup {"ready"} \X {"canceled"}
  \cup {"needs_review"} \X {"ready", "canceled"}

\* OperationStage::can_advance_to
CanAdvance ==
       {p \in Stage \X Stage : p[1] = p[2]}
  \cup {"planned"} \X {"copied", "published", "rollback_required", "rolled_back"}
  \cup {"copied"} \X {"verified", "rollback_required"}
  \cup {"verified"} \X {"published", "rollback_required"}
  \cup {"published"} \X {"complete", "rollback_required"}
  \cup {"rollback_required"} \X {"rolled_back"}

\* The status an operation starts from, and the one it ends in.
StartOf(dir) == IF dir = "apply" THEN "ready" ELSE "completed"
EndOf(dir)   == IF dir = "apply" THEN "completed" ELSE "ready"

-----------------------------------------------------------------------------
(* What the statements test and set *)

HasRow(s) == session[s] \in {"open", "crashed"}

\* The process of s is running and may call the store.
Live(s) == session[s] = "open"

\* A slip in the one-document test: a document being filed is not counted.
NoOtherProcessing(i) == \A j \in Item \ {i} : items[j].status \notin Processing

NoOtherActive(i) == \A j \in Item \ {i} : items[j].status \notin Active

\* The two-factor takeover test: nobody owns the row, or the owner's session
\* is gone, or the lease is over and the owner has been silent as long.
OwnerIsDead(i) ==
  LET owner == items[i].owner IN
    owner # NoSession =>
      (HasRow(owner) => items[i].lease = 0 /\ quiet[owner] = LEASE_SECONDS)

NothingToClaim == \A i \in Item : items[i].status = "queued" => ~ NoOtherActive(i)

OwnsApplying(s, i) == items[i].status = "applying" /\ items[i].owner = s

\* The owned applying row whose active receipt is r.
Holds(s, i, r) ==
  /\ OwnsApplying(s, i)
  /\ items[i].active = r
  /\ receipts[r].item = i

touch_session(s) == quiet' = [quiet EXCEPT ![s] = 0]

Owned(row, s) == [row EXCEPT !.owner = s, !.lease = LEASE_SECONDS]
Disowned(row) == [row EXCEPT !.owner = NoSession, !.lease = 0]

\* The SET clause of every statement that ends an operation.
Settled(row, status) ==
  [Disowned(row) EXCEPT !.status = status, !.prev = "none", !.active = NULL,
                        !.recon = NULL, !.error = "none"]

\* A slip in Parked: the row still points at the operation it gave up.
ParkedStillActive(row, r, e) ==
  [Disowned(row) EXCEPT !.status = "needs_review", !.prev = "none",
                        !.recon = r, !.error = e]

\* The SET clause of both statements that hand an operation to a person.
Parked(row, r, e) ==
  [Disowned(row) EXCEPT !.status = "needs_review", !.prev = "none",
                        !.active = NULL, !.recon = r, !.error = e]

SetRow(i, row) == items' = [items EXCEPT ![i] = row]
SetStage(r, stage) == receipts' = [receipts EXCEPT ![r].stage = stage]

-----------------------------------------------------------------------------
(* Sessions *)

open(s) ==
  /\ session[s] = "unopened"
  /\ session' = [session EXCEPT ![s] = "open"]
  /\ touch_session(s)
  /\ UNCHANGED <<items, receipts>>

\* Drop deletes the session's row; ON DELETE SET NULL releases what it owned.
drop(s) ==
  /\ Live(s)
  /\ session' = [session EXCEPT ![s] = "closed"]
  /\ items' = [i \in Item |-> IF items[i].owner = s
                              THEN [items[i] EXCEPT !.owner = NoSession]
                              ELSE items[i]]
  /\ UNCHANGED <<receipts, quiet>>

\* The process ends without Drop: its row and what it owned stay as they are.
Crash(s) ==
  /\ Live(s)
  /\ session' = [session EXCEPT ![s] = "crashed"]
  /\ UNCHANGED <<items, receipts, quiet>>

Tick ==
  /\ items' = [i \in Item |-> IF items[i].lease > 0
                              THEN [items[i] EXCEPT !.lease = @ - 1]
                              ELSE items[i]]
  /\ quiet' = [s \in Session |-> IF HasRow(s) /\ quiet[s] < LEASE_SECONDS
                                 THEN quiet[s] + 1
                                 ELSE quiet[s]]
  /\ UNCHANGED <<receipts, session>>

-----------------------------------------------------------------------------
(* Processing *)

\* A path and hash already in the table insert nothing, which is a stutter.
enqueue(s, i) ==
  /\ Live(s)
  /\ items[i].status = "absent"
  /\ \A j \in Item : j < i => items[j].status # "absent"
  /\ SetRow(i, [EmptyRow EXCEPT !.status = "queued"])
  /\ UNCHANGED <<receipts, session, quiet>>

ClaimRow(s, i) ==
  SetRow(i, [Owned(items[i], s) EXCEPT !.status = "extracting", !.error = "none"])

claim_next(s, i) ==
  /\ Live(s)
  /\ items[i].status = "queued"
  /\ \A j \in Item : j < i => items[j].status # "queued"
  /\ NoOtherActive(i)
  /\ ClaimRow(s, i)
  /\ touch_session(s)
  /\ UNCHANGED <<receipts, session>>

\* A slip in claim_next_none: what found nothing is rolled back.
claim_next_noneRolledBack(s) ==
  /\ Live(s)
  /\ NothingToClaim
  /\ UNCHANGED storeVars

\* claim_next that finds nothing: the heartbeat is committed all the same.
claim_next_none(s) ==
  /\ Live(s)
  /\ NothingToClaim
  /\ touch_session(s)
  /\ UNCHANGED <<items, receipts, session>>

\* renew_lease is two statements, each committed by itself: the heartbeat,
\* and the lease of a row s still owns.  Once the first is through nobody
\* may take the row, so that both are one step, and this one is the first
\* alone: there was no such row, or the process ended between them.
renew_lease_refused(s) ==
  /\ Live(s)
  /\ touch_session(s)
  /\ UNCHANGED <<items, receipts, session>>

renew_lease(s, i) ==
  /\ Live(s)
  /\ items[i].owner = s
  /\ items[i].status \in Active
  /\ SetRow(i, Owned(items[i], s))
  /\ touch_session(s)
  /\ UNCHANGED <<receipts, session>>

renew_operation_lease(s, i, r, stage) ==
  /\ Live(s)
  /\ Holds(s, i, r)
  /\ receipts[r].stage = stage
  /\ SetRow(i, Owned(items[i], s))
  /\ touch_session(s)
  /\ UNCHANGED <<receipts, session>>

\* save_initial_and_transition is this one from "analyzing" with no error.
transition(s, i, expected, next, e) ==
  /\ Live(s)
  /\ <<expected, next>> \in CanTransition
  /\ items[i].status = expected
  /\ expected \in Active => items[i].owner = s
  /\ LET row == IF next \in Active THEN Owned(items[i], s) ELSE Disowned(items[i])
     IN  SetRow(i, [row EXCEPT !.status = next, !.error = e])
  /\ UNCHANGED <<receipts, session, quiet>>

\* Two slips in record_processing_failure: the row stays with its reader, and
\* it takes a third failure to fail.
record_processing_failureStillOwned(s, i) ==
  /\ Live(s)
  /\ items[i].status \in Processing
  /\ items[i].owner = s
  /\ LET failures == items[i].failures + 1
     IN  SetRow(i, [items[i] EXCEPT
                     !.status = IF failures >= 2 THEN "failed" ELSE "queued",
                     !.failures = failures,
                     !.error = "OTHER"])
  /\ UNCHANGED <<receipts, session, quiet>>

record_processing_failureAtThree(s, i) ==
  /\ Live(s)
  /\ items[i].status \in Processing
  /\ items[i].owner = s
  /\ LET failures == items[i].failures + 1
     IN  SetRow(i, [Disowned(items[i]) EXCEPT
                     !.status = IF failures > 2 THEN "failed" ELSE "queued",
                     !.failures = failures,
                     !.error = "OTHER"])
  /\ UNCHANGED <<receipts, session, quiet>>

record_processing_failure(s, i) ==
  /\ Live(s)
  /\ items[i].status \in Processing
  /\ items[i].owner = s
  /\ LET failures == items[i].failures + 1
     IN  SetRow(i, [Disowned(items[i]) EXCEPT
                     !.status = IF failures >= 2 THEN "failed" ELSE "queued",
                     !.failures = failures,
                     !.error = "OTHER"])
  /\ UNCHANGED <<receipts, session, quiet>>

\* A slip in record_recovered_failure: the row always goes back to the queue.
record_recovered_failureRequeueing(s, i) ==
  /\ Live(s)
  /\ items[i].status = "queued"
  /\ items[i].owner = NoSession
  /\ items[i].failures < 2
  /\ SetRow(i, [items[i] EXCEPT !.failures = @ + 1, !.error = "OTHER"])
  /\ UNCHANGED <<receipts, session, quiet>>

\* The pipeline's repository counts a failure against a row nobody owns.
record_recovered_failure(s, i) ==
  /\ Live(s)
  /\ items[i].status = "queued"
  /\ items[i].owner = NoSession
  /\ LET failures == items[i].failures + 1
     IN  SetRow(i, [items[i] EXCEPT
                     !.status = IF failures >= 2 THEN "failed" ELSE "queued",
                     !.failures = failures,
                     !.error = "OTHER"])
  /\ UNCHANGED <<receipts, session, quiet>>

Requeued(row) == [Disowned(row) EXCEPT !.status = "queued"]

\* A slip in recover_interrupted: only a session that closed cleanly is taken
\* from.
recover_interruptedUnowned(s) ==
  /\ Live(s)
  /\ \E i \in Item : items[i].status \in Processing /\ items[i].owner = NoSession
  /\ items' = [i \in Item |-> IF items[i].status \in Processing /\ items[i].owner = NoSession
                              THEN Requeued(items[i])
                              ELSE items[i]]
  /\ UNCHANGED <<receipts, session, quiet>>

recover_interrupted(s) ==
  /\ Live(s)
  /\ \E i \in Item : items[i].status \in Processing /\ OwnerIsDead(i)
  /\ items' = [i \in Item |-> IF items[i].status \in Processing /\ OwnerIsDead(i)
                              THEN Requeued(items[i])
                              ELSE items[i]]
  /\ UNCHANGED <<receipts, session, quiet>>

-----------------------------------------------------------------------------
(* A person's decisions *)

\* cas_status: compares the status alone and clears everything else.
cas_status(s, i, expected, next, reset) ==
  /\ Live(s)
  /\ items[i].status = expected
  /\ SetRow(i, [Settled(items[i], next) EXCEPT !.failures = IF reset THEN 0 ELSE @])
  /\ UNCHANGED <<receipts, session, quiet>>

manual_retry(s, i) == cas_status(s, i, "failed", "queued", TRUE)

complete_keep_original(s, i, expected) ==
  /\ expected \in {"ready", "needs_review"}
  /\ cas_status(s, i, expected, "completed", FALSE)

retry_duplicate(s, i) ==
  /\ items[i].error = "DUPLICATE"
  /\ cas_status(s, i, "needs_review", "queued", TRUE)

\* retry_unverified and retry_canceled leave the receipt references alone.
ReadAgain(s, i) ==
  /\ Live(s)
  /\ SetRow(i, [Requeued(items[i]) EXCEPT !.failures = 0, !.error = "none"])
  /\ UNCHANGED <<receipts, session, quiet>>

retry_unverified(s, i) ==
  /\ items[i].status = "needs_review"
  /\ items[i].error = "UPLOADER_UNVERIFIED"
  /\ ReadAgain(s, i)

retry_canceled(s, i) ==
  /\ items[i].status = "canceled"
  /\ ReadAgain(s, i)

mark_needs_review(s, i) ==
  /\ Live(s)
  /\ items[i].status = "ready"
  /\ SetRow(i, [items[i] EXCEPT !.status = "needs_review"])
  /\ UNCHANGED <<receipts, session, quiet>>

approve_user_edit(s, i, expected) ==
  /\ Live(s)
  /\ expected \in {"ready", "needs_review"}
  /\ items[i].status = expected
  /\ SetRow(i, [items[i] EXCEPT !.status = "ready", !.error = "none"])
  /\ UNCHANGED <<receipts, session, quiet>>

\* Rows in Gone are deleted, and their receipts with them (ON DELETE CASCADE).
DeleteRows(Gone) ==
  /\ items' = [i \in Item |-> IF i \in Gone
                              THEN [EmptyRow EXCEPT !.status = "deleted"]
                              ELSE items[i]]
  /\ receipts' = [r \in ReceiptId |-> IF receipts[r].item \in Gone
                                      THEN [EmptyReceipt EXCEPT !.stage = "deleted"]
                                      ELSE receipts[r]]
  /\ UNCHANGED <<session, quiet>>

WithStatus(S) == {i \in Item : items[i].status \in S}

clear_terminal(s) ==
  /\ Live(s)
  /\ WithStatus({"failed", "canceled", "completed"}) # {}
  /\ DeleteRows(WithStatus({"failed", "canceled", "completed"}))

discard_queued(s) ==
  /\ Live(s)
  /\ WithStatus({"queued"}) # {}
  /\ DeleteRows(WithStatus({"queued"}))

remove_item(s, i) ==
  /\ Live(s)
  /\ items[i].status \notin Active \cup NoRow
  /\ DeleteRows({i})

-----------------------------------------------------------------------------
(* Applying *)

begin_applying(s, i, expected) ==
  /\ Live(s)
  /\ expected \in {"ready", "completed"}
  /\ items[i].status = expected
  /\ items[i].active = NULL
  /\ NoOtherActive(i)
  /\ SetRow(i, [Owned(items[i], s) EXCEPT
                 !.status = "applying", !.prev = expected, !.active = NULL,
                 !.recon = NULL, !.begun = TRUE, !.error = "none"])
  /\ touch_session(s)
  /\ UNCHANGED <<receipts, session>>

HasUnfinishedReceipt(i) ==
  \E r \in ReceiptId : receipts[r].item = i /\ receipts[r].stage \in Unfinished

\* The id AUTOINCREMENT hands out next.
NextReceiptId(r) ==
  /\ receipts[r].stage = "absent"
  /\ \A q \in ReceiptId : q < r => receipts[q].stage # "absent"

BindReceipt(s, i, r, dir) ==
  /\ Live(s)
  /\ OwnsApplying(s, i)
  /\ items[i].active = NULL
  /\ items[i].prev = StartOf(dir)
  /\ NextReceiptId(r)
  /\ receipts' = [receipts EXCEPT ![r] = [item |-> i, dir |-> dir, stage |-> "planned"]]
  /\ SetRow(i, [items[i] EXCEPT !.active = r, !.lease = LEASE_SECONDS])
  /\ touch_session(s)
  /\ UNCHANGED session

\* A slip in create_receipt: an unfinished receipt does not stand in the way.
create_receiptBesideAnother(s, i, r, dir) == BindReceipt(s, i, r, dir)

create_receipt(s, i, r, dir) ==
  /\ ~ HasUnfinishedReceipt(i)
  /\ BindReceipt(s, i, r, dir)

\* A slip in update_receipt: the stage the caller read is not compared.
update_receiptWithoutStage(s, i, r, expected, next) ==
  /\ Live(s)
  /\ Holds(s, i, r)
  /\ <<expected, next>> \in CanAdvance
  /\ SetStage(r, next)
  /\ SetRow(i, [items[i] EXCEPT !.lease = LEASE_SECONDS])
  /\ touch_session(s)
  /\ UNCHANGED session

update_receipt(s, i, r, expected, next) ==
  /\ Live(s)
  /\ Holds(s, i, r)
  /\ <<expected, next>> \in CanAdvance
  /\ receipts[r].stage = expected
  /\ SetStage(r, next)
  /\ SetRow(i, [items[i] EXCEPT !.lease = LEASE_SECONDS])
  /\ touch_session(s)
  /\ UNCHANGED session

\* complete_apply and complete_undo.
finish_applying(s, i, r, dir) ==
  /\ Live(s)
  /\ Holds(s, i, r)
  /\ items[i].prev = StartOf(dir)
  /\ receipts[r].dir = dir
  /\ receipts[r].stage = "complete"
  /\ SetRow(i, Settled(items[i], EndOf(dir)))
  /\ touch_session(s)
  /\ UNCHANGED <<receipts, session>>

\* touch_session comes first in the transaction, so s is never silent itself.
claim_applying_reconciliation(s, i) ==
  /\ Live(s)
  /\ items[i].status = "applying"
  /\ items[i].owner # s
  /\ OwnerIsDead(i)
  /\ SetRow(i, Owned(items[i], s))
  /\ touch_session(s)
  /\ UNCHANGED <<receipts, session>>

resolve_reconciled_rollback(s, i, r, expected) ==
  /\ Live(s)
  /\ Holds(s, i, r)
  /\ expected \in {"planned", "copied", "verified", "rollback_required", "rolled_back"}
  /\ receipts[r].stage = expected
  /\ items[i].prev = StartOf(receipts[r].dir)
  /\ SetStage(r, "rolled_back")
  /\ SetRow(i, Settled(items[i], items[i].prev))
  /\ touch_session(s)
  /\ UNCHANGED session

resolve_empty_applying(s, i) ==
  /\ Live(s)
  /\ OwnsApplying(s, i)
  /\ items[i].active = NULL
  /\ items[i].begun
  /\ items[i].prev \in {"ready", "completed"}
  /\ SetRow(i, Settled(items[i], items[i].prev))
  /\ touch_session(s)
  /\ UNCHANGED <<receipts, session>>

resolve_verified_operation(s, i, r, expected) ==
  /\ Live(s)
  /\ Holds(s, i, r)
  /\ expected \in {"planned", "copied", "verified", "published", "complete"}
  /\ receipts[r].stage = expected
  /\ items[i].prev = StartOf(receipts[r].dir)
  /\ SetStage(r, "complete")
  /\ SetRow(i, Settled(items[i], EndOf(receipts[r].dir)))
  /\ touch_session(s)
  /\ UNCHANGED session

record_applying_rollback(s, i, r, e) ==
  /\ Live(s)
  /\ OwnsApplying(s, i)
  /\ items[i].active = r
  /\ SetRow(i, [Owned(items[i], s) EXCEPT !.recon = r, !.error = e])
  /\ touch_session(s)
  /\ UNCHANGED <<receipts, session>>

defer_published_reconciliation(s, i, r) ==
  /\ Live(s)
  /\ Holds(s, i, r)
  /\ receipts[r].dir = "apply"
  /\ receipts[r].stage = "published"
  /\ SetRow(i, Parked(items[i], r, "SOURCE_DELETE_FAILED"))
  /\ UNCHANGED <<receipts, session, quiet>>

park_applying_for_review(s, i, r, e) ==
  /\ Live(s)
  /\ OwnsApplying(s, i)
  /\ items[i].active = r
  /\ SetRow(i, Parked(items[i], r, e))
  /\ UNCHANGED <<receipts, session, quiet>>

\* A slip in claim_deferred_reconciliation: the status to return to is not
\* restored.
claim_deferredWithoutPrevious(s, i) ==
  LET r == items[i].recon IN
  /\ Live(s)
  /\ items[i].status = "needs_review"
  /\ items[i].error = "SOURCE_DELETE_FAILED"
  /\ r # NULL
  /\ receipts[r].item = i
  /\ receipts[r].dir = "apply"
  /\ receipts[r].stage = "published"
  /\ NoOtherActive(i)
  /\ SetRow(i, [Owned(items[i], s) EXCEPT !.status = "applying", !.active = r])
  /\ touch_session(s)
  /\ UNCHANGED <<receipts, session>>

claim_deferred_reconciliation(s, i) ==
  LET r == items[i].recon IN
  /\ Live(s)
  /\ items[i].status = "needs_review"
  /\ items[i].error = "SOURCE_DELETE_FAILED"
  /\ items[i].active = NULL
  /\ r # NULL
  /\ receipts[r].item = i
  /\ receipts[r].dir = "apply"
  /\ receipts[r].stage = "published"
  /\ NoOtherActive(i)
  /\ SetRow(i, [Owned(items[i], s) EXCEPT
                 !.status = "applying", !.prev = "ready", !.active = r])
  /\ touch_session(s)
  /\ UNCHANGED <<receipts, session>>

-----------------------------------------------------------------------------
Init ==
  /\ items = [i \in Item |-> EmptyRow]
  /\ receipts = [r \in ReceiptId |-> EmptyReceipt]
  /\ session = [s \in Session |-> "unopened"]
  /\ quiet = [s \in Session |-> 0]

\* The code the pipeline passes along with a transition.
ReviewErrors(expected, next) ==
  IF next # "needs_review" THEN {"none"}
  ELSE IF expected = "queued" THEN {"DUPLICATE"}
  ELSE {"none", "UPLOADER_UNVERIFIED"}

\* The only file error a statement of the store tells apart, and the rest.
FileErrors == {"SOURCE_DELETE_FAILED", "OTHER"}

Process(s, i) ==
  \/ claim_next(s, i)
  \/ renew_lease(s, i)
  \/ \E expected, next \in Status : \E e \in ReviewErrors(expected, next) :
       transition(s, i, expected, next, e)
  \/ record_processing_failure(s, i)
  \/ record_recovered_failure(s, i)

Decide(s, i) ==
  \/ enqueue(s, i)
  \/ manual_retry(s, i)
  \/ \E expected \in {"ready", "needs_review"} : complete_keep_original(s, i, expected)
  \/ retry_duplicate(s, i)
  \/ retry_unverified(s, i)
  \/ retry_canceled(s, i)
  \/ mark_needs_review(s, i)
  \/ \E expected \in {"ready", "needs_review"} : approve_user_edit(s, i, expected)
  \/ remove_item(s, i)

Apply(s, i) ==
  \/ \E expected \in {"ready", "completed"} : begin_applying(s, i, expected)
  \/ resolve_empty_applying(s, i)
  \/ claim_applying_reconciliation(s, i)
  \/ claim_deferred_reconciliation(s, i)

Journal(s, i, r) ==
  \/ \E dir \in Direction : create_receipt(s, i, r, dir)
  \/ \E stage \in Stage : renew_operation_lease(s, i, r, stage)
  \/ \E expected, next \in Stage : update_receipt(s, i, r, expected, next)
  \/ \E dir \in Direction : finish_applying(s, i, r, dir)
  \/ \E expected \in Stage : resolve_reconciled_rollback(s, i, r, expected)
  \/ \E expected \in Stage : resolve_verified_operation(s, i, r, expected)
  \/ \E e \in FileErrors : record_applying_rollback(s, i, r, e)
  \/ defer_published_reconciliation(s, i, r)
  \/ \E e \in FileErrors : park_applying_for_review(s, i, r, e)

\* Everything one session can do.
Step(s) ==
  \/ open(s)
  \/ drop(s)
  \/ Crash(s)
  \/ claim_next_none(s)
  \/ renew_lease_refused(s)
  \/ recover_interrupted(s)
  \/ clear_terminal(s)
  \/ discard_queued(s)
  \/ \E i \in Item : Process(s, i) \/ Decide(s, i) \/ Apply(s, i)
  \/ \E i \in Item, r \in ReceiptId : Journal(s, i, r)

Next == Tick \/ \E s \in Session : Step(s)

Spec == Init /\ [][Next]_storeVars

-----------------------------------------------------------------------------
(* What the store promises *)

\* Every column holds a value its type allows.
TypeOK ==
  /\ items \in [Item -> Row]
  /\ receipts \in [ReceiptId -> Receipt]
  /\ session \in [Session -> {"unopened", "open", "closed", "crashed"}]
  /\ quiet \in [Session -> 0..LEASE_SECONDS]

\* One document at a time: claim_next, begin_applying and
\* claim_deferred_reconciliation each look for another active row inside
\* their own transaction, so no two rows are ever active together, in
\* whatever order the sessions call them.
OneDocumentAtATime ==
  \A i, j \in Item : items[i].status \in Active /\ items[j].status \in Active => i = j

\* A row somebody owns is a row being worked on, and its owner has a row in
\* queue_sessions: no statement leaves an owner behind on a row at rest,
\* where the unowned-row tests of the person's commands would misread it.
OwnedRowsAreActive ==
  \A i \in Item : items[i].owner # NoSession =>
     items[i].status \in Active /\ HasRow(items[i].owner)

\* The newest receipt of an item, as load_receipt asks for it.
IsNewest(r, i) ==
  /\ receipts[r].item = i
  /\ \A q \in ReceiptId : receipts[q].item = i => q <= r

\* The journal is never ambiguous: an item has at most one unfinished
\* receipt, and it is the newest one.  This is what lets load_receipt
\* (newest by id) and load_active_receipt (by reference) be used for one
\* another, and what the unique index of migrate_legacy_schema assumes.
UnfinishedReceiptIsNewest ==
  \A r \in ReceiptId, i \in Item :
    receipts[r].item = i /\ receipts[r].stage \in Unfinished => IsNewest(r, i)

\* The receipt an applying row points at is its own newest receipt, and moves
\* the document the way the row's previous_status says.  A row that points
\* at another document's receipt, or at an older operation, would be settled
\* on the evidence of the wrong files.
ActiveReceiptIsTheOperation ==
  \A i \in Item : items[i].active # NULL =>
     /\ items[i].status = "applying"
     /\ IsNewest(items[i].active, i)
     /\ items[i].prev = StartOf(receipts[items[i].active].dir)

\* resolve_empty_applying can always settle an applying row without a
\* receipt: its status to return to is known and its epoch has begun.  An
\* applying row nothing can settle stops every other document.
EmptyApplyingCanBeResolved ==
  \A i \in Item : items[i].status = "applying" =>
     items[i].begun /\ items[i].prev \in {"ready", "completed"}

\* A document that has failed twice is not read a third time until a person
\* asks for it (record_processing_failure, record_recovered_failure).
NoThirdAttempt ==
  \A i \in Item : items[i].status \in {"queued"} \cup Processing => items[i].failures < 2

\* Receipts are numbered in the order they are written, and one that is not
\* there belongs to no document.
ReceiptsAreNumbered ==
  /\ \A q, r \in ReceiptId : q < r /\ receipts[r].stage # "absent" => receipts[q].stage # "absent"
  /\ \A r \in ReceiptId : receipts[r].stage \in NoRow => receipts[r].item = 0

\* A receipt belongs to a document that is there and has been applied.
ReceiptsHaveBegun ==
  \A r \in ReceiptId, i \in Item :
    receipts[r].item = i => items[i].begun /\ items[i].status \notin NoRow

\* The invariants above, together, are inductive with these two: the
\* numbering makes a receipt just written the newest of its document, and a
\* deferred document taken up by its receipt is known to have begun.
IInv ==
  /\ TypeOK
  /\ OneDocumentAtATime
  /\ OwnedRowsAreActive
  /\ ReceiptsAreNumbered
  /\ ReceiptsHaveBegun
  /\ UnfinishedReceiptIsNewest
  /\ ActiveReceiptIsTheOperation
  /\ EmptyApplyingCanBeResolved
  /\ NoThirdAttempt

\* A finished receipt is history: once complete or rolled back it never says
\* anything else, whichever session reconciles the item again.
FinishedReceiptsAreFinal ==
  [][\A r \in ReceiptId : receipts[r].stage \in Terminal =>
       receipts'[r].stage \in {receipts[r].stage, "deleted"}]_storeVars

Stranded(i) == items[i].status \in Processing /\ (items[i].owner = NoSession \/ ~ Live(items[i].owner))

\* A document whose reader died does not stay extracting or analyzing: while
\* some session is alive to run recovery, it goes back to the queue.
StrandedWorkIsRequeued ==
  \A i \in Item : Stranded(i) ~> (~ Stranded(i) \/ \A s \in Session : ~ Live(s))

-----------------------------------------------------------------------------
(* The queue is one lane to whoever looks at it *)

PhaseOf(row) ==
  CASE row.status \in Processing            -> "reading"
    [] row.status = "applying"              -> IF row.prev = "completed" THEN "unfiling" ELSE "filing"
    [] row.status = "needs_review"          -> IF row.error = "SOURCE_DELETE_FAILED" THEN "left" ELSE "review"
    [] row.status \in {"failed", "canceled"} -> "stopped"
    [] row.status = "completed"             -> "done"
    [] row.status = "queued"                -> "waiting"
    [] row.status = "absent"                -> "none"
    [] row.status = "deleted"               -> "gone"
    [] row.status = "ready"                 -> "ready"

Shown == [i \in Item |-> PhaseOf(items[i])]

Life == INSTANCE Lifecycle WITH Document <- Item, phase <- Shown

\* Whatever order the sessions' statements come in, the documents live as
\* the lifecycle has it: one of them in the lane, taken up from where the
\* work starts, and out of it only to where the work may end.  Recovery, a
\* deferred deletion and a removal between two steps of an operation would
\* each break it in their own way.
OneLane == Life!Spec
=============================================================================
