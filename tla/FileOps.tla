------------------------------ MODULE FileOps ------------------------------
(***************************************************************************)
(* One document's files, the durable journal of what is being done to      *)
(* them (crates/intern-core/src/file_ops.rs) and the threads of the app    *)
(* that file it, put it back and recover it                                *)
(* (crates/intern-queue/src/pipeline.rs).                                  *)
(*                                                                         *)
(* A thread's every write to the queue and every change to the disk is a   *)
(* step of its own, so the process may die, another program may act and    *)
(* another thread may run between any two of them.  One process runs at a  *)
(* time (the app is single-instance); each is a session of the store.      *)
(*                                                                         *)
(* Files are what Windows makes of them: lock_for_delete shares reading    *)
(* only, so a file held that way is neither written, renamed nor locked    *)
(* again, and a rename never replaces.                                     *)
(***************************************************************************)
EXTENDS QueueStore

CONSTANTS
  Kinds,        \* how the destination is reached: its volume is the source's or not
  AutoRename,   \* the automatic_rename setting
  Overlap,      \* whether a thread may start while another is working
  MaxFaults,    \* bound on calls to the disk or the database that fail
  MaxOthers     \* bound on what other programs do to the files

ASSUME FileAssumption ==
  /\ Kinds \subseteq {"rename", "copy"}
  /\ AutoRename \in BOOLEAN
  /\ Overlap \in BOOLEAN
  /\ MaxFaults \in Nat
  /\ MaxOthers \in Nat
  /\ MaxItems = 1

VARIABLES
  disk,       \* what is at each path
  copy,       \* what is at each receipt's temporary path
  detail,     \* the columns of operation_receipts that say which files
  thread,     \* where each thread of the running process is
  approved,   \* ProposalRecord.approved
  faults,     \* failures so far
  others      \* interferences so far

fileVars == <<disk, copy, detail, thread, approved, faults, others>>
vars == <<storeVars, fileVars>>

-----------------------------------------------------------------------------
D == 1                                   \* the document
Name == {"name", "name (2)"}             \* available_destination's candidates
Place == {"orig"} \cup Name
Content == {"none", "doc", "edited", "other"}
Document == {"doc", "edited"}            \* the person's document, hashed as enqueued or since edited
Copy == {"none", "part", "doc"}

Detail == [kind : {"rename", "copy"}, src : Place, dst : Place,
           temp : BOOLEAN,               \* temporary_exists
           differs : BOOLEAN]            \* post_operation_hash is known and is another
NoDetail == [kind |-> "rename", src |-> "orig", dst |-> "orig",
             temp |-> FALSE, differs |-> FALSE]

Thread == {"command", "scheduler"}
Job == {"none", "apply", "undo", "retry", "recover", "reclaimed"}

OperationStep == {"begin", "plan", "rename", "renamed", "check", "checked", "moveBack",
                  "movedBack", "copy", "copyFailed", "copied", "prove", "dropCopy",
                  "droppedCopy", "publish", "publishFailed", "publishedCopy",
                  "proveDestination", "fence", "delete", "deleted", "finish", "fail"}
ReconcileStep == {"examine", "cleanUp", "rollBack", "confirm", "catchUp", "refence",
                  "deleteSource", "park", "claim"}
Point == {"idle", "review", "report"} \cup OperationStep \cup ReconcileStep

State == [pc : Point, job : Job, r : ReceiptId \cup {NULL},
          seen : Stage \cup {"none"},    \* the stage reconciliation read
          err : ErrorCode]
Idle == [pc |-> "idle", job |-> "none", r |-> NULL, seen |-> "none", err |-> "none"]

Exists(p) == disk[p] # "none"
\* The handles each step of an operation or a reconciliation keeps open.
Held(t) ==
  LET pc == thread[t].pc
      d  == detail[thread[t].r]
  IN  CASE pc \in {"copy", "copyFailed", "copied", "prove", "dropCopy", "droppedCopy",
                   "publish", "publishFailed", "publishedCopy", "proveDestination",
                   "cleanUp", "rollBack"}                        -> {d.src}
        [] pc \in {"fence", "delete", "refence", "deleteSource"} -> {d.src, d.dst}
        [] pc \in {"checked", "confirm"}                         -> {d.dst}
        [] OTHER                                                 -> {}

Locked(p) == \E t \in Thread : p \in Held(t)

\* The newest receipt, as load_receipt reads it; NULL if there is none.
Newest ==
  LET mine == {r \in ReceiptId : receipts[r].item = D}
  IN  IF mine = {} THEN NULL ELSE CHOOSE r \in mine : \A q \in mine : q <= r

-----------------------------------------------------------------------------
(* What the steps are made of *)

At(t, pc) == thread[t].pc = pc
Goto(t, pc) == thread' = [thread EXCEPT ![t].pc = pc]
Begin(t, job, pc) == thread' = [thread EXCEPT ![t] = [Idle EXCEPT !.job = job, !.pc = pc]]
Stop(t) == thread' = [thread EXCEPT ![t] = Idle]
FailWith(t, e) == thread' = [thread EXCEPT ![t].pc = "fail", ![t].err = e]

\* A call that could have succeeded and does not.
Fault == faults < MaxFaults /\ faults' = faults + 1
NoFault == UNCHANGED faults

\* The call fails: by itself, or because it cannot succeed.
Fails(possible) == IF possible THEN Fault ELSE NoFault

\* After a reconciliation, settled or not: a recovery pass that did not
\* settle the row claims it and tries again, an apply reviews what is left,
\* and the others report.
Reconciled(t, settled) ==
  Goto(t, CASE thread[t].job = "recover" /\ ~ settled -> "claim"
            [] thread[t].job = "apply"                -> "review"
            [] OTHER                                  -> "report")

\* After an operation failed, or lost its row: apply_if_unchanged reconciles
\* at once, undo reports what the store says.
GaveUp(t) == Goto(t, IF thread[t].job = "apply" THEN "examine" ELSE "report")

Journaled(s, r, stage) == Holds(s, D, r) /\ receipts[r].stage = stage

\* update_receipt with the columns of detail, then the step that follows it;
\* refused, or failing, it is a reconciliation_error.
Write(t, s, expected, next, temp, differs, then) ==
  LET r == thread[t].r IN
  \/ /\ update_receipt(s, D, r, expected, next)
     /\ detail' = [detail EXCEPT ![r].temp = temp, ![r].differs = differs]
     /\ IF then = "fail" THEN FailWith(t, "OTHER") ELSE Goto(t, then)
     /\ NoFault
  \/ /\ Fails(Journaled(s, r, expected))
     /\ FailWith(t, "OTHER")
     /\ UNCHANGED <<storeVars, detail>>

\* A slip in rename_no_replace: it replaces.
CanMoveOver(t, p, q) == Exists(p) /\ \A u \in Thread \ {t} : p \notin Held(u)

\* rename_no_replace from p to q.  A rename may land and its answer be lost.
CanMove(t, p, q) == Exists(p) /\ ~ Exists(q) /\ \A u \in Thread \ {t} : p \notin Held(u)
Move(p, q) == disk' = [disk EXCEPT ![q] = disk[p], ![p] = "none"]
Rename(t, p, q, then) ==
  \/ /\ CanMove(t, p, q)
     /\ Move(p, q)
     /\ \/ Goto(t, then) /\ NoFault
        \/ FailWith(t, "OTHER") /\ Fault
  \/ /\ Fails(CanMove(t, p, q))
     /\ FailWith(t, "OTHER")
     /\ UNCHANGED disk

-----------------------------------------------------------------------------
(* An apply or an undo begins *)

FilesAreSettled == items[D].error \notin {"SOURCE_DELETE_FAILED", "RECONCILIATION_REQUIRED"}

\* A thread may take work up while the others are idle, or at any time.
Free(t) == At(t, "idle") /\ (Overlap \/ \A u \in Thread : At(u, "idle"))

\* Bound: an operation begins only while there is a receipt left for it.
ReceiptLeft == \E r \in ReceiptId : receipts[r].stage = "absent"

\* Pipeline::approve, up to the file operation.
approve(t, s) ==
  /\ t = "command" /\ Free(t) /\ ReceiptLeft
  /\ FilesAreSettled
  /\ \E expected \in {"ready", "needs_review"} : approve_user_edit(s, D, expected)
  /\ approved' = TRUE
  /\ Begin(t, "apply", "begin")
  /\ UNCHANGED <<disk, copy, detail, faults, others>>

\* The scheduler takes up a ready document.
apply_pending_ready(t, s) ==
  /\ t = "scheduler" /\ Free(t) /\ ReceiptLeft
  /\ items[D].status = "ready"
  /\ AutoRename \/ approved
  /\ Begin(t, "apply", "begin")
  /\ UNCHANGED <<storeVars, disk, copy, detail, approved, faults, others>>

\* mark_needs_review, or the row is no longer ready and it does nothing.
Review(s) ==
  \/ mark_needs_review(s, D) /\ approved' = FALSE
  \/ items[D].status # "ready" /\ UNCHANGED <<storeVars, approved>>

\* apply_if_unchanged: a changed source goes to review, a row taken by
\* something else defers the apply.
apply_if_unchanged(t, s) ==
  /\ At(t, "begin")
  /\ \/ /\ disk["orig"] = "doc"
        /\ \/ begin_applying(s, D, "ready") /\ Goto(t, "plan")
           \/ items[D].status # "ready" /\ Stop(t) /\ UNCHANGED storeVars
        /\ UNCHANGED <<approved, faults>>
     \/ /\ Fails(disk["orig"] = "doc")
        /\ Review(s)
        /\ Stop(t)
  /\ UNCHANGED <<disk, copy, detail, others>>

undo(t, s) ==
  /\ t = "command" /\ Free(t) /\ ReceiptLeft
  /\ Newest # NULL
  /\ begin_applying(s, D, "completed")
  /\ Begin(t, "undo", "plan")
  /\ UNCHANGED <<disk, copy, detail, approved, faults, others>>

\* retry of a deferred source deletion.
retry(t, s) ==
  /\ t = "command" /\ Free(t)
  /\ claim_deferred_reconciliation(s, D)
  /\ Begin(t, "retry", "examine")
  /\ UNCHANGED <<disk, copy, detail, approved, faults, others>>

keep_original(t, s) ==
  /\ t = "command" /\ Free(t)
  /\ FilesAreSettled
  /\ \E expected \in {"ready", "needs_review"} : complete_keep_original(s, D, expected)
  /\ UNCHANGED fileVars

\* recover, for the one document: it has something to do while it is applying.
recover(t, s) ==
  /\ t = "scheduler" /\ Free(t)
  /\ items[D].status = "applying"
  /\ Begin(t, "recover", "examine")
  /\ UNCHANGED <<storeVars, disk, copy, detail, approved, faults, others>>

-----------------------------------------------------------------------------
(* transfer *)

\* What undo asks of the receipt it was given, the newest one.
Undoable ==
  /\ Newest # NULL
  /\ receipts[Newest].dir = "apply"
  /\ receipts[Newest].stage = "complete"

\* available_destination, and the paths an undo goes between.
Destination == IF Exists("name") THEN "name (2)" ELSE "name"
From(job) == IF job = "apply" THEN "orig" ELSE detail[Newest].dst
To(job)   == IF job = "apply" THEN Destination ELSE detail[Newest].src

Ready(s, job, kind) ==
  /\ job = "undo" => Undoable
  /\ ~ Exists(To(job))
  /\ disk[From(job)] = "doc"
  /\ kind = "copy" => ~ Locked(From(job))
  /\ OwnsApplying(s, D) /\ items[D].active = NULL /\ ~ HasUnfinishedReceipt(D)

\* The checks of apply, undo and transfer, and planned_receipt.  A failure
\* here carries no receipt: the caller reconciles the empty operation.
plan(t, s) ==
  LET job == thread[t].job IN
  /\ At(t, "plan")
  /\ \E kind \in Kinds :
       \/ /\ Ready(s, job, kind)
          /\ \E r \in ReceiptId :
               /\ create_receipt(s, D, r, job)
               /\ detail' = [detail EXCEPT ![r] =
                    [kind |-> kind, src |-> From(job), dst |-> To(job),
                     temp |-> FALSE, differs |-> FALSE]]
               /\ thread' = [thread EXCEPT ![t].r = r, ![t].pc = kind]
          /\ NoFault
       \/ /\ Fails(Ready(s, job, kind))
          /\ Goto(t, "examine")
          /\ UNCHANGED <<storeVars, detail>>
  /\ UNCHANGED <<disk, copy, approved, others>>

\* reconciliation_error: a deletion that failed after publication is put off
\* for a person, anything else is noted on the applying row.
reconciliation_error(t, s) ==
  LET r == thread[t].r
      e == thread[t].err
      deferred == e = "SOURCE_DELETE_FAILED" /\ receipts[r].dir = "apply"
  IN  /\ At(t, "fail")
      /\ \/ /\ IF deferred THEN defer_published_reconciliation(s, D, r)
                           ELSE record_applying_rollback(s, D, r, e)
            /\ NoFault
         \/ /\ Fails(IF deferred THEN Journaled(s, r, "published")
                     ELSE OwnsApplying(s, D) /\ items[D].active = r)
            /\ UNCHANGED storeVars
      /\ GaveUp(t)
      /\ UNCHANGED <<disk, copy, detail, approved, others>>

\* complete_apply or complete_undo; refused, the row was taken meanwhile.
finish(t, s) ==
  LET r == thread[t].r IN
  /\ At(t, "finish")
  /\ \/ finish_applying(s, D, r, receipts[r].dir) /\ Goto(t, "report") /\ NoFault
     \/ /\ Fails(Journaled(s, r, "complete"))
        /\ GaveUp(t)
        /\ UNCHANGED storeVars
  /\ UNCHANGED <<disk, copy, detail, approved, others>>

-----------------------------------------------------------------------------
(* same_volume_transfer and rollback_after_rename *)

same_volume_transfer(t, s) ==
  LET d == detail[thread[t].r] IN
  \/ /\ At(t, "rename")
     /\ Rename(t, d.src, d.dst, "renamed")
     /\ UNCHANGED <<storeVars, copy, detail, approved, others>>
  \/ /\ At(t, "renamed")
     /\ Write(t, s, "planned", "published", FALSE, FALSE, "check")
     /\ UNCHANGED <<disk, copy, approved, others>>
  \/ /\ At(t, "check")                      \* the destination holds the document
     /\ disk[d.dst] = "doc" /\ ~ Locked(d.dst)
     /\ Goto(t, "checked")
     /\ UNCHANGED <<storeVars, disk, copy, detail, approved, faults, others>>
  \/ /\ At(t, "check")                      \* it cannot be locked
     /\ Fails(Exists(d.dst) /\ ~ Locked(d.dst))
     /\ FailWith(t, "OTHER")
     /\ UNCHANGED <<storeVars, disk, copy, detail, approved, others>>
  \/ /\ At(t, "check")                      \* it holds something else, or cannot be read
     /\ Exists(d.dst) /\ ~ Locked(d.dst)
     /\ \E differs \in {disk[d.dst] # "doc", FALSE} :
          Write(t, s, "published", "rollback_required", FALSE, differs, "moveBack")
     /\ UNCHANGED <<disk, copy, approved, others>>
  \/ /\ At(t, "checked")
     /\ Write(t, s, "published", "complete", FALSE, FALSE, "finish")
     /\ UNCHANGED <<disk, copy, approved, others>>
  \/ /\ At(t, "moveBack")
     /\ Rename(t, d.dst, d.src, "movedBack")
     /\ UNCHANGED <<storeVars, copy, detail, approved, others>>
  \/ /\ At(t, "movedBack")
     /\ Write(t, s, "rollback_required", "rolled_back", FALSE, d.differs, "fail")
     /\ UNCHANGED <<disk, copy, approved, others>>

-----------------------------------------------------------------------------
(* cross_volume_transfer and temp_failure *)

\* copy_new_locked: the temporary grows, then holds the whole document.  A
\* copy that fails deletes it by the same handle, or leaves it behind.
copy_new_locked(t) ==
  LET r == thread[t].r IN
  /\ At(t, "copy")
  /\ \/ copy[r] = "none" /\ copy' = [copy EXCEPT ![r] = "part"] /\ UNCHANGED thread /\ NoFault
     \/ copy[r] = "part" /\ copy' = [copy EXCEPT ![r] = "doc"] /\ Goto(t, "copied") /\ NoFault
     \/ copy' \in {copy, [copy EXCEPT ![r] = "none"]} /\ Goto(t, "copyFailed") /\ Fault
  /\ UNCHANGED <<storeVars, disk, detail, approved, others>>

\* temp_failure: the copy is deleted if the row is still held.
temp_failure(t, s) ==
  LET r == thread[t].r IN
  /\ At(t, "dropCopy")
  /\ \/ /\ renew_operation_lease(s, D, r, receipts[r].stage)
        /\ \/ copy' = [copy EXCEPT ![r] = "none"] /\ NoFault
           \/ UNCHANGED copy /\ Fault
        /\ Goto(t, "droppedCopy")
     \/ /\ Fails(Holds(s, D, r))
        /\ FailWith(t, "OTHER")
        /\ UNCHANGED <<storeVars, copy>>
  /\ UNCHANGED <<disk, detail, approved, others>>

\* The verified copy takes its name, unless the name was taken meanwhile.
publish(t) ==
  LET r == thread[t].r
      possible == copy[r] = "doc" /\ ~ Exists(detail[r].dst)
  IN  /\ At(t, "publish")
      /\ \/ /\ possible
            /\ disk' = [disk EXCEPT ![detail[r].dst] = copy[r]]
            /\ copy' = [copy EXCEPT ![r] = "none"]
            /\ \/ Goto(t, "publishedCopy") /\ NoFault
               \/ Goto(t, "publishFailed") /\ Fault
         \/ /\ Fails(possible)
            /\ Goto(t, "publishFailed")
            /\ UNCHANGED <<disk, copy>>
         \/ /\ Goto(t, "dropCopy")           \* the copy is not the file that was verified
            /\ Fault
            /\ UNCHANGED <<disk, copy>>
      /\ UNCHANGED <<storeVars, detail, approved, others>>

\* The fence before the source is deleted, and the deletion.
delete_source(t, s, fence, delete, then) ==
  LET r == thread[t].r
      d == detail[r]
  IN  \/ /\ At(t, fence)
         /\ \/ renew_operation_lease(s, D, r, "published") /\ Goto(t, delete) /\ NoFault
            \/ /\ Fails(Journaled(s, r, "published"))
               /\ UNCHANGED storeVars
               /\ thread' = [thread EXCEPT
                    ![t].pc = IF delete = "delete" THEN "fail" ELSE "park", ![t].err = "OTHER"]
         /\ UNCHANGED <<disk, copy, detail, approved, others>>
      \/ /\ At(t, delete)
         /\ \/ disk' = [disk EXCEPT ![d.src] = "none"] /\ Goto(t, then) /\ NoFault
            \/ /\ Fault
               /\ UNCHANGED disk
               /\ thread' = [thread EXCEPT
                    ![t].pc = IF delete = "delete" THEN "fail" ELSE "park",
                    ![t].err = "SOURCE_DELETE_FAILED"]
         /\ UNCHANGED <<storeVars, copy, detail, approved, others>>

cross_volume_transfer(t, s) ==
  LET r == thread[t].r
      d == detail[r]
  IN  \/ copy_new_locked(t)
      \/ /\ At(t, "copyFailed")
         /\ Write(t, s, "planned", "planned", copy[r] # "none", FALSE, "fail")
         /\ UNCHANGED <<disk, copy, approved, others>>
      \/ /\ At(t, "copied")
         /\ Write(t, s, "planned", "copied", TRUE, FALSE, "prove")
         /\ UNCHANGED <<disk, copy, approved, others>>
      \/ /\ At(t, "prove")
         /\ Write(t, s, "copied", "verified", TRUE, FALSE, "publish")
         /\ UNCHANGED <<disk, copy, approved, others>>
      \/ /\ At(t, "prove")                   \* the copy does not hash as its source
         /\ Goto(t, "dropCopy") /\ Fault
         /\ UNCHANGED <<storeVars, disk, copy, detail, approved, others>>
      \/ temp_failure(t, s)
      \/ /\ At(t, "droppedCopy")
         /\ Write(t, s, receipts[r].stage, receipts[r].stage, copy[r] # "none", FALSE, "fail")
         /\ UNCHANGED <<disk, copy, approved, others>>
      \/ publish(t)
      \/ /\ At(t, "publishFailed")
         /\ Write(t, s, "verified", "verified", copy[r] # "none", FALSE, "fail")
         /\ UNCHANGED <<disk, copy, approved, others>>
      \/ /\ At(t, "publishedCopy")
         /\ Write(t, s, "verified", "published", FALSE, FALSE, "proveDestination")
         /\ UNCHANGED <<disk, copy, approved, others>>
      \/ /\ At(t, "proveDestination")
         /\ disk[d.dst] = "doc" /\ ~ Locked(d.dst)
         /\ Write(t, s, "published", "published", FALSE, FALSE, "fence")
         /\ UNCHANGED <<disk, copy, approved, others>>
      \/ /\ At(t, "proveDestination")
         /\ disk[d.dst] \notin {"none", "doc"} /\ ~ Locked(d.dst)
         /\ Write(t, s, "published", "published", FALSE, TRUE, "fail")
         /\ UNCHANGED <<disk, copy, approved, others>>
      \/ /\ At(t, "proveDestination")
         /\ Fails(Exists(d.dst) /\ ~ Locked(d.dst))
         /\ FailWith(t, "OTHER")
         /\ UNCHANGED <<storeVars, disk, copy, detail, approved, others>>
      \/ delete_source(t, s, "fence", "delete", "deleted")
      \/ /\ At(t, "deleted")
         /\ Write(t, s, "published", "complete", FALSE, FALSE, "finish")
         /\ UNCHANGED <<disk, copy, approved, others>>

-----------------------------------------------------------------------------
(* reconcile *)

\* verify_reconciled_source and verify_reconciled_destination.
SourceIsIntact(d) == disk[d.src] = "doc" /\ ~ Locked(d.src)
DestinationIsIntact(d) == ~ d.differs /\ disk[d.dst] = "doc" /\ ~ Locked(d.dst)

To_(pc) == [pc |-> pc, err |-> "none"]
Park(e) == [pc |-> "park", err |-> e]
BackIf(intact) == IF intact THEN To_("cleanUp") ELSE Park("OTHER")
DoneIf(intact) == IF intact THEN To_("confirm") ELSE Park("OTHER")

reconcile_rolled_back(d) == IF Exists(d.dst) THEN Park("OTHER") ELSE BackIf(SourceIsIntact(d))
reconcile_complete(d) == IF Exists(d.src) THEN Park("OTHER") ELSE DoneIf(DestinationIsIntact(d))

\* A slip in reconcile_published: the destination is not proven first.
reconcile_publishedUnproven(d) ==
  IF ~ Exists(d.src) THEN To_("confirm")
  ELSE IF Locked(d.src) THEN Park("SOURCE_DELETE_FAILED")
  ELSE IF disk[d.src] # "doc" THEN Park("OTHER")
  ELSE To_("refence")

reconcile_published(d) ==
  IF ~ DestinationIsIntact(d) THEN Park("OTHER")
  ELSE IF ~ Exists(d.src) THEN To_("confirm")
  ELSE IF Locked(d.src) THEN Park("SOURCE_DELETE_FAILED")
  ELSE IF disk[d.src] # "doc" THEN Park("OTHER")
  ELSE To_("refence")

\* A slip in reconcile_incomplete: a source that is there is enough to say
\* that nothing moved.
reconcile_incompleteBySource(d, stage, temporary) ==
  CASE Exists(d.src) -> BackIf(SourceIsIntact(d))
    [] Exists(d.dst) -> DoneIf(DestinationIsIntact(d))
    [] OTHER         -> Park("RECONCILIATION_REQUIRED")

reconcile_incomplete(d, stage, temporary) ==
  CASE Exists(d.src) /\ ~ Exists(d.dst) -> BackIf(SourceIsIntact(d))
    [] ~ Exists(d.src) /\ Exists(d.dst) -> DoneIf(DestinationIsIntact(d))
    [] Exists(d.src) /\ Exists(d.dst) /\ d.kind = "copy" /\ stage = "verified"
         /\ temporary = "none"          ->
         IF DestinationIsIntact(d) THEN To_("catchUp") ELSE Park("OTHER")
    [] OTHER                            -> Park("RECONCILIATION_REQUIRED")

Verdict(r) ==
  LET d == detail[r]
      stage == receipts[r].stage
  IN  CASE stage = "rolled_back" -> reconcile_rolled_back(d)
        [] stage = "published"   -> reconcile_published(d)
        [] stage = "complete"    -> reconcile_complete(d)
        [] OTHER                 -> reconcile_incomplete(d, stage, copy[r])

\* A lock or a hash that fails where the verdict needed it.
Spoilt(verdict) ==
  IF verdict.pc = "refence" THEN {Park("OTHER"), Park("SOURCE_DELETE_FAILED")}
                            ELSE {Park("OTHER")}

\* reconcile without a receipt, and its reading of the files with one.
examine(t, s) ==
  LET r == items[D].active IN
  /\ At(t, "examine")
  /\ \/ /\ r = NULL
        /\ \/ resolve_empty_applying(s, D) /\ Reconciled(t, TRUE) /\ NoFault
           \/ /\ Fails(OwnsApplying(s, D))
              /\ Reconciled(t, FALSE)
              /\ UNCHANGED storeVars
     \/ /\ r # NULL
        /\ \E verdict \in {Verdict(r)} \cup Spoilt(Verdict(r)) :
             /\ thread' = [thread EXCEPT ![t].pc = verdict.pc, ![t].err = verdict.err,
                                         ![t].r = r, ![t].seen = receipts[r].stage]
             /\ IF verdict = Verdict(r) THEN NoFault ELSE Fault
        /\ UNCHANGED storeVars
  /\ UNCHANGED <<disk, copy, detail, approved, others>>

ParkWith(t, e) == thread' = [thread EXCEPT ![t].pc = "park", ![t].err = e]

\* A temporary that reached verified must still be the document; what an
\* unfinished copy left is deleted for what it is.
TemporaryIsOurs(t) == thread[t].seen \in {"planned", "copied"} \/ copy[thread[t].r] = "doc"

\* A slip in cleanup_reconciled_temporary: the column is asked, not the disk.
cleanup_reconciled_temporaryByColumn(t, s) ==
  LET r == thread[t].r IN
  /\ At(t, "cleanUp")
  /\ \/ /\ ~ detail[r].temp
        /\ Goto(t, "rollBack")
        /\ UNCHANGED <<storeVars, copy, faults>>
     \/ /\ detail[r].temp
        /\ renew_operation_lease(s, D, r, thread[t].seen)
        /\ copy' = [copy EXCEPT ![r] = "none"] /\ Goto(t, "rollBack") /\ NoFault
  /\ UNCHANGED <<disk, detail, approved, others>>

cleanup_reconciled_temporary(t, s) ==
  LET r == thread[t].r IN
  /\ At(t, "cleanUp")
  /\ \/ /\ \/ detail[r].kind = "rename"
           \/ copy[r] = "none" /\ ~ detail[r].temp
        /\ Goto(t, "rollBack")
        /\ UNCHANGED <<storeVars, copy, faults>>
     \/ /\ copy[r] = "none" /\ detail[r].temp
        /\ ParkWith(t, "OTHER")
        /\ UNCHANGED <<storeVars, copy, faults>>
     \/ /\ copy[r] # "none" /\ TemporaryIsOurs(t)
        /\ renew_operation_lease(s, D, r, thread[t].seen)
        /\ \/ copy' = [copy EXCEPT ![r] = "none"] /\ Goto(t, "rollBack") /\ NoFault
           \/ UNCHANGED copy /\ ParkWith(t, "SOURCE_DELETE_FAILED") /\ Fault
     \/ /\ copy[r] # "none"
        /\ Fails(TemporaryIsOurs(t) /\ Journaled(s, r, thread[t].seen))
        /\ ParkWith(t, "OTHER")
        /\ UNCHANGED <<storeVars, copy>>
  /\ UNCHANGED <<disk, detail, approved, others>>

\* The statement that settles the row, under the handle of the file it is
\* settled on.  A receipt that is to be rolled back is never settled as a
\* verified operation.
resolve(t, s) ==
  LET r == thread[t].r
      seen == thread[t].seen
  IN  /\ \/ /\ \/ At(t, "rollBack") /\ resolve_reconciled_rollback(s, D, r, seen)
               \/ At(t, "confirm") /\ resolve_verified_operation(s, D, r, seen)
            /\ Reconciled(t, TRUE)
            /\ NoFault
         \/ /\ At(t, "rollBack") \/ At(t, "confirm")
            /\ Fails(/\ Journaled(s, r, seen)
                     /\ At(t, "rollBack") \/ seen # "rollback_required")
            /\ Reconciled(t, FALSE)
            /\ UNCHANGED storeVars
      /\ UNCHANGED <<disk, copy, detail, approved, others>>

\* The journal catches up with a publication it is one write behind.
catch_up(t, s) ==
  LET r == thread[t].r IN
  /\ At(t, "catchUp")
  /\ \/ /\ update_receipt(s, D, r, "verified", "published")
        /\ detail' = [detail EXCEPT ![r].temp = FALSE]
        /\ Goto(t, "examine")
        /\ NoFault
     \/ /\ Fails(Journaled(s, r, "verified"))
        /\ ParkWith(t, "OTHER")
        /\ UNCHANGED <<storeVars, detail>>
  /\ UNCHANGED <<disk, copy, approved, others>>

\* A slip in park_unsettled: a row nobody can decide about stays applying.
park_unsettledOnceDecided(t, s) ==
  LET r == thread[t].r IN
  /\ At(t, "park")
  /\ \/ /\ thread[t].err # "RECONCILIATION_REQUIRED"
        /\ park_applying_for_review(s, D, r, thread[t].err) /\ NoFault
     \/ /\ Fails(/\ thread[t].err # "RECONCILIATION_REQUIRED"
                 /\ OwnsApplying(s, D) /\ items[D].active = r)
        /\ UNCHANGED storeVars
  /\ Reconciled(t, FALSE)
  /\ UNCHANGED <<disk, copy, detail, approved, others>>

\* park_unsettled: refused once the row has moved or is not this session's.
park_unsettled(t, s) ==
  LET r == thread[t].r IN
  /\ At(t, "park")
  /\ \/ park_applying_for_review(s, D, r, thread[t].err) /\ NoFault
     \/ /\ Fails(OwnsApplying(s, D) /\ items[D].active = r)
        /\ UNCHANGED storeVars
  /\ Reconciled(t, FALSE)
  /\ UNCHANGED <<disk, copy, detail, approved, others>>

\* recover's second attempt, once the session that owned the row is dead.
claim(t, s) ==
  /\ At(t, "claim")
  /\ \/ /\ claim_applying_reconciliation(s, D)
        /\ thread' = [thread EXCEPT ![t].pc = "examine", ![t].job = "reclaimed"]
     \/ /\ ~ (items[D].status = "applying" /\ items[D].owner # s /\ OwnerIsDead(D))
        /\ Goto(t, "report")
        /\ UNCHANGED storeVars
  /\ UNCHANGED <<disk, copy, detail, approved, faults, others>>

reconcile(t, s) ==
  \/ examine(t, s)
  \/ cleanup_reconciled_temporary(t, s)
  \/ resolve(t, s)
  \/ catch_up(t, s)
  \/ delete_source(t, s, "refence", "deleteSource", "confirm")
  \/ park_unsettled(t, s)
  \/ claim(t, s)

-----------------------------------------------------------------------------
(* After an operation or a reconciliation *)

\* What is left of a failed apply: a ready document goes to review.
review(t, s) ==
  /\ At(t, "review")
  /\ \/ /\ items[D].status = "ready"
        /\ \/ mark_needs_review(s, D) /\ approved' = FALSE /\ NoFault
           \/ UNCHANGED <<storeVars, approved>> /\ Fault
        /\ Stop(t)
     \/ /\ items[D].status # "ready"
        /\ Goto(t, "report")
        /\ UNCHANGED <<storeVars, approved, faults>>
  /\ UNCHANGED <<disk, copy, detail, others>>

\* report_settled: a document that was put back waits for a person.
WasUndone ==
  /\ Newest # NULL
  /\ receipts[Newest].stage = "complete"
  /\ receipts[Newest].dir = "undo"

report_settled(t, s) ==
  /\ At(t, "report")
  /\ \/ /\ WasUndone /\ items[D].status = "ready"
        /\ \/ mark_needs_review(s, D) /\ approved' = FALSE /\ NoFault
           \/ UNCHANGED <<storeVars, approved>> /\ Fault
     \/ /\ ~ (WasUndone /\ items[D].status = "ready")
        /\ UNCHANGED <<storeVars, approved, faults>>
  /\ Stop(t)
  /\ UNCHANGED <<disk, copy, detail, others>>

-----------------------------------------------------------------------------
(* The process, time, and other programs *)

\* The app is single-instance: a session opens when none is live.
Start(s) ==
  /\ \A q \in Session : ~ Live(q)
  /\ open(s)
  /\ UNCHANGED fileVars

Quit(s) ==
  /\ \A t \in Thread : At(t, "idle")
  /\ drop(s)
  /\ UNCHANGED fileVars

\* The process dies: its threads and their handles go with it.
Die(s) ==
  /\ Crash(s)
  /\ thread' = [t \in Thread |-> Idle]
  /\ UNCHANGED <<disk, copy, detail, approved, faults, others>>

\* Bound: time matters only while a dead session still owns the row.
Pass ==
  /\ items[D].owner # NoSession /\ ~ Live(items[D].owner)
  /\ ~ OwnerIsDead(D)
  /\ Tick
  /\ UNCHANGED fileVars

Interfere == others < MaxOthers /\ others' = others + 1

\* Another program puts a file of its own at a free path.
Occupy(p) ==
  /\ Interfere
  /\ ~ Exists(p)
  /\ disk' = [disk EXCEPT ![p] = "other"]
  /\ UNCHANGED <<storeVars, copy, detail, thread, approved, faults>>

\* A person changes the document.
Edit(p) ==
  /\ Interfere
  /\ disk[p] = "doc" /\ ~ Locked(p)
  /\ disk' = [disk EXCEPT ![p] = "edited"]
  /\ UNCHANGED <<storeVars, copy, detail, thread, approved, faults>>

\* A person deletes one of two copies.
Discard(p) ==
  /\ Interfere
  /\ disk[p] \in Document /\ ~ Locked(p)
  /\ \E q \in Place \ {p} : disk[q] \in Document
  /\ disk' = [disk EXCEPT ![p] = "none"]
  /\ UNCHANGED <<storeVars, copy, detail, thread, approved, faults>>

-----------------------------------------------------------------------------
FileInit ==
  /\ items = [i \in Item |-> [EmptyRow EXCEPT !.status = "ready"]]
  /\ receipts = [r \in ReceiptId |-> EmptyReceipt]
  /\ session = [s \in Session |-> "unopened"]
  /\ quiet = [s \in Session |-> 0]
  /\ disk = [p \in Place |-> IF p = "orig" THEN "doc" ELSE "none"]
  /\ copy = [r \in ReceiptId |-> "none"]
  /\ detail = [r \in ReceiptId |-> NoDetail]
  /\ thread = [t \in Thread |-> Idle]
  /\ approved = FALSE
  /\ faults = 0
  /\ others = 0

\* A thread takes up work.
TakeUp(t, s) ==
  \/ approve(t, s)
  \/ undo(t, s)
  \/ retry(t, s)
  \/ keep_original(t, s)
  \/ apply_pending_ready(t, s)

\* A thread goes on with it.
GoOn(t, s) ==
  /\ Live(s)
  /\ \/ apply_if_unchanged(t, s)
     \/ plan(t, s)
     \/ same_volume_transfer(t, s)
     \/ cross_volume_transfer(t, s)
     \/ reconciliation_error(t, s)
     \/ finish(t, s)
     \/ reconcile(t, s)
     \/ review(t, s)
     \/ report_settled(t, s)

Recover(t, s) == Live(s) /\ recover(t, s)

FileNext ==
  \/ \E t \in Thread, s \in Session :
       (Live(s) /\ TakeUp(t, s)) \/ GoOn(t, s) \/ Recover(t, s)
  \/ \E s \in Session : Start(s) \/ Quit(s) \/ Die(s)
  \/ Pass
  \/ \E p \in Place : Occupy(p) \/ Edit(p) \/ Discard(p)

FileSpec == FileInit /\ [][FileNext]_vars

\* A thread goes on with its work, the scheduler comes back to recovery on
\* every wake, and time passes.
FileFairSpec ==
  /\ FileSpec
  /\ \A t \in Thread, s \in Session : WF_vars(GoOn(t, s)) /\ WF_vars(Recover(t, s))
  /\ WF_vars(Pass)

-----------------------------------------------------------------------------
(* What filing promises *)

\* Every variable holds a value its type allows; a thread that is not idle
\* belongs to a process that runs.
FileTypeOK ==
  /\ TypeOK
  /\ disk \in [Place -> Content]
  /\ copy \in [ReceiptId -> Copy]
  /\ detail \in [ReceiptId -> Detail]
  /\ thread \in [Thread -> State]
  /\ approved \in BOOLEAN
  /\ (\E t \in Thread : ~ At(t, "idle")) => \E s \in Session : Live(s)

\* The person's document is never lost: whatever fails, whoever dies, and
\* whichever of two copies somebody else deletes, a whole one is at a path a
\* person can see.  A temporary copy does not count.
DocumentIsKept == \E p \in Place : disk[p] \in Document

\* Nothing of anybody else's is moved, replaced or deleted, and what a person
\* wrote into the document survives every operation on it.
OthersFilesAreUntouched ==
  [][/\ \A p \in Place : disk[p] = "other" => disk'[p] = "other"
     /\ (\E p \in Place : disk[p] = "edited") /\ others' = others
          => \E p \in Place : disk'[p] = "edited"]_vars

\* Where the journal says the document is, once no operation is under way.
SettledSource(r) == IF receipts[r].stage = "complete" THEN detail[r].dst ELSE detail[r].src
SettledOther(r)  == IF receipts[r].stage = "complete" THEN detail[r].src ELSE detail[r].dst

\* A finished operation tells the truth: outside applying, a complete receipt
\* means the document is at its destination and gone from its source, and a
\* rolled-back one the other way round.  The row's status, the history the
\* window shows and the next undo all rest on it.
SettledAgreesWithDisk ==
  Newest # NULL /\ receipts[Newest].stage \in Terminal /\ items[D].status # "applying" =>
    /\ disk[SettledSource(Newest)] \in Document
    /\ disk[SettledOther(Newest)] \notin Document

\* A receipt is finished only when its temporary copy is gone: nothing else
\* would ever delete it, and the destination is a watched folder.
FinishedLeavesNoTemporary ==
  \A r \in ReceiptId : receipts[r].stage \in Terminal => copy[r] = "none"

\* The one receipt no recovery can settle: to be rolled back, by a hash that
\* could not be read, with the document whole at its destination only.
\* reconcile_incomplete finds it there and asks resolve_verified_operation,
\* which does not take a receipt at that stage (store.rs:675-687).
Stuck ==
  LET r == items[D].active
      d == detail[r]
  IN  /\ r # NULL /\ receipts[r].stage = "rollback_required"
      /\ d.kind = "rename" /\ ~ d.differs
      /\ disk[d.src] = "none" /\ disk[d.dst] = "doc"
      /\ \A t \in Thread : At(t, "idle")

\* An applying document, which holds up every other one, does not stay so
\* while a process is alive to recover it: it is settled, or parked in front
\* of a person, unless it is Stuck.
ApplyingIsLeft ==
  items[D].status = "applying" ~>
    (items[D].status # "applying" \/ Stuck \/ \A s \in Session : ~ Live(s))

-----------------------------------------------------------------------------
(* Filing is atomic to the person who asked for it *)

Where == IF disk["orig"] \in Document THEN "orig" ELSE "filed"

\* What the queue and its journal say of the document.
Belief ==
  IF items[D].status = "applying" THEN "working"
  ELSE IF Newest = NULL THEN "unfiled"
  ELSE IF receipts[Newest].stage \in Unfinished THEN "unsure"
  ELSE IF <<receipts[Newest].dir, receipts[Newest].stage>> \in
            {<<"apply", "complete">>, <<"undo", "rolled_back">>} THEN "filed"
  ELSE "unfiled"

Filing == INSTANCE AtomicFiling WITH where <- Where, belief <- Belief

\* However many steps an operation takes, and whatever happens between them,
\* what the journal says and where the document is change the way the
\* abstract filing changes them: no step moves a document Intern claims to
\* know the place of, and no step makes a claim that is wrong.
FilingIsAtomic == Filing!Spec

-----------------------------------------------------------------------------
(* What is said of filing and is not so *)

AllIdle == \A t \in Thread : At(t, "idle")

\* "An operation that rolled back moved nothing" (store.rs): its document is
\* where it started, once nothing is at work.
RolledBackMovedNothing ==
  AllIdle /\ items[D].status # "applying" /\ Newest # NULL =>
    (receipts[Newest].stage = "rolled_back" => disk[detail[Newest].src] \in Document)

\* "One applying row stops every other document from being claimed - so
\* leaving it there froze the whole queue" (park_unsettled): a document that
\* cannot be settled is moved in front of a person.
NothingStaysApplying ==
  items[D].status = "applying" ~>
    (items[D].status # "applying" \/ \A s \in Session : ~ Live(s))
=============================================================================
