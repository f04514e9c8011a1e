---------------------------- MODULE Processing ----------------------------
(***************************************************************************)
(* The pipeline over the durable queue (crates/intern-queue/src/           *)
(* pipeline.rs) and the scheduler that drives it (src-tauri/src/           *)
(* commands.rs).  One process has two threads that matter: the scheduler,  *)
(* which reads a document (worker), has it analyzed (model) and files it,  *)
(* and a person's commands, which may come between any two of its steps.   *)
(* A third thread keeps the lease; a fourth may be a model request that    *)
(* missed its deadline and was left to finish on its own.                  *)
(*                                                                         *)
(* Every change to a row is an operation of QueueStore.  What filing does  *)
(* to the files is FileOps' subject: here it succeeds, fails, or is left   *)
(* for recovery to settle.  The model is ready throughout.                 *)
(***************************************************************************)
EXTENDS QueueStore, FiniteSets

CONSTANTS
  me,             \* the session of this process
  MaxCommands,    \* bound on commands, enqueueing apart
  MaxTroubles     \* bound on failures of the worker, the model and the disk

ASSUME SessionAssumption == Session = {me}
ASSUME BudgetAssumption == MaxCommands \in Nat /\ MaxTroubles \in Nat

VARIABLES
  at,           \* where each thread is
  doc,          \* the document each thread is about
  held,         \* what the scheduler composed, or how its cancel went
  saw,          \* the row cancel and approve read before they act
  request,      \* failures of the row when its request was named
  todo,         \* documents the scheduler's current loop has left
  scope,        \* ReadyScope of that loop, or the document just analyzed
  active_item,  \* the document cancel believes is being read
  paused, wake,
  keeper,       \* the lease keeper: off, renewing, or stopped by a failure
  worker,       \* the worker's answer to the current request
  model,        \* the model's answer to the current request
  late,         \* a model request left behind
  record,       \* proposals by item
  seen,         \* how often the one house rule was taught
  automatic,    \* settings.automatic_rename
  waited,       \* ticks the scheduler has been in recv_timeout
  commands, troubles

threadVars == <<at, doc, held, saw, request, todo, scope>>
boundaryVars == <<keeper, worker, model, late>>
settings == <<seen, automatic>>
budgets == <<commands, troubles>>
vars == <<storeVars, threadVars, active_item, paused, wake, boundaryVars, record,
          settings, waited, budgets>>

Thread == {"scheduler", "person"}
EDITS_TO_LEARN == 2

\* A name composed with or without the house rule, or typed by a person.
Name == {"none", "plain", "styled", "typed"}

\* The proposal: its name, whether the rule is among its house_rules, and
\* whether a person approved it.
ProposalRecord == [name : Name, house_rules : BOOLEAN, approved : BOOLEAN]
NoProposal == [name |-> "none", house_rules |-> FALSE, approved |-> FALSE]

\* active_style: a rule is in force once taught often enough, or told to be.
InForce(count) == count >= EDITS_TO_LEARN
compose_for_target(count) == IF InForce(count) THEN "styled" ELSE "plain"

Go(t, place) == at' = [at EXCEPT ![t] = place]
Trouble == troubles < MaxTroubles /\ troubles' = troubles + 1

Rest(i) == items[i].status \notin Active
Reading == at["scheduler"] \in {"extracting", "authorize", "analyzing", "grace", "save"}
LeasePhase == IF at["scheduler"] = "extracting" THEN "Extracting" ELSE "Analyzing"

\* A row still held by the keeper's renewal, which does not look further.
Renewable(i) == items[i].owner = me /\ items[i].status \in Active

-----------------------------------------------------------------------------
(* The model and the worker: any of them may answer, fail or be silent *)

\* Stopping the server fails the request it is answering; the first failure
\* is retried by the request's own thread, after a restart.
Asked == {"running", "hung"}
AskedAgain == {"retrying", "hung again"}
Unanswered == Asked \cup AskedAgain \cup {"failing"}

Disturbed(state) ==
  CASE state \in Asked      -> "failing"
    [] state \in AskedAgain -> "failed"
    [] OTHER                -> state

\* A request left behind is of no interest once it has failed for good.
LateDisturbed == IF late = "retrying" THEN "none" ELSE Disturbed(late)

\* AnalyzerBoundary::cancel takes no request: the local server is restarted
\* under whatever is running, and a hosted one is left to its own deadline.
ModelCancel ==
  \/ model' = Disturbed(model) /\ late' = LateDisturbed
  \/ UNCHANGED <<model, late>>

\* WorkerBoundary::cancel names the request, and only that one is stopped.
WorkerCancel(i, attempt) ==
  worker' = IF worker = "reading" /\ doc["scheduler"] = i /\ request = attempt
            THEN "canceled" ELSE worker

WorkerAnswers ==
  /\ worker = "reading"
  /\ \/ worker' = "parsed" /\ UNCHANGED troubles
     \/ worker' \in {"failed", "lost"} /\ Trouble
  /\ UNCHANGED <<storeVars, threadVars, active_item, paused, wake, keeper, model, late, record,
                 settings, waited, commands>>

\* A request that hangs may still answer; only such a one misses the deadline.
ModelAnswers ==
  /\ model \in Asked \cup AskedAgain
  /\ \/ model' = "answered" /\ UNCHANGED troubles
     \/ model' = Disturbed(model) /\ Trouble
     \/ model = "running" /\ model' = "hung" /\ Trouble
     \/ model = "retrying" /\ model' = "hung again" /\ Trouble
  /\ UNCHANGED <<storeVars, threadVars, active_item, paused, wake, keeper, worker, late, record,
                 settings, waited, commands>>

\* recover restarts the server under whoever is using it by now.
ModelRecovers ==
  /\ model = "failing"
  /\ \/ model' = "retrying" /\ UNCHANGED troubles
     \/ model' = "unrecovered" /\ Trouble
  /\ late' = LateDisturbed
  /\ UNCHANGED <<storeVars, threadVars, active_item, paused, wake, keeper, worker, record,
                 settings, waited, commands>>

LateEnds ==
  /\ late # "none"
  /\ \/ late = "failing" /\ late' = "retrying" /\ model' = Disturbed(model)
     \/ late' = "none" /\ UNCHANGED model
  /\ UNCHANGED <<storeVars, threadVars, active_item, paused, wake, keeper, worker, record,
                 settings, waited, budgets>>

-----------------------------------------------------------------------------
(* LeaseKeeper: a live one renews well within the lease, so only its end   *)
(* is a step.  It ends when the row is no longer this session's, or when   *)
(* the database refuses it three times; then it cancels by phase.          *)

KeeperEnds ==
  /\ keeper = "on"
  /\ \/ ~ Renewable(doc["scheduler"]) /\ renew_lease_refused(me) /\ UNCHANGED troubles
     \/ Trouble /\ (UNCHANGED storeVars \/ renew_lease_refused(me))
  /\ keeper' = "failed"
  /\ IF LeasePhase = "Extracting"
     THEN /\ WorkerCancel(doc["scheduler"], request)
          /\ UNCHANGED <<model, late>>
     ELSE ModelCancel /\ UNCHANGED worker
  /\ UNCHANGED <<threadVars, active_item, paused, wake, record, settings, waited, commands>>

\* Time passes for the leases nobody keeps, and for a scheduler that waits.
Time ==
  /\ keeper # "on"
  /\ \A t \in Thread : at[t] # "filing"
  /\ Tick
  /\ waited' = IF at["scheduler"] = "idle" /\ waited < LEASE_SECONDS
               THEN waited + 1
               ELSE waited
  /\ <<storeVars, waited>>' # <<storeVars, waited>>
  /\ UNCHANGED <<threadVars, active_item, paused, wake, boundaryVars, record, settings,
                 budgets>>

-----------------------------------------------------------------------------
(* The scheduler thread *)

\* recv_timeout: a wake drains; a time-out recovers first.
Receive ==
  /\ at["scheduler"] = "idle"
  /\ wake
  /\ wake' = FALSE
  /\ Go("scheduler", "collect")
  /\ scope' = "Everything"
  /\ waited' = 0
  /\ UNCHANGED <<storeVars, doc, held, saw, request, todo, active_item, paused, boundaryVars,
                 record, settings, budgets>>


\* The wait of 65 seconds is longer than the lease of 60: by the time it is
\* over, the scheduler's own last heartbeat is as old as a takeover asks.
TimedOut == waited = LEASE_SECONDS

\* recover: the interrupted rows are listed before they are taken back.
RecoverInterrupted ==
  /\ at["scheduler"] = "idle"
  /\ ~ wake
  /\ TimedOut
  /\ todo' = WithStatus(Processing)
  /\ \/ recover_interrupted(me)
     \/ WithStatus(Processing) \cap {i \in Item : OwnerIsDead(i)} = {} /\ UNCHANGED storeVars
  /\ Go("scheduler", "count")
  /\ waited' = 0
  /\ UNCHANGED <<doc, held, saw, request, scope, active_item, paused, wake, boundaryVars,
                 record, settings, budgets>>

First(S) == CHOOSE i \in S : \A j \in S : i <= j

\* A row that was taken back costs an attempt, in a transaction of its own.
CountRecovered ==
  /\ at["scheduler"] = "count"
  /\ todo # {}
  /\ LET i == First(todo) IN
       /\ todo' = todo \ {i}
       /\ IF items[i].status = "queued"
          THEN record_recovered_failure(me, i)
          ELSE UNCHANGED storeVars
  /\ UNCHANGED <<at, doc, held, saw, request, scope, active_item, paused, wake, boundaryVars,
                 record, settings, waited, budgets>>

LeftBehind ==
  {i \in WithStatus({"applying"}) : \A t \in Thread : ~ (at[t] = "filing" /\ doc[t] = i)}

\* An operation in progress is FileOps' subject: here recovery meets only
\* what an earlier one left behind, and finds how it ended.
Reconcile ==
  /\ at["scheduler"] = "count"
  /\ todo = {}
  /\ \/ \E i \in LeftBehind :
          /\ \/ \E status \in {"completed", "ready"} : SetRow(i, Settled(items[i], status))
             \/ \E e \in {"SOURCE_DELETE_FAILED", "RECONCILIATION_REQUIRED"} :
                  SetRow(i, Parked(items[i], NULL, e))
          /\ UNCHANGED <<receipts, session, quiet>>
     \/ LeftBehind = {} /\ UNCHANGED storeVars
  /\ Go("scheduler", "collect")
  /\ scope' = "Everything"
  /\ UNCHANGED <<doc, held, saw, request, todo, active_item, paused, wake, boundaryVars, record,
                 settings, waited, budgets>>

\* apply_pending_ready: what is ready now is what this loop will look at.
CollectReady ==
  /\ at["scheduler"] = "collect"
  /\ IF paused \/ WithStatus({"ready"}) = {}
     THEN Go("scheduler", "claim") /\ scope' = "Everything" /\ UNCHANGED todo
     ELSE Go("scheduler", "list") /\ todo' = WithStatus({"ready"}) /\ UNCHANGED scope
  /\ UNCHANGED <<storeVars, doc, held, saw, request, active_item, paused, wake, boundaryVars,
                 record, settings, waited, budgets>>


\* Every ready document when renaming is automatic; else the approved ones.
\* Between documents only the approved ones, either way.
Wanted(i) == record[i].approved \/ (automatic /\ scope = "Everything")

NextReady ==
  /\ at["scheduler"] = "list"
  /\ IF todo = {} \/ paused
     THEN /\ todo' = {}
          /\ IF scope = "Own"
             THEN Go("scheduler", "collect") /\ scope' = "ApprovalsOnly"
             ELSE Go("scheduler", "claim") /\ scope' = "Everything"
          /\ UNCHANGED doc
     ELSE LET i == First(todo) IN
          /\ todo' = todo \ {i}
          /\ IF record[i].name # "none" /\ Wanted(i)
             THEN Go("scheduler", "apply") /\ doc' = [doc EXCEPT !["scheduler"] = i]
             ELSE UNCHANGED <<at, doc>>
          /\ UNCHANGED scope
  /\ UNCHANGED <<storeVars, held, saw, request, active_item, paused, wake, boundaryVars, record,
                 settings, waited, budgets>>

-----------------------------------------------------------------------------
(* apply_if_unchanged, on either thread *)

\* The scheduler goes on with its loop; a command is over.
Done(t) ==
  /\ Go(t, IF t = "scheduler" THEN "list" ELSE "idle")
  /\ doc' = [doc EXCEPT ![t] = 0]
  /\ UNCHANGED held

mark_for_review(i) ==
  IF items[i].status = "ready" /\ record[i].name # "none"
  THEN /\ mark_needs_review(me, i)
       /\ record' = [record EXCEPT ![i].approved = FALSE]
  ELSE UNCHANGED <<storeVars, record>>

\* The uploader, the bytes, the date and the folder are looked at, and the
\* name is loaded once more.
CheckUnchanged(t) ==
  /\ at[t] = "apply"
  /\ \/ Go(t, "begin") /\ UNCHANGED <<storeVars, doc, held, record, troubles>>
     \/ Trouble /\ mark_for_review(doc[t]) /\ Done(t)
  /\ UNCHANGED <<saw, request, todo, scope, active_item, paused, wake, boundaryVars, settings,
                 waited, commands>>

\* A refusal of begin_applying is APPLY_DEFERRED, whatever its reason.
BeginFiling(t) ==
  /\ at[t] = "begin"
  /\ IF items[doc[t]].status = "ready" /\ NoOtherActive(doc[t])
     THEN begin_applying(me, doc[t], "ready") /\ Go(t, "filing") /\ UNCHANGED <<doc, held>>
     ELSE UNCHANGED storeVars /\ Done(t)
  /\ UNCHANGED <<saw, request, todo, scope, active_item, paused, wake, boundaryVars, record,
                 settings, waited, budgets>>

\* Filed; or failed and settled, to be marked next; or left for recovery.
EndFiling(t) ==
  /\ at[t] = "filing"
  /\ \/ /\ SetRow(doc[t], Settled(items[doc[t]], "completed"))
        /\ Done(t)
        /\ UNCHANGED <<receipts, session, quiet, troubles>>
     \/ /\ Trouble
        /\ \/ resolve_empty_applying(me, doc[t]) /\ Go(t, "unfiled") /\ UNCHANGED <<doc, held>>
           \/ UNCHANGED storeVars /\ Done(t)
  /\ UNCHANGED <<saw, request, todo, scope, active_item, paused, wake, boundaryVars, record,
                 settings, waited, commands>>

MarkUnfiled(t) ==
  /\ at[t] = "unfiled"
  /\ mark_for_review(doc[t])
  /\ Done(t)
  /\ UNCHANGED <<saw, request, todo, scope, active_item, paused, wake, boundaryVars, settings,
                 waited, budgets>>

-----------------------------------------------------------------------------
(* run_next_inner *)

\* Ways out of a document: on to the next, or out of the run with an error.
\* Only some of them clear active_item, and dropping the keeper stops it.
readingVars == <<scope, request, keeper, worker, model, doc, held>>

LeaveAbout(i, place) ==
  /\ Go("scheduler", place)
  /\ scope' = IF place = "collect" THEN "ApprovalsOnly" ELSE "Everything"
  /\ request' = 0
  /\ keeper' = "off"
  /\ worker' = "none"
  /\ model' = "none"
  /\ doc' = [doc EXCEPT !["scheduler"] = i]
  /\ held' = "none"

Leave(place) == LeaveAbout(0, place)

Claim ==
  /\ at["scheduler"] = "claim"
  /\ \/ /\ \/ paused /\ UNCHANGED storeVars
           \/ ~ paused /\ claim_next_none(me)
        /\ Go("scheduler", "idle")
        /\ UNCHANGED <<doc, request>>
     \/ \E i \in Item :
          /\ ~ paused
          /\ claim_next(me, i)
          /\ doc' = [doc EXCEPT !["scheduler"] = i]
          /\ request' = items[i].failures
          /\ Go("scheduler", "claimed")
  /\ UNCHANGED <<held, saw, todo, scope, active_item, paused, wake, boundaryVars, record,
                 settings, waited, budgets>>

Mine(i) == items[i].status \in Processing /\ items[i].owner = me

\* A row that changed under the transition makes it fail, and the run with it.
TransitionOr(i, expected, next, e, moved, stays) ==
  IF items[i].status = expected /\ items[i].owner = me
  THEN transition(me, i, expected, next, e) /\ moved
  ELSE UNCHANGED storeVars /\ stays

StartReading ==
  /\ at["scheduler"] = "claimed"
  /\ LET i == doc["scheduler"] IN
     \/ /\ Go("scheduler", "extracting")
        /\ active_item' = i
        /\ keeper' = "on"
        /\ worker' = "reading"
        /\ UNCHANGED <<storeVars, scope, request, model, doc, held, troubles>>
     \/ /\ Trouble
        /\ TransitionOr(i, "extracting", "needs_review", "UPLOADER_UNVERIFIED",
                        Leave("collect"), Leave("idle"))
        /\ UNCHANGED active_item
  /\ UNCHANGED <<saw, todo, paused, wake, late, record, settings, waited, commands>>

\* A request that failed, was canceled, or lost its worker for good.
ReadingFails ==
  /\ at["scheduler"] = "extracting"
  /\ worker \in {"failed", "lost", "canceled"}
  /\ LET i == doc["scheduler"] IN
     CASE keeper = "failed" ->
            /\ paused' = TRUE
            /\ Leave("idle")
            /\ UNCHANGED storeVars
       [] keeper = "on" /\ worker = "canceled" ->
            Leave("collect") /\ UNCHANGED <<storeVars, paused>>
       [] OTHER ->
            /\ IF Mine(i)
               THEN /\ record_processing_failure(me, i)
                    /\ IF worker = "lost" /\ request = 0
                       THEN LeaveAbout(i, "unrestarted")
                       ELSE Leave("collect")
               ELSE UNCHANGED storeVars /\ Leave("idle")
            /\ UNCHANGED paused
  /\ active_item' = 0
  /\ UNCHANGED <<saw, todo, wake, late, record, settings, waited, budgets>>

\* A worker that will not come back: the failure counts twice.
CountTwice ==
  /\ at["scheduler"] = "unrestarted"
  /\ LET i == doc["scheduler"] IN
       IF items[i].status = "queued"
       THEN record_recovered_failure(me, i) /\ Leave("collect")
       ELSE UNCHANGED storeVars /\ Leave("idle")
  /\ UNCHANGED <<saw, todo, active_item, paused, wake, late, record, settings, waited, budgets>>

\* ensure_lease, the pause and the move to analyzing.
ReadingEnds ==
  /\ at["scheduler"] = "extracting"
  /\ worker = "parsed"
  /\ LET i == doc["scheduler"] IN
     CASE keeper = "failed" ->
            /\ active_item' = 0
            /\ paused' = TRUE
            /\ Leave("idle")
            /\ UNCHANGED storeVars
       [] keeper = "on" /\ paused ->
            /\ TransitionOr(i, "extracting", "queued", "none",
                   active_item' = 0 /\ Leave("collect"),
                   UNCHANGED active_item /\ Leave("idle"))
            /\ UNCHANGED paused
       [] OTHER ->
            /\ TransitionOr(i, "extracting", "analyzing", "none",
                   Go("scheduler", "authorize") /\ UNCHANGED readingVars,
                   Leave("idle"))
            /\ UNCHANGED <<active_item, paused>>
  /\ UNCHANGED <<saw, todo, wake, late, record, settings, waited, budgets>>

StartAnalysis ==
  /\ at["scheduler"] = "authorize"
  /\ LET i == doc["scheduler"] IN
     \/ /\ Go("scheduler", "analyzing")
        /\ model' = "running"
        /\ worker' = "none"
        /\ UNCHANGED <<storeVars, scope, request, keeper, doc, held, active_item, troubles>>
     \/ /\ Trouble
        /\ IF keeper = "failed"
           THEN UNCHANGED <<storeVars, active_item>> /\ Leave("idle")
           ELSE TransitionOr(i, "analyzing", "needs_review", "UPLOADER_UNVERIFIED",
                   active_item' = 0 /\ Leave("collect"),
                   UNCHANGED active_item /\ Leave("idle"))
  /\ UNCHANGED <<saw, todo, paused, wake, late, record, settings, waited, commands>>

\* The deadline cancels the request and gives it a little longer; whether
\* the cancel itself failed is remembered for the error.
Deadline ==
  /\ at["scheduler"] = "analyzing"
  /\ model \in {"hung", "hung again"}
  /\ Go("scheduler", "grace")
  /\ \/ ModelCancel /\ held' = "none" /\ UNCHANGED troubles
     \/ /\ Trouble
        /\ held' = "plain"
        /\ UNCHANGED <<model, late>>
  /\ UNCHANGED <<storeVars, doc, saw, request, todo, scope, active_item, paused, wake, keeper,
                 worker, record, settings, waited, commands>>

\* What follows an analysis that failed, with a code that pauses or not.
AnalysisFails(pausing) ==
  LET i == doc["scheduler"] IN
  /\ active_item' = 0
  /\ CASE keeper = "failed" ->
            paused' = TRUE /\ Leave("idle") /\ UNCHANGED storeVars
       [] keeper = "on" /\ items[i].status = "canceled" ->
            Leave("collect") /\ UNCHANGED <<storeVars, paused>>
       [] OTHER ->
            IF Mine(i)
            THEN record_processing_failure(me, i) /\ paused' = (paused \/ pausing) /\ Leave("collect")
            ELSE UNCHANGED <<storeVars, paused>> /\ Leave("idle")

\* A first failure's code, or the code of a restart that failed.
AnalysisFailed ==
  /\ at["scheduler"] = "analyzing"
  /\ model \in {"failed", "unrecovered"}
  /\ \E pausing \in IF model = "unrecovered" THEN {TRUE} ELSE BOOLEAN : AnalysisFails(pausing)
  /\ UNCHANGED <<saw, todo, wake, late, record, settings, waited, budgets>>

\* A slip in the grace: the request is waited for, however long it takes.
GraceEndsWithRequest ==
  /\ at["scheduler"] = "grace"
  /\ model \notin Unanswered
  /\ AnalysisFails(held = "plain")
  /\ UNCHANGED <<saw, todo, wake, late, record, settings, waited, budgets>>

\* After the grace the request is left behind if it has not ended.
GraceEnds ==
  /\ at["scheduler"] = "grace"
  /\ AnalysisFails(held = "plain")
  /\ late' = CASE model \in Asked      -> "running"
               [] model \in AskedAgain -> "retrying"
               [] model = "failing"     -> "failing"
               [] OTHER                 -> late
  /\ UNCHANGED <<saw, todo, wake, record, settings, waited, budgets>>

\* The name is composed under the rules of this moment and saved later.
Compose ==
  /\ at["scheduler"] = "analyzing"
  /\ model = "answered"
  /\ IF keeper = "failed"
     THEN active_item' = 0 /\ paused' = TRUE /\ Leave("idle")
     ELSE /\ held' = compose_for_target(seen)
          /\ Go("scheduler", "save")
          /\ model' = "none"
          /\ UNCHANGED <<scope, request, active_item, paused, keeper, worker, doc>>
  /\ UNCHANGED <<storeVars, saw, todo, wake, late, record, settings, waited, budgets>>

\* stop_and_check, save_initial_and_transition, and filing it at once when
\* renaming is automatic.
save_initial_and_transition ==
  /\ at["scheduler"] = "save"
  /\ LET i == doc["scheduler"] IN
     IF keeper = "failed" \/ ~ (Mine(i) /\ items[i].status = "analyzing")
     THEN Leave("idle") /\ UNCHANGED <<storeVars, active_item, record>>
     ELSE \E next \in {"ready", "needs_review"} :
            /\ transition(me, i, "analyzing", next, "none")
            /\ record' = [record EXCEPT ![i] =
                            [NoProposal EXCEPT !.name = held,
                                               !.house_rules = held = "styled"]]
            /\ active_item' = 0
            /\ IF next = "ready" /\ automatic /\ ~ paused
               THEN /\ Go("scheduler", "apply")
                    /\ scope' = "Own"
                    /\ request' = 0
                    /\ keeper' = "off"
                    /\ held' = "none"
                    /\ UNCHANGED <<worker, model, doc>>
               ELSE Leave("collect")
  /\ UNCHANGED <<saw, todo, paused, wake, late, settings, waited, budgets>>

-----------------------------------------------------------------------------
(* Commands.  Those that touch one row and compare its status are one      *)
(* step; cancel and approve read the row first and act on what they read.  *)

Command == at["person"] = "idle" /\ commands < MaxCommands /\ commands' = commands + 1

NothingSeen == [status |-> "queued", failures |-> 0]
CommandOver ==
  /\ Go("person", "idle")
  /\ doc' = [doc EXCEPT !["person"] = 0]
  /\ saw' = NothingSeen

\* enqueue_files: the row, then the duplicate flag if the claim did not win,
\* then schedule.
Enqueue ==
  /\ at["person"] = "idle"
  /\ \E i \in Item : enqueue(me, i) /\ doc' = [doc EXCEPT !["person"] = i]
  /\ Go("person", "flag")
  /\ UNCHANGED <<held, saw, request, todo, scope, active_item, paused, wake, boundaryVars,
                 record, settings, waited, budgets>>

\* A slip in flag_duplicate: the row is flagged though it was read meanwhile.
flag_duplicateOfARead ==
  /\ at["person"] = "flag"
  /\ LET i == doc["person"] IN
       \/ /\ items[i].status \in {"queued", "ready"}
          /\ SetRow(i, [items[i] EXCEPT !.status = "needs_review", !.error = "DUPLICATE"])
          /\ UNCHANGED <<receipts, session, quiet>>
       \/ UNCHANGED storeVars
  /\ CommandOver
  /\ wake' = TRUE
  /\ UNCHANGED <<held, request, todo, scope, active_item, paused, boundaryVars,
                 record, settings, waited, budgets>>

flag_duplicate ==
  /\ at["person"] = "flag"
  /\ LET i == doc["person"] IN
       \/ transition(me, i, "queued", "needs_review", "DUPLICATE")
       \/ UNCHANGED storeVars
  /\ CommandOver
  /\ wake' = TRUE
  /\ UNCHANGED <<held, request, todo, scope, active_item, paused, boundaryVars, record,
                 settings, waited, budgets>>

Forgotten == [i \in Item |-> IF items'[i].status = "deleted" THEN NoProposal ELSE record[i]]

\* retry reads the document again and wakes.  One that was read before goes
\* back to the queue first and loses its proposal in a transaction of its own.
retry ==
  /\ Command
  /\ \E i \in Item :
       \/ /\ manual_retry(me, i) \/ retry_canceled(me, i)
          /\ Go("person", "discard")
          /\ doc' = [doc EXCEPT !["person"] = i]
          /\ UNCHANGED wake
       \/ /\ retry_duplicate(me, i) \/ retry_unverified(me, i)
          /\ wake' = TRUE
          /\ UNCHANGED <<at, doc>>
  /\ UNCHANGED <<held, saw, request, todo, scope, active_item, paused, boundaryVars, record,
                 settings, waited, troubles>>

delete_proposal ==
  /\ at["person"] = "discard"
  /\ record' = [record EXCEPT ![doc["person"]] = NoProposal]
  /\ CommandOver
  /\ wake' = TRUE
  /\ UNCHANGED <<storeVars, held, request, todo, scope, active_item, paused, boundaryVars,
                 settings, waited, budgets>>

\* unsettled_files.
Unsettled(i) == items[i].error \in {"SOURCE_DELETE_FAILED", "RECONCILIATION_REQUIRED"}

\* keep_original, remove, clear_history and discard_waiting.
Dismiss ==
  /\ Command
  /\ \/ \E i \in Item : \E expected \in {"ready", "needs_review"} :
          ~ Unsettled(i) /\ complete_keep_original(me, i, expected)
     \/ \E i \in Item :
          ~ (items[i].status = "needs_review" /\ Unsettled(i)) /\ remove_item(me, i)
     \/ clear_terminal(me)
     \/ discard_queued(me)
  /\ record' = Forgotten
  /\ UNCHANGED <<threadVars, active_item, paused, wake, boundaryVars, settings, waited,
                 troubles>>

pause ==
  /\ Command
  /\ paused' = TRUE
  /\ UNCHANGED <<storeVars, threadVars, active_item, wake, boundaryVars, record, settings,
                 waited, troubles>>

resume ==
  /\ Command
  /\ paused' = FALSE
  /\ wake' = TRUE
  /\ UNCHANGED <<storeVars, threadVars, active_item, boundaryVars, record, settings, waited,
                 troubles>>

\* The row cancel and approve find in the list.
Look ==
  /\ Command
  /\ \E i \in Item : \E place \in {"cancel", "approve"} :
       /\ items[i].status \in {"ready", "needs_review"}
              \cup IF place = "cancel" THEN {"queued"} \cup Processing ELSE {}
       /\ items[i].status = "needs_review" => ~ Unsettled(i)
       /\ place = "approve" => record[i].name # "none"
       /\ doc' = [doc EXCEPT !["person"] = i]
       /\ saw' = [status |-> items[i].status, failures |-> items[i].failures]
       /\ Go("person", place)
  /\ UNCHANGED <<storeVars, held, request, todo, scope, active_item, paused, wake, boundaryVars,
                 record, settings, waited, troubles>>

\* transition asks the owner too, of an active row.
Cancel ==
  /\ at["person"] = "cancel"
  /\ LET i == doc["person"] IN
       IF items[i].status = saw.status /\ (saw.status \in Active => items[i].owner = me)
       THEN transition(me, i, saw.status, "canceled", "none") /\ Go("person", "stop")
            /\ UNCHANGED <<doc, saw>>
       ELSE UNCHANGED storeVars /\ CommandOver
  /\ UNCHANGED <<held, request, todo, scope, active_item, paused, wake, boundaryVars, record,
                 settings, waited, budgets>>

\* The row is canceled already: whatever is running now is what is stopped.
StopBoundary ==
  /\ at["person"] = "stop"
  /\ CASE active_item = doc["person"] /\ saw.status = "extracting" ->
             WorkerCancel(doc["person"], saw.failures) /\ UNCHANGED <<model, late>>
       [] active_item = doc["person"] /\ saw.status = "analyzing" ->
             ModelCancel /\ UNCHANGED worker
       [] OTHER -> UNCHANGED <<worker, model, late>>
  /\ CommandOver
  /\ UNCHANGED <<storeVars, held, request, todo, scope, active_item, paused, wake, keeper,
                 record, settings, waited, budgets>>

\* restyle_waiting: every waiting proposal whose rules changed, but one.
Restyled(records, count, approved) ==
  [i \in Item |->
     IF /\ items[i].status \in {"needs_review", "ready"}
        /\ i # approved
        /\ records[i].name # "none"
        /\ records[i].house_rules # InForce(count)
     THEN [records[i] EXCEPT !.name = compose_for_target(count), !.house_rules = InForce(count)]
     ELSE records[i]]

Approve ==
  /\ at["person"] = "approve"
  /\ LET i == doc["person"] IN
       IF items[i].status = saw.status /\ record[i].name # "none"
       THEN /\ approve_user_edit(me, i, saw.status)
            /\ record' = [record EXCEPT ![i].name = "typed", ![i].approved = TRUE]
            /\ Go("person", "learn")
            /\ saw' = NothingSeen
            /\ UNCHANGED doc
       ELSE UNCHANGED <<storeVars, record>> /\ CommandOver
  /\ UNCHANGED <<held, request, todo, scope, active_item, paused, wake, boundaryVars, settings,
                 waited, budgets>>

\* learn_from_edit: the edit teaches the rule, takes it back, or neither.
learn_from_edit ==
  /\ at["person"] = "learn"
  /\ seen' \in {seen, 0, IF seen < EDITS_TO_LEARN THEN seen + 1 ELSE seen}
  /\ record' = Restyled(record, seen', doc["person"])
  /\ Go("person", "apply")
  /\ UNCHANGED <<storeVars, doc, held, saw, request, todo, scope, active_item, paused, wake,
                 boundaryVars, automatic, waited, budgets>>

\* use_rule and forget_rule, from the list of learned spellings.
ChangeRule ==
  /\ Command
  /\ seen > 0
  /\ seen' \in {0, EDITS_TO_LEARN}
  /\ record' = Restyled(record, seen', 0)
  /\ UNCHANGED <<storeVars, threadVars, active_item, paused, wake, boundaryVars, automatic,
                 waited, troubles>>

-----------------------------------------------------------------------------
\* The program starts with one document waiting, and schedules.
ProcessingInit ==
  /\ items = [i \in Item |-> IF i = 1 THEN [EmptyRow EXCEPT !.status = "queued"] ELSE EmptyRow]
  /\ receipts = [r \in ReceiptId |-> EmptyReceipt]
  /\ session = [s \in Session |-> "open"]
  /\ quiet = [s \in Session |-> 0]
  /\ at = [t \in Thread |-> "idle"]
  /\ doc = [t \in Thread |-> 0]
  /\ held = "none"
  /\ saw = NothingSeen
  /\ request = 0
  /\ todo = {}
  /\ scope = "Everything"
  /\ active_item = 0
  /\ paused = FALSE
  /\ wake = TRUE
  /\ keeper = "off" /\ worker = "none" /\ model = "none" /\ late = "none"
  /\ record = [i \in Item |-> NoProposal]
  /\ seen = 1      \* an edit of an earlier session taught it once
  /\ automatic \in BOOLEAN
  /\ waited = 0
  /\ commands = 0 /\ troubles = 0

Filing(t) == CheckUnchanged(t) \/ BeginFiling(t) \/ EndFiling(t) \/ MarkUnfiled(t)

\* The steps the scheduler takes by itself, whatever the boundaries do.
Scheduler ==
  \/ Receive \/ RecoverInterrupted \/ CountRecovered \/ Reconcile
  \/ CollectReady \/ NextReady \/ Filing("scheduler")
  \/ Claim \/ StartReading \/ ReadingFails \/ CountTwice \/ ReadingEnds
  \/ StartAnalysis \/ Deadline \/ AnalysisFailed \/ GraceEnds \/ Compose
  \/ save_initial_and_transition

CommandGoesOn ==
  \/ flag_duplicate \/ delete_proposal \/ Cancel \/ StopBoundary
  \/ Approve \/ learn_from_edit \/ Filing("person")

Person ==
  Enqueue \/ retry \/ Dismiss \/ pause \/ resume \/ Look \/ ChangeRule \/ CommandGoesOn

Boundaries == WorkerAnswers \/ ModelAnswers \/ ModelRecovers \/ LateEnds \/ KeeperEnds

ProcessingNext == Scheduler \/ Person \/ Boundaries \/ Time

ProcessingSpec == ProcessingInit /\ [][ProcessingNext]_vars

\* The scheduler's thread runs, a command that began ends, and leases run
\* out.  The worker answers: its client has a deadline of its own.  The
\* model answers or fails, unless it hangs: then nothing is asked of it.
ProcessingFairSpec ==
  /\ ProcessingSpec
  /\ WF_vars(Scheduler)
  /\ WF_vars(CommandGoesOn)
  /\ WF_vars(WorkerAnswers)
  /\ WF_vars(model \in {"running", "retrying"} /\ ModelAnswers)
  /\ WF_vars(ModelRecovers)
  /\ WF_vars(Time)

-----------------------------------------------------------------------------
(* What the pipeline promises *)

\* The threads' places, and everything else they keep, have their types; a
\* keeper lives as long as the reading it keeps the lease for, no longer.
ProcessingTypeOK ==
  /\ TypeOK
  /\ at["scheduler"] \in {"idle", "count", "collect", "list", "claim", "claimed", "extracting",
        "unrestarted", "authorize", "analyzing", "grace", "save", "apply", "begin", "filing",
        "unfiled"}
  /\ at["person"] \in {"idle", "flag", "discard", "cancel", "stop", "approve", "learn", "apply", "begin",
        "filing", "unfiled"}
  /\ doc \in [Thread -> Item \cup {0}]
  /\ held \in Name
  /\ todo \subseteq Item
  /\ active_item \in Item \cup {0}
  /\ worker \in {"none", "reading", "parsed", "failed", "lost", "canceled"}
  /\ model \in Unanswered \cup {"none", "answered", "failed", "unrecovered"}
  /\ late \in {"none", "running", "retrying", "failing"}
  /\ record \in [Item -> ProposalRecord]
  /\ waited \in 0..LEASE_SECONDS
  /\ keeper \in {"off", "on", "failed"}
  /\ keeper # "off" <=> Reading

\* Nothing of an earlier reading is left of a document that is to be read,
\* or is being read, neither a name nor an approval, but for what a retry is
\* about to delete: a verdict that comes before the analysis finds none
\* either (retry, save_initial_and_transition).
BeingDiscarded(i) == at["person"] = "discard" /\ doc["person"] = i

ToBeRead(i) ==
  \/ items[i].status \in {"queued"} \cup Processing
  \/ items[i].status = "needs_review" /\ items[i].error \in {"DUPLICATE", "UPLOADER_UNVERIFIED"}

ReadAfresh == \A i \in Item : ToBeRead(i) => record[i] = NoProposal \/ BeingDiscarded(i)

\* A reading ends: neither a worker that died nor a model that honours
\* neither its deadline nor its cancel stops the scheduler
\* (analyze_with_deadline).
ReadingEventuallyEnds == Reading ~> ~ Reading



\* What a person typed is not rewritten: composing it again would throw
\* away everything the facts do not carry (restyle_waiting).
TypedNameStands ==
  [][\A i \in Item :
       /\ record[i].name = "typed" /\ record[i].approved
       /\ record'[i].approved
       => record'[i].name = "typed"]_vars
=============================================================================
