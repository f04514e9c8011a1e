------------------------- MODULE Processing_proofs -------------------------
(***************************************************************************)
(* The pipeline uses the store as the store allows: every change of a row  *)
(* it makes is a statement of QueueStore, or the end of an operation that  *)
(* FileOps details, on the row the thread took for it.  So the store's     *)
(* invariants hold of the pipeline too, and its two threads never file at  *)
(* once, for any number of documents, commands and troubles.               *)
(***************************************************************************)
EXTENDS Processing, QueueStore_proofs, WellFoundedInduction

-----------------------------------------------------------------------------
(* Where the threads are *)

\* A thread at one of these places is about a document.
Busy == {"claimed", "extracting", "unrestarted", "authorize", "analyzing", "grace", "save",
         "apply", "begin", "filing", "unfiled", "flag", "discard", "cancel", "stop", "approve", "learn"}
Place == Busy \cup {"idle", "count", "collect", "list", "claim"}

Places ==
  /\ at \in [Thread -> Place]
  /\ doc \in [Thread -> Item \cup {0}]
  /\ todo \subseteq Item
  /\ \A t \in Thread : at[t] \in Busy => doc[t] \in Item

\* A thread that files a document began it, and keeps to it.
KeepsToIt ==
  \A u \in Thread : at'[u] = "filing" =>
     (at[u] = "filing" /\ doc'[u] = doc[u]) \/ BeginFiling(u)

\* The least of some documents is one of them.
LEMMA FirstIsOne ==
  ASSUME NEW S \in SUBSET Item, S # {}
  PROVE  First(S) \in S
<1>1. S \subseteq Nat
  BY DEF Item
<1>2. PICK i \in S : \A j \in S : ~ (<<j, i>> \in OpToRel(<, Nat))
  BY <1>1, NatLessThanWellFounded, WFMin
<1>3. \A j \in S : i <= j
  <2> TAKE j \in S
  <2>1. i \in Nat /\ j \in Nat
    BY <1>1
  <2>2. ~ (<<j, i>> \in OpToRel(<, Nat))
    BY <1>2
  <2>3. ~ (j < i)
    BY <2>1, <2>2 DEF OpToRel
  <2> QED BY <2>1, <2>3
<1> QED BY <1>3 DEF First

\* A thread goes somewhere, about a document where it needs one.
LEMMA Moved ==
  ASSUME Places, NEW t \in Thread, NEW place \in Place, Go(t, place), todo' \subseteq Item,
         place = "filing" => BeginFiling(t),
         \/ place \notin Busy /\ (UNCHANGED doc \/ doc' = [doc EXCEPT ![t] = 0])
         \/ at[t] \in Busy /\ UNCHANGED doc
         \/ \E i \in Item : doc' = [doc EXCEPT ![t] = i]
  PROVE  Places' /\ KeepsToIt
BY DEF Places, Go, KeepsToIt

\* Filing goes on with its document until it is done with it.
LEMMA FilingPlaces ==
  ASSUME Places, NEW t \in Thread, Filing(t)
  PROVE  Places' /\ KeepsToIt
<1>1. /\ "begin" \in Place /\ "filing" \in Place /\ "unfiled" \in Place
      /\ \A place \in {"list", "idle"} : place \in Place /\ place \notin Busy
      /\ \A place \in {"apply", "begin", "filing", "unfiled"} : place \in Busy
  BY DEF Place, Busy
<1>2. at[t] \in Busy /\ UNCHANGED todo /\ todo' \subseteq Item
  BY <1>1 DEF Filing, CheckUnchanged, BeginFiling, EndFiling, MarkUnfiled, Places
<1>3. \/ \E place \in {"begin", "filing", "unfiled"} :
            Go(t, place) /\ UNCHANGED doc /\ (place = "filing" => BeginFiling(t))
      \/ Done(t)
  BY DEF Filing, CheckUnchanged, BeginFiling, EndFiling, MarkUnfiled
<1>4. CASE Done(t)
  <2>1. PICK place \in {"list", "idle"} : Go(t, place)
    BY <1>4 DEF Done
  <2>2. doc' = [doc EXCEPT ![t] = 0]
    BY <1>4 DEF Done
  <2> QED BY <1>1, <1>2, <2>1, <2>2, Moved
<1>5. CASE \E place \in {"begin", "filing", "unfiled"} :
             Go(t, place) /\ UNCHANGED doc /\ (place = "filing" => BeginFiling(t))
  BY <1>1, <1>2, <1>5, Moved
<1> QED BY <1>3, <1>4, <1>5

\* The scheduler reads a document it claimed, and looks at ready ones.
LEMMA SchedulerPlaces ==
  ASSUME Places, Scheduler
  PROVE  Places' /\ KeepsToIt
<1> USE DEF Thread
<1>1. /\ Busy \subseteq Place
      /\ \A place \in {"idle", "count", "collect", "list", "claim"} : place \in Place /\ place \notin Busy
      /\ {"claimed", "extracting", "unrestarted", "authorize", "analyzing", "grace", "save", "apply"} \subseteq Busy
  BY DEF Place, Busy
<1>2. CASE Receive \/ RecoverInterrupted \/ Reconcile \/ CollectReady
  <2>1. PICK place \in {"count", "collect", "list", "claim"} : Go("scheduler", place) /\ UNCHANGED doc
    BY <1>2 DEF Receive, RecoverInterrupted, Reconcile, CollectReady
  <2>2. todo' \subseteq Item
    BY <1>2 DEF Receive, RecoverInterrupted, Reconcile, CollectReady, Places, WithStatus
  <2> QED BY <1>1, <2>1, <2>2, Moved
<1>3. CASE CountRecovered
  BY <1>3 DEF CountRecovered, Places, KeepsToIt
<1>4. CASE NextReady
  <2>1. CASE todo = {} \/ paused
    <3>1. PICK place \in {"collect", "claim"} : Go("scheduler", place) /\ UNCHANGED doc /\ todo' = {}
      BY <1>4, <2>1 DEF NextReady
    <3> QED BY <1>1, <3>1, Moved
  <2>2. CASE ~ (todo = {} \/ paused)
    <3>1. First(todo) \in Item
      BY <2>2, FirstIsOne DEF Places
    <3>2. /\ todo' \subseteq Item
          /\ \/ Go("scheduler", "apply") /\ doc' = [doc EXCEPT !["scheduler"] = First(todo)]
             \/ UNCHANGED <<at, doc>>
      BY <1>4, <2>2 DEF NextReady, Places
    <3>3. CASE UNCHANGED <<at, doc>>
      BY <3>2, <3>3 DEF Places, KeepsToIt
    <3>4. CASE Go("scheduler", "apply") /\ doc' = [doc EXCEPT !["scheduler"] = First(todo)]
      BY <1>1, <3>1, <3>2, <3>4, Moved
    <3> QED BY <3>2, <3>3, <3>4
  <2> QED BY <2>1, <2>2
<1>5. CASE Claim
  <2>1. \/ Go("scheduler", "idle") /\ UNCHANGED doc
        \/ \E i \in Item : doc' = [doc EXCEPT !["scheduler"] = i] /\ Go("scheduler", "claimed")
    BY <1>5 DEF Claim
  <2>2. todo' \subseteq Item
    BY <1>5 DEF Claim, Places
  <2> QED BY <1>1, <2>1, <2>2, Moved
<1>6. CASE Filing("scheduler")
  BY <1>6, FilingPlaces
<1>7. CASE \/ StartReading \/ ReadingFails \/ CountTwice \/ ReadingEnds \/ StartAnalysis \/ Deadline
           \/ AnalysisFailed \/ GraceEnds \/ Compose \/ save_initial_and_transition
  <2>1. at["scheduler"] \in {"claimed", "extracting", "unrestarted", "authorize", "analyzing", "grace", "save"}
    BY <1>7 DEF StartReading, ReadingFails, CountTwice, ReadingEnds, StartAnalysis, Deadline,
       AnalysisFailed, GraceEnds, Compose, save_initial_and_transition
  <2>2. at["scheduler"] \in Busy /\ doc["scheduler"] \in Item
    BY <1>1, <2>1 DEF Places
  <2>3. todo' \subseteq Item
    BY <1>7 DEF StartReading, ReadingFails, CountTwice, ReadingEnds, StartAnalysis, Deadline,
       AnalysisFailed, GraceEnds, Compose, save_initial_and_transition, Places
  <2>4. \/ \E place \in {"extracting", "authorize", "analyzing", "grace", "save", "apply"} :
             Go("scheduler", place) /\ UNCHANGED doc
        \/ \E place \in {"idle", "collect"} : LeaveAbout(0, place)
        \/ LeaveAbout(doc["scheduler"], "unrestarted")
    <3>1. CASE StartReading
      BY <3>1 DEF StartReading, TransitionOr, Leave
    <3>2. CASE ReadingFails
      BY <3>2 DEF ReadingFails, Leave
    <3>3. CASE CountTwice
      BY <3>3 DEF CountTwice, Leave
    <3>4. CASE ReadingEnds
      BY <3>4 DEF ReadingEnds, TransitionOr, Leave, readingVars
    <3>5. CASE StartAnalysis
      BY <3>5 DEF StartAnalysis, TransitionOr, Leave
    <3>6. CASE Deadline
      BY <3>6 DEF Deadline
    <3>7. CASE AnalysisFailed \/ GraceEnds
      BY <3>7 DEF AnalysisFailed, GraceEnds, AnalysisFails, Leave
    <3>8. CASE Compose
      BY <3>8 DEF Compose, Leave
    <3>9. CASE save_initial_and_transition
      BY <3>9 DEF save_initial_and_transition, Leave
    <3> QED BY <1>7, <3>1, <3>2, <3>3, <3>4, <3>5, <3>6, <3>7, <3>8, <3>9
  <2> QED BY <1>1, <2>2, <2>3, <2>4, Moved DEF LeaveAbout
<1> QED BY <1>2, <1>3, <1>4, <1>5, <1>6, <1>7 DEF Scheduler

\* A command is about the document it was given until it is over.
LEMMA PersonPlaces ==
  ASSUME Places, Person
  PROVE  Places' /\ KeepsToIt
<1> USE DEF Thread
<1>1. /\ Busy \subseteq Place /\ "idle" \in Place /\ "idle" \notin Busy
      /\ {"flag", "discard", "cancel", "stop", "approve", "learn", "apply"} \subseteq Busy
  BY DEF Place, Busy
<1>2. CASE Dismiss \/ pause \/ resume \/ ChangeRule
  BY <1>2 DEF Dismiss, pause, resume, ChangeRule, threadVars, Places, KeepsToIt
<1>3. CASE Enqueue \/ Look \/ retry
  <2>1. \/ \E i \in Item, place \in {"flag", "discard", "cancel", "approve"} :
             doc' = [doc EXCEPT !["person"] = i] /\ Go("person", place)
        \/ UNCHANGED <<at, doc>>
    BY <1>3 DEF Enqueue, Look, retry
  <2>2. todo' \subseteq Item /\ UNCHANGED todo
    BY <1>3 DEF Enqueue, Look, retry, Places
  <2>3. CASE UNCHANGED <<at, doc>>
    BY <2>2, <2>3 DEF Places, KeepsToIt
  <2> QED BY <1>1, <2>1, <2>2, <2>3, Moved
<1>4. CASE Filing("person")
  BY <1>4, FilingPlaces
<1>5. CASE flag_duplicate \/ delete_proposal \/ Cancel \/ StopBoundary \/ Approve \/ learn_from_edit
  <2>1. at["person"] \in Busy /\ todo' \subseteq Item
    BY <1>1, <1>5 DEF flag_duplicate, delete_proposal, Cancel, StopBoundary, Approve, learn_from_edit, Places
  <2>2. \/ CommandOver
        \/ \E place \in {"stop", "learn", "apply"} : Go("person", place) /\ UNCHANGED doc
    BY <1>5 DEF flag_duplicate, delete_proposal, Cancel, StopBoundary, Approve, learn_from_edit
  <2> QED BY <1>1, <2>1, <2>2, Moved DEF CommandOver
<1> QED BY <1>2, <1>3, <1>4, <1>5 DEF Person, CommandGoesOn

\* Neither the boundaries nor time move a thread.
LEMMA OtherPlaces ==
  ASSUME Places, Boundaries \/ Time
  PROVE  Places' /\ KeepsToIt
BY DEF Boundaries, WorkerAnswers, ModelAnswers, ModelRecovers, LateEnds, KeeperEnds, Time,
   threadVars, Places, KeepsToIt

\* Every step of the loop, of a person, of a worker or of the keeper leaves the
\* threads where their step says, and keeps the job of a thread to its document.
LEMMA NextPlaces ==
  ASSUME Places, ProcessingNext
  PROVE  Places' /\ KeepsToIt
BY SchedulerPlaces, PersonPlaces, OtherPlaces DEF ProcessingNext

-----------------------------------------------------------------------------
(* What the steps do to the store *)

\* A statement of the store, asked for by this process, or time passing.
Statement ==
  \/ Tick \/ claim_next_none(me) \/ renew_lease_refused(me)
  \/ recover_interrupted(me) \/ clear_terminal(me) \/ discard_queued(me)
  \/ \E i \in Item : Process(me, i) \/ Decide(me, i) \/ begin_applying(me, i, "ready")

\* The same but for the two that send a document back to be read once more.
OtherStatement ==
  \/ Tick \/ claim_next_none(me) \/ renew_lease_refused(me)
  \/ recover_interrupted(me) \/ clear_terminal(me) \/ discard_queued(me)
  \/ \E i \in Item :
       \/ Process(me, i) \/ begin_applying(me, i, "ready")
       \/ enqueue(me, i) \/ retry_duplicate(me, i) \/ retry_unverified(me, i)
       \/ \E expected \in {"ready", "needs_review"} :
            complete_keep_original(me, i, expected) \/ approve_user_edit(me, i, expected)
       \/ mark_needs_review(me, i) \/ remove_item(me, i)

\* An operation that was filing a document ended, or was found ended: what
\* FileOps details with the statements that name a receipt.
OperationEnds(i) ==
  /\ items[i].status = "applying"
  /\ \A t \in Thread : at[t] = "filing" /\ doc[t] = i => at'[t] # "filing"
  /\ \/ resolve_empty_applying(me, i)
     \/ /\ \/ \E status \in {"completed", "ready"} : SetRow(i, Settled(items[i], status))
           \/ \E e \in {"SOURCE_DELETE_FAILED", "RECONCILIATION_REQUIRED"} :
                SetRow(i, Parked(items[i], NULL, e))
        /\ UNCHANGED <<receipts, session, quiet>>

OtherUse == UNCHANGED storeVars \/ OtherStatement \/ \E i \in Item : OperationEnds(i)

UsesTheStore == UNCHANGED storeVars \/ Statement \/ \E i \in Item : OperationEnds(i)

\* A thread that files a document has it: applying, and owned.
FilingOwnsItsRow ==
  \A t \in Thread : at[t] = "filing" =>
     items[doc[t]].status = "applying" /\ items[doc[t]].owner = me

\* And no other thread files meanwhile.
FilingIsAlone == \A t, u \in Thread : at[t] = "filing" /\ at[u] = "filing" => t = u

\* A transition with the codes the pipeline passes along is one of the store.
LEMMA Transits ==
  ASSUME NEW i \in Item, NEW expected, NEW next, NEW e \in ReviewErrors(expected, next),
         transition(me, i, expected, next, e)
  PROVE  OtherStatement
<1>1. expected \in Status /\ next \in Status
  BY DEF transition, CanTransition, Status, Active, Processing
<1> QED BY <1>1 DEF OtherStatement, Process

\* Filing a document begins, ends and marks its row, and no other.
LEMMA FilingUses ==
  ASSUME Places, FilingOwnsItsRow, FilingIsAlone, NEW t \in Thread, Filing(t)
  PROVE  OtherUse
<1>1. at[t] \in {"apply", "begin", "filing", "unfiled"}
  BY DEF Filing, CheckUnchanged, BeginFiling, EndFiling, MarkUnfiled
<1>2. doc[t] \in Item
  BY <1>1 DEF Places, Busy
<1>3. ASSUME mark_for_review(doc[t])
      PROVE  OtherUse
  BY <1>2, <1>3 DEF mark_for_review, OtherUse, OtherStatement
<1>4. CASE CheckUnchanged(t)
  BY <1>3, <1>4 DEF CheckUnchanged, OtherUse
<1>5. CASE BeginFiling(t)
  BY <1>2, <1>5 DEF BeginFiling, OtherUse, OtherStatement
<1>6. CASE EndFiling(t)
  <2>1. items[doc[t]].status = "applying"
    BY <1>6 DEF EndFiling, FilingOwnsItsRow
  <2>2. \/ UNCHANGED storeVars \/ resolve_empty_applying(me, doc[t])
        \/ SetRow(doc[t], Settled(items[doc[t]], "completed")) /\ UNCHANGED <<receipts, session, quiet>>
    BY <1>6, Zenon DEF EndFiling
  <2>3. at[t] = "filing" /\ at'[t] # "filing"
    BY <1>6 DEF EndFiling, Done, Go, Places
  <2>4. \A u \in Thread : at[u] = "filing" /\ doc[u] = doc[t] => at'[u] # "filing"
    BY <2>3 DEF FilingIsAlone
  <2> QED BY <1>2, <2>1, <2>2, <2>4, Zenon DEF OtherUse, OperationEnds
<1>7. CASE MarkUnfiled(t)
  BY <1>3, <1>7 DEF MarkUnfiled
<1> QED BY <1>4, <1>5, <1>6, <1>7 DEF Filing

\* So does the scheduler with what it reads, and with what it finds.
LEMMA SchedulerUses ==
  ASSUME Places, FilingOwnsItsRow, FilingIsAlone, Scheduler
  PROVE  OtherUse
<1> USE DEF OtherUse
<1>1. at["scheduler"] \in Busy => doc["scheduler"] \in Item
  BY DEF Places, Thread
<1>2. CASE Receive \/ CollectReady \/ NextReady \/ Deadline \/ Compose
  BY <1>2 DEF Receive, CollectReady, NextReady, Deadline, Compose
<1>3. CASE RecoverInterrupted
  BY <1>3 DEF RecoverInterrupted, OtherStatement
<1>4. CASE CountRecovered
  <2>1. First(todo) \in Item
    BY <1>4, FirstIsOne DEF CountRecovered, Places
  <2> QED BY <1>4, <2>1 DEF CountRecovered, OtherStatement, Process
<1>5. CASE Reconcile
  <2>1. \A i \in LeftBehind :
          /\ i \in Item /\ items[i].status = "applying"
          /\ \A t \in Thread : at[t] = "filing" => doc[t] # i
    BY DEF LeftBehind, WithStatus
  <2>3. \/ UNCHANGED storeVars
        \/ \E i \in LeftBehind :
             /\ UNCHANGED <<receipts, session, quiet>>
             /\ \/ \E status \in {"completed", "ready"} : SetRow(i, Settled(items[i], status))
                \/ \E e \in {"SOURCE_DELETE_FAILED", "RECONCILIATION_REQUIRED"} :
                     SetRow(i, Parked(items[i], NULL, e))
    BY <1>5, Zenon DEF Reconcile
  <2>4. ASSUME NEW i \in LeftBehind, UNCHANGED <<receipts, session, quiet>>,
               \/ \E status \in {"completed", "ready"} : SetRow(i, Settled(items[i], status))
               \/ \E e \in {"SOURCE_DELETE_FAILED", "RECONCILIATION_REQUIRED"} :
                    SetRow(i, Parked(items[i], NULL, e))
        PROVE  OperationEnds(i)
    BY <2>1, <2>4 DEF OperationEnds
  <2> QED BY <2>1, <2>3, <2>4
<1>6. CASE Filing("scheduler")
  BY <1>6, FilingUses DEF Thread
<1>7. CASE Claim
  BY <1>7 DEF Claim, OtherStatement, Process
<1>8. CASE StartReading \/ ReadingEnds \/ StartAnalysis \/ save_initial_and_transition
  <2>1. at["scheduler"] \in {"claimed", "extracting", "authorize", "save"}
    BY <1>8 DEF StartReading, ReadingEnds, StartAnalysis, save_initial_and_transition
  <2>2. doc["scheduler"] \in Item
    BY <1>1, <2>1 DEF Busy
  <2>3. \/ UNCHANGED storeVars
        \/ transition(me, doc["scheduler"], "extracting", "needs_review", "UPLOADER_UNVERIFIED")
        \/ transition(me, doc["scheduler"], "extracting", "queued", "none")
        \/ transition(me, doc["scheduler"], "extracting", "analyzing", "none")
        \/ transition(me, doc["scheduler"], "analyzing", "needs_review", "UPLOADER_UNVERIFIED")
        \/ \E next \in {"ready", "needs_review"} :
             transition(me, doc["scheduler"], "analyzing", next, "none")
    BY <1>8 DEF StartReading, ReadingEnds, StartAnalysis, save_initial_and_transition, TransitionOr
  <2> QED BY <2>2, <2>3, Transits DEF ReviewErrors
<1>9. CASE ReadingFails \/ CountTwice \/ AnalysisFailed \/ GraceEnds
  <2>1. at["scheduler"] \in {"extracting", "unrestarted", "analyzing", "grace"}
    BY <1>9 DEF ReadingFails, CountTwice, AnalysisFailed, GraceEnds
  <2>2. doc["scheduler"] \in Item
    BY <1>1, <2>1 DEF Busy
  <2>3. \/ UNCHANGED storeVars
        \/ record_processing_failure(me, doc["scheduler"])
        \/ record_recovered_failure(me, doc["scheduler"])
    BY <1>9 DEF ReadingFails, CountTwice, AnalysisFailed, GraceEnds, AnalysisFails
  <2> QED BY <2>2, <2>3 DEF OtherStatement, Process
<1> QED BY <1>2, <1>3, <1>4, <1>5, <1>6, <1>7, <1>8, <1>9 DEF Scheduler

\* And so do a person's commands, but for the one that asks for another reading.
LEMMA PersonUses ==
  ASSUME Places, FilingOwnsItsRow, FilingIsAlone, Person
  PROVE  OtherUse \/ retry
<1> USE DEF OtherUse
<1>1. at["person"] \in Busy => doc["person"] \in Item
  BY DEF Places, Thread
<1>2. CASE pause \/ resume \/ Look \/ ChangeRule \/ delete_proposal \/ StopBoundary \/ learn_from_edit
  BY <1>2 DEF pause, resume, Look, ChangeRule, delete_proposal, StopBoundary, learn_from_edit
<1>3. CASE Enqueue
  BY <1>3 DEF Enqueue, OtherStatement
<1>4. CASE Dismiss
  BY <1>4 DEF Dismiss, OtherStatement
<1>5. CASE flag_duplicate \/ Cancel \/ Approve
  <2>1. at["person"] \in {"flag", "cancel", "approve"}
    BY <1>5 DEF flag_duplicate, Cancel, Approve
  <2>2. doc["person"] \in Item
    BY <1>1, <2>1 DEF Busy
  <2>3. \/ UNCHANGED storeVars
        \/ transition(me, doc["person"], "queued", "needs_review", "DUPLICATE")
        \/ transition(me, doc["person"], saw.status, "canceled", "none")
        \/ approve_user_edit(me, doc["person"], saw.status)
    BY <1>5 DEF flag_duplicate, Cancel, Approve
  <2>4. ASSUME approve_user_edit(me, doc["person"], saw.status)
        PROVE  OtherStatement
    BY <2>2, <2>4 DEF approve_user_edit, OtherStatement
  <2>5. /\ "DUPLICATE" \in ReviewErrors("queued", "needs_review")
        /\ "none" \in ReviewErrors(saw.status, "canceled")
    BY DEF ReviewErrors
  <2> QED BY <2>2, <2>3, <2>4, <2>5, Transits, Zenon
<1>6. CASE Filing("person")
  BY <1>6, FilingUses DEF Thread
<1> QED BY <1>2, <1>3, <1>4, <1>5, <1>6 DEF Person, CommandGoesOn

\* Nothing but a retry asks for another reading of a document.
LEMMA NextOtherUses ==
  ASSUME Places, FilingOwnsItsRow, FilingIsAlone, ProcessingNext
  PROVE  OtherUse \/ retry
<1>1. CASE Boundaries
  BY <1>1 DEF Boundaries, WorkerAnswers, ModelAnswers, ModelRecovers, LateEnds, KeeperEnds,
     OtherUse, OtherStatement
<1>2. CASE Time
  BY <1>2 DEF Time, OtherUse, OtherStatement
<1> QED BY <1>1, <1>2, SchedulerUses, PersonUses DEF ProcessingNext

\* Every step of the pipeline is a statement, an operation's end, or leaves
\* the store alone.
LEMMA NextUses ==
  ASSUME Places, FilingOwnsItsRow, FilingIsAlone, ProcessingNext
  PROVE  UsesTheStore
<1>1. CASE retry
  BY <1>1 DEF retry, UsesTheStore, Statement, Decide
<1>2. ASSUME OtherStatement PROVE Statement
  BY <1>2, Zenon DEF OtherStatement, Statement, Decide
<1> QED BY <1>1, <1>2, NextOtherUses DEF UsesTheStore, OtherUse

-----------------------------------------------------------------------------
(* Filing *)

\* No statement but the operation's own end takes an applying row from this
\* process: what a person decides is about rows at rest, and what recovery
\* takes back was being read.
LEMMA StatementsKeepApplying ==
  ASSUME IInv, Statement, NEW j \in Item, items[j].status = "applying", items[j].owner = me
  PROVE  items'[j].status = "applying" /\ items'[j].owner = me
<1>1. items \in [Item -> Row] /\ items[j] \in Row /\ items[j].status \in Active
  BY DEF IInv, TypeOK, Active
<1>2. CASE Tick \/ claim_next_none(me) \/ renew_lease_refused(me)
  BY <1>1, <1>2 DEF Tick, Row, claim_next_none, renew_lease_refused
<1>3. CASE recover_interrupted(me)
  BY <1>1, <1>3 DEF recover_interrupted, Processing
<1>4. ASSUME NEW Gone \in SUBSET Item, DeleteRows(Gone), j \notin Gone
      PROVE  items'[j] = items[j]
  BY <1>4 DEF DeleteRows
<1>5. CASE clear_terminal(me) \/ discard_queued(me)
  BY <1>4, <1>5 DEF clear_terminal, discard_queued, WithStatus
<1>6. ASSUME NEW i \in Item, NEW row, SetRow(i, row), i # j
      PROVE  items'[j] = items[j]
  BY <1>1, <1>6 DEF SetRow
<1>7. ASSUME NEW i \in Item, Process(me, i)
      PROVE  items'[j].status = "applying" /\ items'[j].owner = me
  <2>1. CASE renew_lease(me, i)
    <3>1. items'[j] = IF i = j THEN Owned(items[j], me) ELSE items[j]
      BY <1>1, <2>1 DEF renew_lease, SetRow
    <3> QED BY <1>1, <3>1 DEF Owned, Row
  <2>2. CASE ~ renew_lease(me, i)
    <3>1. i # j
      BY <1>7, <2>2 DEF Process, claim_next, transition, CanTransition, record_processing_failure,
         record_recovered_failure, Processing
    <3>2. \E row : SetRow(i, row)
      BY <1>7, <2>2, Zenon DEF Process, claim_next, ClaimRow, transition, record_processing_failure,
         record_recovered_failure
    <3> QED BY <1>6, <3>1, <3>2
  <2> QED BY <2>1, <2>2
<1>8. ASSUME NEW i \in Item, Decide(me, i)
      PROVE  items'[j].status = "applying" /\ items'[j].owner = me
  <2>1. i # j
    BY <1>1, <1>8 DEF Decide, enqueue, manual_retry, complete_keep_original, retry_duplicate,
       cas_status, retry_unverified, retry_canceled, mark_needs_review, approve_user_edit, remove_item
  <2>2. CASE remove_item(me, i)
    BY <1>4, <2>1, <2>2 DEF remove_item
  <2>3. CASE ~ remove_item(me, i)
    <3>1. \E row : SetRow(i, row)
      BY <1>8, <2>3, Zenon DEF Decide, enqueue, manual_retry, complete_keep_original, retry_duplicate,
         cas_status, retry_unverified, retry_canceled, ReadAgain, mark_needs_review, approve_user_edit
    <3> QED BY <1>6, <2>1, <3>1
  <2> QED BY <2>2, <2>3
<1>9. ASSUME NEW i \in Item, begin_applying(me, i, "ready")
      PROVE  items'[j].status = "applying" /\ items'[j].owner = me
  BY <1>6, <1>9 DEF begin_applying
<1> QED BY <1>2, <1>3, <1>5, <1>7, <1>8, <1>9 DEF Statement

\* The store's invariant survives an operation's end.
LEMMA OperationEndsStep ==
  ASSUME IInv, NEW i \in Item, OperationEnds(i)
  PROVE  IInv'
<1>1. me \in Session
  BY SessionAssumption
<1>2. CASE resolve_empty_applying(me, i)
  BY <1>1, <1>2, resolve_empty_applyingStep
<1>3. items[i] \in Row /\ GoodRow(i, items[i]) /\ items[i].status = "applying"
  BY ItemIsGood DEF OperationEnds
<1>4. quiet' = quiet => quiet' \in [Session -> 0..LEASE_SECONDS]
  BY DEF IInv, TypeOK
<1>5. ASSUME NEW row \in Row, SetRow(i, row), UNCHANGED <<receipts, session, quiet>>,
             row.status \in {"completed", "ready", "needs_review"}, row.owner = NoSession,
             row.active = NULL, row.begun = items[i].begun
      PROVE  IInv'
  <2>1. GoodRow(i, row)
    BY <1>3, <1>5 DEF GoodRow, Active, Processing, NoRow
  <2> QED BY <1>4, <1>5, <2>1, RowStep DEF JournalKept
<1>6. ASSUME NEW status \in {"completed", "ready"}, SetRow(i, Settled(items[i], status)),
             UNCHANGED <<receipts, session, quiet>>
      PROVE  IInv'
  <2>1. Settled(items[i], status) \in Row
    BY <1>3, RowTypes DEF Status
  <2>2. /\ Settled(items[i], status).status = status /\ Settled(items[i], status).owner = NoSession
        /\ Settled(items[i], status).active = NULL
        /\ Settled(items[i], status).begun = items[i].begun
    BY <1>3 DEF Settled, Disowned, Row
  <2> QED BY <1>5, <1>6, <2>1, <2>2
<1>7. ASSUME NEW e \in {"SOURCE_DELETE_FAILED", "RECONCILIATION_REQUIRED"},
             SetRow(i, Parked(items[i], NULL, e)),
             UNCHANGED <<receipts, session, quiet>>
      PROVE  IInv'
  <2>1. Parked(items[i], NULL, e) \in Row
    <3>1. "needs_review" \in Status \cup NoRow
      BY Columns, Zenon
    <3>2. NULL \in ReceiptId \cup {NULL}
      BY Zenon
    <3>3. Disowned(items[i]) \in Row
      BY <1>3, Columns, Zenon DEF Disowned, Row
    <3>4. e \in ErrorCode
      BY DEF ErrorCode
    <3> QED BY <3>1, <3>2, <3>3, <3>4, Columns, Zenon DEF Parked, Row
  <2>2. /\ Parked(items[i], NULL, e).status = "needs_review"
        /\ Parked(items[i], NULL, e).owner = NoSession
        /\ Parked(items[i], NULL, e).active = NULL
        /\ Parked(items[i], NULL, e).begun = items[i].begun
    BY <1>3 DEF Parked, Disowned, Row
  <2> QED BY <1>5, <1>7, <2>1, <2>2
<1> QED BY <1>2, <1>6, <1>7 DEF OperationEnds

\* So the pipeline keeps the store's invariant.
LEMMA NextStore ==
  ASSUME IInv, UsesTheStore
  PROVE  IInv'
<1>1. me \in Session
  BY SessionAssumption
<1>2. CASE UNCHANGED storeVars
  BY <1>2, NextIInv
<1>3. CASE Statement
  <2>1. ASSUME NEW i \in Item, begin_applying(me, i, "ready")
        PROVE  Apply(me, i)
    BY <2>1 DEF Apply
  <2>2. Next
    BY <1>1, <1>3, <2>1 DEF Statement, Next, Step
  <2> QED BY <2>2, NextIInv
<1> QED BY <1>2, <1>3, OperationEndsStep DEF UsesTheStore
-----------------------------------------------------------------------------
(* The pipeline's invariant *)

\* No two threads file, because no two rows are ever applying: a thread that
\* begins to file finds no other row that is, and its own was ready.
PInv == IInv /\ Places /\ FilingOwnsItsRow /\ FilingIsAlone

\* What a thread files stays its own until the operation ends.
LEMMA NextKeepsFiling ==
  ASSUME PInv, ProcessingNext
  PROVE  (FilingOwnsItsRow /\ FilingIsAlone)'
<1> USE DEF PInv
<1>1. UsesTheStore /\ KeepsToIt
  BY NextUses, NextPlaces
<1>2. items \in [Item -> Row]
  BY DEF IInv, TypeOK
<1>3. ASSUME NEW t \in Thread, BeginFiling(t), at'[t] = "filing"
      PROVE  /\ doc' = doc /\ doc[t] \in Item /\ at' = [at EXCEPT ![t] = "filing"]
             /\ items'[doc[t]].status = "applying" /\ items'[doc[t]].owner = me
             /\ \A u \in Thread : at[u] # "filing"
  <2>1. at[t] = "begin" /\ doc[t] \in Item
    BY <1>3 DEF BeginFiling, Places, Busy
  <2>2. /\ items[doc[t]].status = "ready" /\ NoOtherActive(doc[t])
        /\ begin_applying(me, doc[t], "ready") /\ Go(t, "filing") /\ UNCHANGED doc
    <3>1. CASE items[doc[t]].status = "ready" /\ NoOtherActive(doc[t])
      BY <1>3, <3>1 DEF BeginFiling
    <3>2. CASE ~ (items[doc[t]].status = "ready" /\ NoOtherActive(doc[t]))
      BY <1>3, <3>2 DEF BeginFiling, Done, Go, Places
    <3> QED BY <3>1, <3>2
  <2>3. items'[doc[t]].status = "applying" /\ items'[doc[t]].owner = me
    BY <1>2, <2>1, <2>2 DEF begin_applying, SetRow, Owned, Row
  <2>4. ASSUME NEW u \in Thread, at[u] = "filing" PROVE FALSE
    <3>1. items[doc[u]].status = "applying" /\ doc[u] \in Item
      BY <2>4 DEF FilingOwnsItsRow, Places, Busy
    <3> QED BY <2>2, <3>1 DEF NoOtherActive, Active
  <2> QED BY <2>1, <2>2, <2>3, <2>4 DEF Go
<1>4. ASSUME NEW u \in Thread, at[u] = "filing", at'[u] = "filing", doc'[u] = doc[u]
      PROVE  items'[doc[u]].status = "applying" /\ items'[doc[u]].owner = me
  <2>1. items[doc[u]].status = "applying" /\ items[doc[u]].owner = me /\ doc[u] \in Item
    BY <1>4 DEF FilingOwnsItsRow, Places, Busy
  <2>2. CASE UNCHANGED storeVars
    BY <2>1, <2>2 DEF storeVars
  <2>3. CASE Statement
    BY <2>1, <2>3, StatementsKeepApplying
  <2>4. ASSUME NEW i \in Item, OperationEnds(i)
        PROVE  items'[doc[u]] = items[doc[u]]
    <3>1. i # doc[u] /\ items[i].status = "applying"
      BY <1>4, <2>4 DEF OperationEnds
    <3> QED BY <2>1, <3>1 DEF IInv, OneDocumentAtATime, Active
  <2> QED BY <1>1, <2>1, <2>2, <2>3, <2>4 DEF UsesTheStore
<1>5. FilingOwnsItsRow'
  BY <1>1, <1>3, <1>4 DEF FilingOwnsItsRow, KeepsToIt
<1>6. FilingIsAlone'
  BY <1>1, <1>3 DEF FilingIsAlone, KeepsToIt, Places
<1> QED BY <1>5, <1>6

\* One document is waiting when the program starts, and nobody is busy.
LEMMA InitPInv == ProcessingInit => PInv
<1> SUFFICES ASSUME ProcessingInit PROVE PInv
  OBVIOUS
<1> USE DEF ProcessingInit
<1>1. EmptyRow \in Row
  BY SMT, Columns DEF EmptyRow, Row
<1>2. [EmptyRow EXCEPT !.status = "queued"] \in Row
  BY <1>1, Columns, Zenon DEF Row
<1>3. EmptyReceipt \in Receipt
  BY DEF EmptyReceipt, Receipt, Direction, NoRow
<1>4. /\ \A i \in Item : items[i] = IF i = 1 THEN [EmptyRow EXCEPT !.status = "queued"] ELSE EmptyRow
      /\ items \in [Item -> Row]
  BY <1>1, <1>2
<1>5. TypeOK
  BY <1>3, <1>4, LeaseAssumption DEF TypeOK
<1>6. /\ \A i \in Item : /\ items[i].status \in {"absent", "queued"}
                         /\ items[i].owner = NoSession
                         /\ items[i].active = NULL
                         /\ items[i].failures = 0
      /\ \A r \in ReceiptId : receipts[r].item = 0 /\ receipts[r].stage = "absent"
      /\ 0 \notin Item
  <2>1. /\ EmptyRow.status = "absent" /\ EmptyRow.owner = NoSession /\ EmptyRow.active = NULL
        /\ EmptyRow.failures = 0
    BY DEF EmptyRow
  <2>2. \A row \in Row : LET queued == [row EXCEPT !.status = "queued"] IN
           /\ queued.status = "queued" /\ queued.owner = row.owner
           /\ queued.active = row.active /\ queued.failures = row.failures
    BY DEF Row
  <2>3. \A r \in ReceiptId : receipts[r].item = 0 /\ receipts[r].stage = "absent"
    BY DEF EmptyReceipt
  <2>4. 0 \notin Item
    BY DEF Item
  <2> QED BY <1>1, <1>4, <2>1, <2>2, <2>3, <2>4
<1>7. Places /\ FilingOwnsItsRow /\ FilingIsAlone
  BY DEF Places, FilingOwnsItsRow, FilingIsAlone, Place, Busy
<1> HIDE DEF ProcessingInit
<1>8. OneDocumentAtATime /\ OwnedRowsAreActive
  BY <1>6 DEF OneDocumentAtATime, OwnedRowsAreActive, Active, Processing
<1>9. ReceiptsAreNumbered /\ ReceiptsHaveBegun /\ UnfinishedReceiptIsNewest
  BY <1>6 DEF ReceiptsAreNumbered, ReceiptsHaveBegun, UnfinishedReceiptIsNewest, Unfinished
<1>10. ActiveReceiptIsTheOperation /\ EmptyApplyingCanBeResolved /\ NoThirdAttempt
  BY <1>6 DEF ActiveReceiptIsTheOperation, EmptyApplyingCanBeResolved, NoThirdAttempt,
              Processing
<1> QED
  BY <1>5, <1>7, <1>8, <1>9, <1>10 DEF PInv, IInv

\* Every step keeps it.
LEMMA NextPInv == PInv /\ [ProcessingNext]_vars => PInv'
<1> SUFFICES ASSUME PInv, [ProcessingNext]_vars PROVE PInv'
  OBVIOUS
<1>1. CASE ProcessingNext
  <2>1. UsesTheStore
    BY <1>1, NextUses DEF PInv
  <2> QED BY <1>1, <2>1, NextStore, NextPlaces, NextKeepsFiling DEF PInv
<1>2. CASE UNCHANGED vars
  <2>1. IInv'
    BY <1>2, NextStore DEF PInv, UsesTheStore, vars
  <2>2. (Places /\ FilingOwnsItsRow /\ FilingIsAlone)'
    BY <1>2 DEF PInv, vars, threadVars, storeVars, Places, FilingOwnsItsRow, FilingIsAlone
  <2> QED BY <2>1, <2>2 DEF PInv
<1> QED BY <1>1, <1>2

\* The invariant holds however many documents and commands there are, and
\* whatever fails.
THEOREM PipelineInvariance == ProcessingSpec => []PInv
  BY InitPInv, NextPInv, PTL DEF ProcessingSpec

\* The scheduler and a person's commands never have two documents active at
\* once, whichever steps of theirs come between which (run_next_inner,
\* apply_if_unchanged).
THEOREM PipelineOneAtATime == ProcessingSpec => []OneDocumentAtATime
  BY PipelineInvariance, PTL DEF PInv, IInv

\* Of the two threads at most one is inside rename_file at any moment, with
\* a row that is applying and belongs to this process: what FileOps assumes
\* of whoever calls it.
THEOREM FilingIsExclusive == ProcessingSpec => [](FilingOwnsItsRow /\ FilingIsAlone)
  BY PipelineInvariance, PTL DEF PInv

\* Nor does either thread change a row but by a statement of the store, or
\* by ending the operation that row was taken for.
THEOREM PipelineUsesTheStore == ProcessingSpec => [][Statement \/ \E i \in Item : OperationEnds(i)]_storeVars
<1>1. PInv /\ [ProcessingNext]_vars => [Statement \/ \E i \in Item : OperationEnds(i)]_storeVars
  <2> SUFFICES ASSUME PInv, [ProcessingNext]_vars
               PROVE  [Statement \/ \E i \in Item : OperationEnds(i)]_storeVars
    OBVIOUS
  <2>1. CASE ProcessingNext
    BY <2>1, NextUses DEF PInv, UsesTheStore
  <2>2. CASE UNCHANGED vars
    BY <2>2 DEF vars
  <2> QED BY <2>1, <2>2
<1> QED BY <1>1, PipelineInvariance, PTL DEF ProcessingSpec

\* The pipeline never counts a third attempt against a document it goes on
\* reading.
THEOREM PipelineReadsTwice == ProcessingSpec => []NoThirdAttempt
  BY PipelineInvariance, PTL DEF PInv, IInv

-----------------------------------------------------------------------------
(* The pipeline is one lane *)

\* An operation's end takes its document out of the lane, like every other
\* use of the store.
LEMMA UseLives ==
  ASSUME LInv, UsesTheStore
  PROVE  Lives
<1>1. me \in Session /\ IInv'
  BY SessionAssumption, NextStore DEF LInv
<1>2. CASE UNCHANGED storeVars
  BY <1>2, NothingShown DEF storeVars
<1>3. CASE Statement
  <2>1. ASSUME NEW i \in Item, begin_applying(me, i, "ready")
        PROVE  Apply(me, i)
    BY <2>1 DEF Apply
  <2>2. Next
    BY <1>1, <1>3, <2>1 DEF Statement, Next, Step
  <2> QED
    BY <2>2, NextLives
<1>4. ASSUME NEW i \in Item, OperationEnds(i)
      PROVE  Lives
  <2>1. CASE resolve_empty_applying(me, i)
    BY <1>1, <2>1, SettlingLives
  <2>2. ASSUME NEW status \in {"completed", "ready"}, SetRow(i, Settled(items[i], status))
        PROVE  Lives
    BY <1>1, <1>4, <2>2, SettledLives DEF OperationEnds
  <2>3. ASSUME NEW e, SetRow(i, Parked(items[i], NULL, e))
        PROVE  Lives
    BY <1>1, <1>4, <2>3, ParkedLives DEF OperationEnds
  <2> QED
    BY <1>4, <2>1, <2>2, <2>3 DEF OperationEnds
<1> QED
  BY <1>2, <1>3, <1>4 DEF UsesTheStore

\* The pipeline implements the lifecycle the store implements: the scheduler,
\* a person's commands, and what is found of an operation that ended move the
\* documents one at a time, from where the work starts to where it may end.
THEOREM PipelineIsOneLane == ProcessingSpec => OneLane
<1>1. ProcessingInit => PInv /\ NothingLeftWhenReady /\ Life!Init
  <2> SUFFICES ASSUME ProcessingInit PROVE PInv /\ NothingLeftWhenReady /\ Life!Init
    OBVIOUS
  <2>1. \A i \in Item : items[i].status \in {"absent", "queued"}
    BY DEF ProcessingInit, EmptyRow
  <2>2. PInv
    BY InitPInv
  <2>3. Life!Init
    BY <2>1, <2>2, AtRestBegins DEF PInv, Active, Processing
  <2> QED
    BY <2>1, <2>2, <2>3 DEF NothingLeftWhenReady
<1>2. PInv /\ NothingLeftWhenReady /\ [ProcessingNext]_vars =>
        PInv' /\ NothingLeftWhenReady' /\ [Life!Next]_Shown
  <2> SUFFICES ASSUME PInv, NothingLeftWhenReady, [ProcessingNext]_vars
               PROVE  PInv' /\ NothingLeftWhenReady' /\ [Life!Next]_Shown
    OBVIOUS
  <2>1. PInv'
    BY NextPInv
  <2>2. UsesTheStore
    BY NextUses DEF PInv, UsesTheStore, vars
  <2>3. Lives
    BY <2>2, UseLives DEF PInv, LInv
  <2> QED
    BY <2>1, <2>3 DEF Lives, LivesOn
<1> QED
  BY <1>1, <1>2, PTL DEF ProcessingSpec, OneLane, Life!Spec

-----------------------------------------------------------------------------
(* What an earlier reading left *)

\* Codes of a review that came before the analysis.
Verdicts == {"DUPLICATE", "UPLOADER_UNVERIFIED"}

\* A document that is ready carries none of them, so that mark_needs_review,
\* which leaves the code alone, does not make an analyzed document look like
\* one that was never read.
CleanWhenReady == \A i \in Item : items[i].status = "ready" => items[i].error \notin Verdicts

Unread(i) == items[i].status = "absent" \/ ToBeRead(i)

Fresh == \A i \in Item : Unread(i) => record[i] = NoProposal \/ BeingDiscarded(i)

\* A row becomes ready without a verdict, and to be read only from being so.
KeepsRead(i) ==
  /\ items'[i].status = "ready" => items'[i].error \notin Verdicts
  /\ Unread(i)' => Unread(i)

\* A statement that rewrites one row.
LEMMA RowRewritten ==
  ASSUME IInv, NEW i \in Item, NEW row, SetRow(i, row)
  PROVE  items[i] \in Row /\ items'[i] = row /\ \A j \in Item \ {i} : items'[j] = items[j]
BY DEF IInv, TypeOK, SetRow

\* It keeps every document read that its own row keeps read.
LEMMA OneRowKeepsRead ==
  ASSUME CleanWhenReady, NEW i \in Item, \A j \in Item \ {i} : items'[j] = items[j],
         items'[i].status = "ready" => items'[i].error \notin Verdicts,
         \/ items'[i].status \notin {"absent", "queued", "needs_review"} \cup Processing
         \/ items'[i].status = "needs_review" /\ items'[i].error \notin Verdicts
         \/ items[i].status \in {"absent", "queued"} \cup Processing
         \/ items[i].status = "needs_review" /\ items[i].error \in Verdicts
  PROVE  \A j \in Item : KeepsRead(j)
<1>1. KeepsRead(i)
  BY DEF KeepsRead, Unread, ToBeRead, Verdicts, Processing
<1>2. ASSUME NEW j \in Item \ {i} PROVE KeepsRead(j)
  BY <1>2 DEF KeepsRead, Unread, ToBeRead, CleanWhenReady
<1> QED BY <1>1, <1>2

\* A table whose rows keep their status and code keeps every document read.
LEMMA SameStatusKeepsRead ==
  ASSUME CleanWhenReady,
         \A i \in Item : items'[i].status = items[i].status /\ items'[i].error = items[i].error
  PROVE  \A i \in Item : KeepsRead(i)
BY DEF KeepsRead, Unread, ToBeRead, CleanWhenReady

\* So do rows that go.
LEMMA DeletedKeepsRead ==
  ASSUME CleanWhenReady, NEW Gone \in SUBSET Item, DeleteRows(Gone)
  PROVE  \A i \in Item : KeepsRead(i)
<1>1. \A i \in Gone : items'[i].status = "deleted"
  BY DEF DeleteRows, EmptyRow
<1>2. \A i \in Item \ Gone : items'[i] = items[i]
  BY DEF DeleteRows
<1>3. ASSUME NEW i \in Gone PROVE KeepsRead(i)
  BY <1>1, <1>3 DEF KeepsRead, Unread, ToBeRead, Processing
<1>4. ASSUME NEW i \in Item \ Gone PROVE KeepsRead(i)
  BY <1>2, <1>4 DEF KeepsRead, Unread, ToBeRead, CleanWhenReady
<1> QED BY <1>3, <1>4

\* The loop's statements are about documents that are to be read, or leave the
\* row's status alone.
LEMMA ProcessKeepsRead ==
  ASSUME IInv, CleanWhenReady, NEW i \in Item, Process(me, i)
  PROVE  \A j \in Item : KeepsRead(j)
<1>1. CASE claim_next(me, i)
  <2>1. /\ items[i] \in Row /\ items[i].status = "queued"
        /\ items'[i] = [Owned(items[i], me) EXCEPT !.status = "extracting", !.error = "none"]
        /\ \A j \in Item \ {i} : items'[j] = items[j]
    BY <1>1, RowRewritten DEF claim_next, ClaimRow
  <2>2. items'[i].status = "extracting"
    BY <2>1 DEF Owned, Row
  <2> QED BY <2>1, <2>2, OneRowKeepsRead
<1>2. CASE renew_lease(me, i)
  <2>1. /\ items[i] \in Row /\ items'[i] = Owned(items[i], me)
        /\ \A j \in Item \ {i} : items'[j] = items[j]
    BY <1>2, RowRewritten DEF renew_lease
  <2>2. items'[i].status = items[i].status /\ items'[i].error = items[i].error
    BY <2>1 DEF Owned, Row
  <2> QED BY <2>1, <2>2, SameStatusKeepsRead
<1>3. ASSUME NEW expected \in Status, NEW next \in Status,
             NEW e \in ReviewErrors(expected, next), transition(me, i, expected, next, e)
      PROVE  \A j \in Item : KeepsRead(j)
  <2> DEFINE row == IF next \in Active THEN Owned(items[i], me) ELSE Disowned(items[i])
  <2>1. /\ items[i] \in Row /\ items'[i] = [row EXCEPT !.status = next, !.error = e]
        /\ \A j \in Item \ {i} : items'[j] = items[j]
    BY <1>3, RowRewritten DEF transition
  <2>2. items'[i].status = next /\ items'[i].error = e
    BY <2>1 DEF Owned, Disowned, Row
  <2>3. items[i].status = expected /\ <<expected, next>> \in CanTransition
    BY <1>3 DEF transition
  <2>4. next = "ready" => e \notin Verdicts
    BY <1>3 DEF ReviewErrors, Verdicts
  <2>5. \/ expected \in {"queued"} \cup Processing
        \/ next \in {"ready", "canceled"}
    BY <2>3 DEF CanTransition, Processing
  <2> QED BY <2>1, <2>2, <2>3, <2>4, <2>5, OneRowKeepsRead DEF Processing
<1>4. CASE record_processing_failure(me, i) \/ record_recovered_failure(me, i)
  <2>1. /\ items[i] \in Row /\ items[i].status \in {"queued"} \cup Processing
        /\ \E row \in {items[i], Disowned(items[i])}, status \in {"failed", "queued"},
              n \in {items[i].failures + 1} :
             items'[i] = [row EXCEPT !.status = status, !.failures = n, !.error = "OTHER"]
        /\ \A j \in Item \ {i} : items'[j] = items[j]
    BY <1>4, RowRewritten, Zenon DEF record_processing_failure, record_recovered_failure
  <2>2. items'[i].status \in {"failed", "queued"}
    BY <2>1 DEF Disowned, Row
  <2> QED BY <2>1, <2>2, OneRowKeepsRead
<1> QED BY <1>1, <1>2, <1>3, <1>4 DEF Process

\* What a person decides about a document never makes it one to be read,
\* but for what was not read.
LEMMA DecisionKeepsRead ==
  ASSUME IInv, CleanWhenReady, NEW i \in Item,
         \/ enqueue(me, i) \/ retry_duplicate(me, i) \/ retry_unverified(me, i)
         \/ \E expected \in {"ready", "needs_review"} :
              complete_keep_original(me, i, expected) \/ approve_user_edit(me, i, expected)
         \/ mark_needs_review(me, i) \/ remove_item(me, i)
  PROVE  \A j \in Item : KeepsRead(j)
<1>1. CASE enqueue(me, i)
  <2>1. /\ items[i].status = "absent" /\ items'[i] = [EmptyRow EXCEPT !.status = "queued"]
        /\ \A j \in Item \ {i} : items'[j] = items[j]
    BY <1>1, RowRewritten DEF enqueue
  <2>2. items'[i].status = "queued"
    BY <2>1 DEF EmptyRow
  <2> QED BY <2>1, <2>2, OneRowKeepsRead
<1>2. CASE retry_duplicate(me, i) \/ retry_unverified(me, i)
  <2>1. items[i].status = "needs_review" /\ items[i].error \in Verdicts
    BY <1>2 DEF retry_duplicate, retry_unverified, cas_status, Verdicts
  <2>2. CASE retry_duplicate(me, i)
    <3>1. PICK n : /\ items[i] \in Row
                   /\ items'[i] = [Settled(items[i], "queued") EXCEPT !.failures = n]
                   /\ \A j \in Item \ {i} : items'[j] = items[j]
      <4>1. SetRow(i, [Settled(items[i], "queued") EXCEPT !.failures = IF TRUE THEN 0 ELSE @])
        BY <2>2 DEF retry_duplicate, cas_status
      <4>2. \E n : SetRow(i, [Settled(items[i], "queued") EXCEPT !.failures = n])
        BY <4>1, Zenon
      <4> QED BY <4>2, RowRewritten
    <3>2. /\ Settled(items[i], "queued").status = "queued"
          /\ "status" \in DOMAIN Settled(items[i], "queued")
      BY <3>1 DEF Settled, Disowned, Row
    <3>3. items'[i].status = "queued"
      BY <3>1, <3>2
    <3> QED BY <2>1, <3>1, <3>3, OneRowKeepsRead
  <2>3. CASE retry_unverified(me, i)
    <3>1. /\ items[i] \in Row /\ \A j \in Item \ {i} : items'[j] = items[j]
          /\ items'[i] = [Requeued(items[i]) EXCEPT !.failures = 0, !.error = "none"]
      BY <2>3, RowRewritten DEF retry_unverified, ReadAgain
    <3>2. items'[i].status = "queued"
      BY <3>1 DEF Requeued, Disowned, Row
    <3> QED BY <2>1, <3>1, <3>2, OneRowKeepsRead
  <2> QED BY <1>2, <2>2, <2>3
<1>3. ASSUME NEW expected \in {"ready", "needs_review"}, complete_keep_original(me, i, expected)
      PROVE  \A j \in Item : KeepsRead(j)
  <2>1. PICK n : /\ items[i] \in Row
                 /\ items'[i] = [Settled(items[i], "completed") EXCEPT !.failures = n]
                 /\ \A j \in Item \ {i} : items'[j] = items[j]
    <3>1. SetRow(i, [Settled(items[i], "completed") EXCEPT !.failures = IF FALSE THEN 0 ELSE @])
      BY <1>3 DEF complete_keep_original, cas_status
    <3>2. \E n : SetRow(i, [Settled(items[i], "completed") EXCEPT !.failures = n])
      BY <3>1, Zenon
    <3> QED BY <3>2, RowRewritten
  <2>2. items'[i].status = "completed"
    <3>1. /\ Settled(items[i], "completed").status = "completed"
          /\ "status" \in DOMAIN Settled(items[i], "completed")
      BY <2>1 DEF Settled, Disowned, Row
    <3> QED BY <2>1, <3>1
  <2> QED BY <2>1, <2>2, OneRowKeepsRead DEF Processing
<1>4. ASSUME NEW expected \in {"ready", "needs_review"}, approve_user_edit(me, i, expected)
      PROVE  \A j \in Item : KeepsRead(j)
  <2>1. /\ items[i] \in Row /\ items'[i] = [items[i] EXCEPT !.status = "ready", !.error = "none"]
        /\ \A j \in Item \ {i} : items'[j] = items[j]
    BY <1>4, RowRewritten DEF approve_user_edit
  <2>2. items'[i].status = "ready" /\ items'[i].error = "none"
    BY <2>1 DEF Row
  <2> QED BY <2>1, <2>2, OneRowKeepsRead DEF Processing, Verdicts
<1>5. CASE mark_needs_review(me, i)
  <2>1. /\ items[i] \in Row /\ items[i].status = "ready"
        /\ items'[i] = [items[i] EXCEPT !.status = "needs_review"]
        /\ \A j \in Item \ {i} : items'[j] = items[j]
    BY <1>5, RowRewritten DEF mark_needs_review
  <2>2. items'[i].status = "needs_review" /\ items'[i].error = items[i].error
    BY <2>1 DEF Row
  <2>3. items[i].error \notin Verdicts
    BY <2>1 DEF CleanWhenReady
  <2> QED BY <2>1, <2>2, <2>3, OneRowKeepsRead
<1>6. CASE remove_item(me, i)
  BY <1>6, DeletedKeepsRead DEF remove_item
<1> QED BY <1>1, <1>2, <1>3, <1>4, <1>5, <1>6

\* Nor does any other statement, nor the end of an operation.
LEMMA OtherUseKeepsRead ==
  ASSUME IInv, CleanWhenReady, OtherUse
  PROVE  \A j \in Item : KeepsRead(j)
<1>1. CASE UNCHANGED storeVars \/ claim_next_none(me) \/ renew_lease_refused(me)
  BY <1>1, SameStatusKeepsRead DEF storeVars, claim_next_none, renew_lease_refused
<1>2. CASE Tick
  <2>1. \A i \in Item : items[i] \in Row
    BY DEF IInv, TypeOK
  <2>2. \A i \in Item : items'[i].status = items[i].status /\ items'[i].error = items[i].error
    BY <1>2, <2>1 DEF Tick, Row
  <2> QED BY <2>2, SameStatusKeepsRead
<1>3. CASE recover_interrupted(me)
  <2>1. \A i \in Item : items[i] \in Row
    BY DEF IInv, TypeOK
  <2>2. ASSUME NEW i \in Item, items'[i] # items[i]
        PROVE  items[i].status \in Processing /\ items'[i].status = "queued"
    BY <1>3, <2>1, <2>2 DEF recover_interrupted, Requeued, Disowned, Row
  <2>3. ASSUME NEW i \in Item PROVE KeepsRead(i)
    <3>1. CASE items'[i] = items[i]
      BY <3>1 DEF KeepsRead, Unread, ToBeRead, CleanWhenReady
    <3>2. CASE items'[i] # items[i]
      BY <2>2, <3>2 DEF KeepsRead, Unread, ToBeRead
    <3> QED BY <3>1, <3>2
  <2> QED BY <2>3
<1>4. CASE clear_terminal(me) \/ discard_queued(me)
  BY <1>4, DeletedKeepsRead DEF clear_terminal, discard_queued, WithStatus
<1>5. ASSUME NEW i \in Item, Process(me, i) PROVE \A j \in Item : KeepsRead(j)
  BY <1>5, ProcessKeepsRead
<1>6. ASSUME NEW i \in Item, begin_applying(me, i, "ready") PROVE \A j \in Item : KeepsRead(j)
  <2>1. /\ items[i] \in Row /\ \A j \in Item \ {i} : items'[j] = items[j]
        /\ items'[i] = [Owned(items[i], me) EXCEPT
                          !.status = "applying", !.prev = "ready", !.active = NULL,
                          !.recon = NULL, !.begun = TRUE, !.error = "none"]
    BY <1>6, RowRewritten DEF begin_applying
  <2>2. items'[i].status = "applying"
    BY <2>1 DEF Owned, Row
  <2> QED BY <2>1, <2>2, OneRowKeepsRead DEF Processing
<1>7. ASSUME NEW i \in Item, OperationEnds(i) PROVE \A j \in Item : KeepsRead(j)
  <2>1. ASSUME NEW status \in {"completed", "ready"}, SetRow(i, Settled(items[i], status))
        PROVE  \A j \in Item : KeepsRead(j)
    <3>1. /\ items[i] \in Row /\ items'[i] = Settled(items[i], status)
          /\ \A j \in Item \ {i} : items'[j] = items[j]
      BY <2>1, RowRewritten
    <3>2. items'[i].status = status /\ items'[i].error = "none"
      BY <3>1 DEF Settled, Disowned, Row
    <3> QED BY <3>1, <3>2, OneRowKeepsRead DEF Processing, Verdicts
  <2>2. ASSUME NEW e \in {"SOURCE_DELETE_FAILED", "RECONCILIATION_REQUIRED"},
               SetRow(i, Parked(items[i], NULL, e))
        PROVE  \A j \in Item : KeepsRead(j)
    <3>1. /\ items[i] \in Row /\ items'[i] = Parked(items[i], NULL, e)
          /\ \A j \in Item \ {i} : items'[j] = items[j]
      BY <2>2, RowRewritten
    <3>2. items'[i].status = "needs_review" /\ items'[i].error = e
      BY <3>1 DEF Parked, Disowned, Row
    <3> QED BY <3>1, <3>2, OneRowKeepsRead DEF Verdicts
  <2>3. CASE resolve_empty_applying(me, i)
    <3>1. items[i].prev \in {"completed", "ready"}
      BY <1>7 DEF OperationEnds, IInv, EmptyApplyingCanBeResolved
    <3> QED BY <2>1, <2>3, <3>1 DEF resolve_empty_applying
  <2> QED BY <1>7, <2>1, <2>2, <2>3 DEF OperationEnds
<1> QED BY <1>1, <1>2, <1>3, <1>4, <1>5, <1>6, <1>7, DecisionKeepsRead DEF OtherUse, OtherStatement

-----------------------------------------------------------------------------
(* Types, and the keeper's life *)

\* The loop leaves what it keeps of its type, and whichever way it leaves a
\* reading, the keeper goes with it (LeaseKeeper's drop).
LEMMA SchedulerKeepsTypes ==
  ASSUME PInv, PInv', ProcessingTypeOK, Scheduler, ~ Filing("scheduler")
  PROVE  ProcessingTypeOK'
<1> USE DEF PInv, Places, Thread, Go, Leave, LeaveAbout, ProcessingTypeOK, Reading, boundaryVars,
   threadVars, IInv, Name
<1>1. CASE Receive
  BY <1>1, LeaseAssumption DEF Receive
<1>2. CASE RecoverInterrupted
  BY <1>2, LeaseAssumption DEF RecoverInterrupted
<1>3. CASE CountRecovered
  BY <1>3 DEF CountRecovered
<1>4. CASE Reconcile
  BY <1>4 DEF Reconcile
<1>5. CASE CollectReady
  BY <1>5 DEF CollectReady
<1>6. CASE NextReady
  BY <1>6 DEF NextReady
<1>7. CASE Claim
  BY <1>7 DEF Claim
<1>8. CASE StartReading
  BY <1>8 DEF StartReading, TransitionOr
<1>9. CASE ReadingFails
  BY <1>9 DEF ReadingFails
<1>10. CASE CountTwice
  BY <1>10 DEF CountTwice
<1>11. CASE ReadingEnds
  BY <1>11 DEF ReadingEnds, TransitionOr, readingVars
<1>12. CASE StartAnalysis
  BY <1>12 DEF StartAnalysis, TransitionOr, Unanswered, Asked
<1>13. CASE Deadline
  BY <1>13 DEF Deadline, ModelCancel, Disturbed, LateDisturbed, Asked, AskedAgain, Unanswered
<1>14. CASE AnalysisFailed
  BY <1>14 DEF AnalysisFailed, AnalysisFails
<1>15. CASE GraceEnds
  BY <1>15 DEF GraceEnds, AnalysisFails, Asked, AskedAgain, Unanswered
<1>16. CASE Compose
  BY <1>16 DEF Compose, compose_for_target
<1>17. CASE save_initial_and_transition
  <2>1. record' \in [Item -> ProposalRecord]
    <3>1. ASSUME NEW i \in Item
          PROVE  [record EXCEPT ![i] = [NoProposal EXCEPT !.name = held, !.house_rules = held = "styled"]]
                   \in [Item -> ProposalRecord]
      BY DEF NoProposal, ProposalRecord
    <3> QED BY <1>17, <3>1 DEF save_initial_and_transition
  <2>2. CASE \E place \in {"idle", "collect"} : Leave(place)
    BY <1>17, <2>1, <2>2 DEF save_initial_and_transition
  <2>3. CASE \A place \in {"idle", "collect"} : ~ Leave(place)
    BY <1>17, <2>1, <2>3 DEF save_initial_and_transition
  <2> QED BY <2>2, <2>3
<1> QED
  BY <1>1, <1>2, <1>3, <1>4, <1>5, <1>6, <1>7, <1>8, <1>9, <1>10, <1>11, <1>12, <1>13, <1>14, <1>15,
     <1>16, <1>17 DEF Scheduler

\* Filing takes an approval away at most, and is no reading.
LEMMA FilingKeepsTypes ==
  ASSUME PInv, PInv', ProcessingTypeOK, NEW t \in Thread, Filing(t)
  PROVE  ProcessingTypeOK'
<1>1. record' \in [Item -> ProposalRecord]
  <2>1. ASSUME NEW i \in Item
        PROVE  [record EXCEPT ![i].approved = FALSE] \in [Item -> ProposalRecord]
    BY DEF ProposalRecord, ProcessingTypeOK
  <2>2. at[t] \in {"apply", "begin", "filing", "unfiled"}
    BY DEF Filing, CheckUnchanged, BeginFiling, EndFiling, MarkUnfiled
  <2>3. doc[t] \in Item
    BY <2>2 DEF PInv, Places, Busy
  <2>4. UNCHANGED record \/ record' = [record EXCEPT ![doc[t]].approved = FALSE]
    BY DEF Filing, CheckUnchanged, BeginFiling, EndFiling, MarkUnfiled, mark_for_review
  <2> QED BY <2>1, <2>3, <2>4 DEF ProcessingTypeOK
<1>2. /\ at[t] \in {"apply", "begin", "filing", "unfiled"}
      /\ \/ \E place \in {"begin", "filing", "unfiled"} : Go(t, place)
         \/ Go(t, IF t = "scheduler" THEN "list" ELSE "idle")
      /\ UNCHANGED <<held, active_item, boundaryVars, waited>>
  BY DEF Filing, CheckUnchanged, BeginFiling, EndFiling, MarkUnfiled, Done
<1> QED BY <1>1, <1>2 DEF PInv, Places, Thread, Go, ProcessingTypeOK, Reading, boundaryVars, IInv

\* So do a person's commands: what they write is a proposal (approve,
\* restyle_waiting, delete_proposal), and they stop a reading by its worker or
\* its model, never by the keeper.
LEMMA PersonKeepsTypes ==
  ASSUME PInv, PInv', ProcessingTypeOK, Person, ~ Filing("person")
  PROVE  ProcessingTypeOK'
<1> USE DEF PInv, Places, Thread, IInv
<1>1. CASE Enqueue \/ retry \/ flag_duplicate \/ Look \/ Cancel \/ pause \/ resume
  BY <1>1 DEF Enqueue, retry, flag_duplicate, Look, Cancel, pause, resume, CommandOver, Go,
     ProcessingTypeOK, Reading, boundaryVars, threadVars
<1>2. CASE delete_proposal
  BY <1>2 DEF delete_proposal, CommandOver, Go, ProcessingTypeOK, Reading, boundaryVars,
     NoProposal, ProposalRecord, Name, Busy
<1>3. CASE Dismiss
  BY <1>3 DEF Dismiss, Forgotten, ProcessingTypeOK, Reading, boundaryVars, threadVars,
     NoProposal, ProposalRecord, Name
<1>4. CASE StopBoundary
  <2>1. /\ Disturbed(model) \in Unanswered \cup {"none", "answered", "failed", "unrecovered"}
        /\ LateDisturbed \in {"none", "running", "retrying", "failing"}
    BY DEF ProcessingTypeOK, Disturbed, LateDisturbed, Asked, AskedAgain, Unanswered
  <2>2. /\ model' \in Unanswered \cup {"none", "answered", "failed", "unrecovered"}
        /\ late' \in {"none", "running", "retrying", "failing"}
        /\ worker' \in {"none", "reading", "parsed", "failed", "lost", "canceled"}
    BY <1>4, <2>1 DEF StopBoundary, WorkerCancel, ModelCancel, ProcessingTypeOK
  <2>3. CommandOver /\ UNCHANGED <<held, todo, active_item, record, keeper, waited>>
    BY <1>4 DEF StopBoundary
  <2> QED BY <2>2, <2>3 DEF CommandOver, Go, ProcessingTypeOK, Reading
<1>5. CASE Approve
  BY <1>5 DEF Approve, CommandOver, Go, ProcessingTypeOK, Reading, boundaryVars, ProposalRecord, Name, Busy
<1>6. ASSUME NEW count, NEW i PROVE Restyled(record, count, i) \in [Item -> ProposalRecord]
  <2>1. ASSUME NEW j \in Item
        PROVE  [record[j] EXCEPT !.name = compose_for_target(count), !.house_rules = InForce(count)]
                 \in ProposalRecord
    <3>1. /\ record[j] \in [name : Name, house_rules : BOOLEAN, approved : BOOLEAN]
          /\ compose_for_target(count) \in Name
      BY DEF ProcessingTypeOK, ProposalRecord, Name, compose_for_target
    <3>2. InForce(count) \in BOOLEAN
      BY DEF InForce
    <3> QED BY <3>1, <3>2 DEF ProposalRecord
  <2> QED BY <2>1 DEF Restyled, ProcessingTypeOK
<1>7. CASE learn_from_edit
  BY <1>6, <1>7 DEF learn_from_edit, Go, ProcessingTypeOK, Reading, boundaryVars
<1>8. CASE ChangeRule
  BY <1>6, <1>8 DEF ChangeRule, ProcessingTypeOK, Reading, boundaryVars, threadVars
<1> QED BY <1>1, <1>2, <1>3, <1>4, <1>5, <1>7, <1>8 DEF Person, CommandGoesOn

\* Nor do the answers of the worker and the model, the keeper's end, and time.
LEMMA OthersKeepTypes ==
  ASSUME PInv, PInv', ProcessingTypeOK, Boundaries \/ Time
  PROVE  ProcessingTypeOK'
<1>0. /\ Disturbed(model) \in Unanswered \cup {"none", "answered", "failed", "unrecovered"}
      /\ late # "none" => late \in {"running", "retrying", "failing"}
      /\ LateDisturbed \in {"none", "running", "retrying", "failing"}
  BY DEF ProcessingTypeOK, Disturbed, LateDisturbed, Asked, AskedAgain, Unanswered
<1>1. CASE Time
  BY <1>1, LeaseAssumption DEF Time, PInv, IInv, ProcessingTypeOK, Reading, threadVars, boundaryVars
<1>2. CASE WorkerAnswers
  BY <1>2 DEF WorkerAnswers, PInv, IInv, ProcessingTypeOK, Reading, threadVars
<1>3. CASE ModelAnswers
  <2>1. model' \in Unanswered \cup {"none", "answered", "failed", "unrecovered"}
    BY <1>0, <1>3 DEF ModelAnswers, Asked, AskedAgain, Unanswered
  <2>2. UNCHANGED <<threadVars, active_item, keeper, worker, late, record, waited>>
    BY <1>3 DEF ModelAnswers
  <2> QED BY <2>1, <2>2 DEF PInv, IInv, ProcessingTypeOK, Reading, threadVars
<1>4. CASE ModelRecovers
  <2>1. /\ model' \in Unanswered \cup {"none", "answered", "failed", "unrecovered"}
        /\ late' \in {"none", "running", "retrying", "failing"}
    BY <1>0, <1>4 DEF ModelRecovers, AskedAgain, Unanswered
  <2> QED BY <1>4, <2>1 DEF ModelRecovers, PInv, IInv, ProcessingTypeOK, Reading, threadVars
<1>5. CASE LateEnds
  <2>1. /\ model' \in Unanswered \cup {"none", "answered", "failed", "unrecovered"}
        /\ late' \in {"none", "running", "retrying", "failing"}
    BY <1>0, <1>5 DEF LateEnds, ProcessingTypeOK
  <2> QED BY <1>5, <2>1 DEF LateEnds, PInv, IInv, ProcessingTypeOK, Reading, threadVars
<1>6. CASE KeeperEnds
  <2>1. /\ model' \in Unanswered \cup {"none", "answered", "failed", "unrecovered"}
        /\ late' \in {"none", "running", "retrying", "failing"}
        /\ worker' \in {"none", "reading", "parsed", "failed", "lost", "canceled"}
    BY <1>0, <1>6 DEF KeeperEnds, WorkerCancel, ModelCancel, ProcessingTypeOK
  <2>2. keeper' # "off" <=> keeper # "off"
    BY <1>6 DEF KeeperEnds
  <2> QED BY <1>6, <2>1, <2>2 DEF KeeperEnds, PInv, IInv, ProcessingTypeOK, Reading, threadVars
<1> QED BY <1>1, <1>2, <1>3, <1>4, <1>5, <1>6 DEF Boundaries

\* Every step of the pipeline keeps everything it has of its type, and the
\* keeper as long as the reading it keeps the lease for.
LEMMA NextKeepsTypes ==
  ASSUME PInv, ProcessingTypeOK, [ProcessingNext]_vars
  PROVE  ProcessingTypeOK'
<1>1. PInv'
  BY NextPInv
<1>2. CASE ProcessingNext
  <2>1. CASE Filing("scheduler") \/ Filing("person")
    BY <1>1, <2>1, FilingKeepsTypes DEF Thread
  <2>2. CASE ~ (Filing("scheduler") \/ Filing("person"))
    BY <1>1, <1>2, <2>2, SchedulerKeepsTypes, PersonKeepsTypes, OthersKeepTypes DEF ProcessingNext
  <2> QED BY <2>1, <2>2
<1>3. CASE UNCHANGED vars
  BY <1>1, <1>3 DEF vars, threadVars, boundaryVars, PInv, IInv, ProcessingTypeOK, Reading
<1> QED BY <1>2, <1>3

\* No proposal is written for a document that has none but by the reading that
\* makes it one of those that were read: what a person approves, what the house
\* rules rewrite and what goes back to review had a name already
\* (save_initial_and_transition, restyle_waiting).
LEMMA EmptyStays ==
  ASSUME PInv, ProcessingTypeOK, ProcessingNext,
         NEW i \in Item, record[i] = NoProposal, Unread(i)'
  PROVE  record'[i] = NoProposal
<1>1. /\ record \in [Item -> ProposalRecord]
      /\ record[i].name = "none"
      /\ \A t \in Thread : at[t] \in Busy => doc[t] \in Item
  BY DEF ProcessingTypeOK, NoProposal, PInv, Places
<1>2. CASE UNCHANGED record
  BY <1>2
<1>3. ASSUME NEW t \in Thread, Filing(t) PROVE record'[i] = NoProposal
  <2>1. UNCHANGED record \/ mark_for_review(doc[t])
    BY <1>3 DEF Filing, CheckUnchanged, BeginFiling, EndFiling, MarkUnfiled
  <2>2. CASE mark_for_review(doc[t])
    <3>1. UNCHANGED record \/ (doc[t] # i /\ record' = [record EXCEPT ![doc[t]].approved = FALSE])
      BY <1>1, <2>2 DEF mark_for_review
    <3> QED BY <1>1, <3>1
  <2> QED BY <2>1, <2>2
<1>4. CASE save_initial_and_transition
  <2>1. doc["scheduler"] \in Item
    BY <1>1, <1>4 DEF save_initial_and_transition, Busy, Thread
  <2>2. \/ UNCHANGED record
        \/ \E next \in {"ready", "needs_review"} : \E n :
             /\ transition(me, doc["scheduler"], "analyzing", next, "none")
             /\ record' = [record EXCEPT ![doc["scheduler"]] = n]
    BY <1>4 DEF save_initial_and_transition
  <2>3. CASE doc["scheduler"] # i
    BY <1>1, <2>2, <2>3
  <2>4. ASSUME NEW next \in {"ready", "needs_review"},
               transition(me, i, "analyzing", next, "none")
        PROVE  ~ Unread(i)'
    <3>1. /\ items[i] \in Row
          /\ items'[i] = [Disowned(items[i]) EXCEPT !.status = next, !.error = "none"]
      BY <2>4, RowRewritten DEF transition, Active, Processing, PInv
    <3>2. items'[i].status = next /\ items'[i].error = "none"
      BY <3>1 DEF Disowned, Row
    <3> QED BY <3>2 DEF Unread, ToBeRead, Processing
  <2> QED BY <2>2, <2>3, <2>4
<1>5. CASE delete_proposal
  BY <1>1, <1>5 DEF delete_proposal
<1>6. CASE Dismiss
  BY <1>6 DEF Dismiss, Forgotten
<1>7. CASE Approve
  <2>1. UNCHANGED record \/ (doc["person"] # i
           /\ record' = [record EXCEPT ![doc["person"]].name = "typed", ![doc["person"]].approved = TRUE])
    BY <1>1, <1>7 DEF Approve
  <2> QED BY <1>1, <2>1
<1>8. CASE learn_from_edit \/ ChangeRule
  <2>1. \E count, but : record' = Restyled(record, count, but)
    BY <1>8 DEF learn_from_edit, ChangeRule
  <2> QED BY <1>1, <2>1 DEF Restyled
<1>9. CASE \/ Scheduler /\ ~ Filing("scheduler") /\ ~ save_initial_and_transition
           \/ Boundaries \/ Time
  <2>1. UNCHANGED record
    BY <1>9 DEF Scheduler, Receive, RecoverInterrupted, CountRecovered, Reconcile, CollectReady,
       NextReady, Claim, StartReading, ReadingFails, CountTwice, ReadingEnds, StartAnalysis,
       Deadline, AnalysisFailed, GraceEnds, Compose, Boundaries, WorkerAnswers, ModelAnswers,
       ModelRecovers, LateEnds, KeeperEnds, Time
  <2> QED BY <2>1
<1>10. CASE Enqueue \/ retry \/ pause \/ resume \/ Look \/ flag_duplicate \/ Cancel \/ StopBoundary
  BY <1>10 DEF Enqueue, retry, pause, resume, Look, flag_duplicate, Cancel, StopBoundary
<1> QED BY <1>3, <1>4, <1>5, <1>6, <1>7, <1>8, <1>9, <1>10 DEF ProcessingNext, Scheduler, Person, CommandGoesOn, Thread

\* A retry that requeued a document deletes the proposal it had, whatever comes
\* between the two (retry, delete_proposal).
LEMMA DiscardGoesOn ==
  ASSUME Places, ProcessingTypeOK, ProcessingNext, NEW i \in Item, BeingDiscarded(i)
  PROVE  BeingDiscarded(i)' \/ record'[i] = NoProposal
<1>1. /\ at["person"] = "discard" /\ doc["person"] = i
      /\ "scheduler" \in Thread /\ "person" \in Thread /\ "scheduler" # "person"
      /\ at \in [Thread -> Place] /\ doc \in [Thread -> Item \cup {0}]
  BY DEF BeingDiscarded, Places, Thread
<1>2. CASE Boundaries \/ Time
  BY <1>1, <1>2 DEF Boundaries, WorkerAnswers, ModelAnswers, ModelRecovers, LateEnds, KeeperEnds, Time,
     threadVars, BeingDiscarded
<1>3. CASE delete_proposal
  BY <1>1, <1>3 DEF delete_proposal, ProcessingTypeOK
<1>4. CASE Person /\ ~ delete_proposal
  <2>1. CASE Dismiss \/ pause \/ resume \/ ChangeRule
    BY <2>1 DEF Dismiss, pause, resume, ChangeRule, threadVars, BeingDiscarded
  <2> QED
    BY <1>1, <1>4, <2>1 DEF Person, CommandGoesOn, Enqueue, retry, Look, Command, flag_duplicate, Cancel,
       StopBoundary, Approve, learn_from_edit, Filing, CheckUnchanged, BeginFiling, EndFiling,
       MarkUnfiled
<1>5. CASE Scheduler
  <2>1. at'["person"] = at["person"] /\ doc'["person"] = doc["person"]
    <3>1. CASE \/ Receive \/ RecoverInterrupted \/ CountRecovered \/ Reconcile \/ CollectReady
               \/ NextReady \/ Claim \/ Deadline
      BY <1>1, <3>1 DEF Receive, RecoverInterrupted, CountRecovered, Reconcile, CollectReady,
         NextReady, Claim, Deadline, Go
    <3>2. CASE Filing("scheduler")
      BY <1>1, <3>2 DEF Filing, CheckUnchanged, BeginFiling, EndFiling, MarkUnfiled, Done, Go
    <3>3. CASE StartReading
      BY <1>1, <3>3 DEF StartReading, TransitionOr, Leave, LeaveAbout, Go
    <3>4. CASE ReadingFails \/ CountTwice
      BY <1>1, <3>4 DEF ReadingFails, CountTwice, Leave, LeaveAbout, Go
    <3>5. CASE ReadingEnds
      BY <1>1, <3>5 DEF ReadingEnds, readingVars, TransitionOr, Leave, LeaveAbout, Go
    <3>6. CASE StartAnalysis
      BY <1>1, <3>6 DEF StartAnalysis, TransitionOr, Leave, LeaveAbout, Go
    <3>7. CASE AnalysisFailed \/ GraceEnds
      BY <1>1, <3>7 DEF AnalysisFailed, GraceEnds, AnalysisFails, Leave, LeaveAbout, Go
    <3>8. CASE Compose
      BY <1>1, <3>8 DEF Compose, Leave, LeaveAbout, Go
    <3>9. CASE save_initial_and_transition
      BY <1>1, <3>9 DEF save_initial_and_transition, Leave, LeaveAbout, Go
    <3> QED BY <1>5, <3>1, <3>2, <3>3, <3>4, <3>5, <3>6, <3>7, <3>8, <3>9 DEF Scheduler
  <2> QED BY <1>1, <2>1 DEF BeingDiscarded
<1> QED BY <1>2, <1>3, <1>4, <1>5 DEF ProcessingNext

\* ReadAfresh is inductive with the pipeline's own invariant, its types, and
\* the fact that a ready document carries no verdict.
RInv == PInv /\ ProcessingTypeOK /\ CleanWhenReady /\ Fresh

\* It holds of the program that starts with one document waiting.
LEMMA InitRInv == ProcessingInit => RInv
<1> SUFFICES ASSUME ProcessingInit PROVE RInv
  OBVIOUS
<1>1. PInv
  BY InitPInv
<1>2. ProcessingTypeOK
  <2>1. NoProposal \in ProposalRecord
    BY DEF NoProposal, ProposalRecord, Name
  <2> QED BY <1>1, <2>1, LeaseAssumption DEF ProcessingInit, PInv, IInv, ProcessingTypeOK, Thread, Reading, Name
<1>3. \A i \in Item : items[i].status \in {"absent", "queued"}
  BY DEF ProcessingInit, EmptyRow
<1> QED BY <1>1, <1>2, <1>3 DEF RInv, CleanWhenReady, Fresh, ProcessingInit

\* A retry leaves the proposal to be deleted of the document it requeued, and
\* the others as they were.
LEMMA RetryKeepsFresh ==
  ASSUME PInv, CleanWhenReady, Fresh, retry
  PROVE  CleanWhenReady' /\ Fresh'
<1>1. at["person"] = "idle" /\ UNCHANGED record
  BY DEF retry, Command
<1>2. \A i \in Item : Unread(i) => record[i] = NoProposal
  BY <1>1 DEF Fresh, BeingDiscarded
<1>3. ASSUME NEW i \in Item, retry_duplicate(me, i) \/ retry_unverified(me, i)
      PROVE  CleanWhenReady' /\ Fresh'
  <2>1. \A j \in Item : KeepsRead(j)
    BY <1>3, DecisionKeepsRead DEF PInv
  <2> QED BY <1>1, <1>2, <2>1 DEF KeepsRead, CleanWhenReady, Fresh
<1>4. ASSUME NEW i \in Item, manual_retry(me, i) \/ retry_canceled(me, i),
             Go("person", "discard"), doc' = [doc EXCEPT !["person"] = i]
      PROVE  CleanWhenReady' /\ Fresh'
  <2>1. items'[i].status = "queued" /\ \A j \in Item \ {i} : items'[j] = items[j]
    <3>1. CASE manual_retry(me, i)
      <4>1. SetRow(i, [Settled(items[i], "queued") EXCEPT !.failures = IF TRUE THEN 0 ELSE @])
        BY <3>1 DEF manual_retry, cas_status
      <4>2. \E n : SetRow(i, [Settled(items[i], "queued") EXCEPT !.failures = n])
        BY <4>1, Zenon
      <4>3. PICK n : /\ items[i] \in Row
                     /\ items'[i] = [Settled(items[i], "queued") EXCEPT !.failures = n]
                     /\ \A j \in Item \ {i} : items'[j] = items[j]
        BY <4>2, RowRewritten DEF PInv
      <4>4. /\ Settled(items[i], "queued").status = "queued"
            /\ "status" \in DOMAIN Settled(items[i], "queued")
        BY <4>3 DEF Settled, Disowned, Row
      <4> QED BY <4>3, <4>4
    <3>2. CASE retry_canceled(me, i)
      <4>1. /\ items[i] \in Row /\ \A j \in Item \ {i} : items'[j] = items[j]
            /\ items'[i] = [Requeued(items[i]) EXCEPT !.failures = 0, !.error = "none"]
        BY <3>2, RowRewritten DEF retry_canceled, ReadAgain, PInv
      <4>2. items'[i].status = "queued"
        BY <4>1 DEF Requeued, Disowned, Row
      <4> QED BY <4>1, <4>2
    <3> QED BY <1>4, <3>1, <3>2
  <2>2. BeingDiscarded(i)'
    BY <1>4 DEF BeingDiscarded, Go, PInv, Places, Thread
  <2>3. ASSUME NEW j \in Item \ {i}, Unread(j)' PROVE Unread(j)
    BY <2>1, <2>3 DEF Unread, ToBeRead
  <2>4. CleanWhenReady'
    BY <2>1 DEF CleanWhenReady
  <2> QED BY <1>1, <1>2, <2>2, <2>3, <2>4 DEF Fresh
<1> QED BY <1>3, <1>4 DEF retry

\* Every step keeps it: what a document kept of its reading it loses before it
\* is to be read, or the command that asked for that is still to delete it.
LEMMA NextRInv == RInv /\ [ProcessingNext]_vars => RInv'
<1> SUFFICES ASSUME RInv, [ProcessingNext]_vars PROVE RInv'
  OBVIOUS
<1>1. PInv' /\ ProcessingTypeOK'
  BY NextPInv, NextKeepsTypes DEF RInv
<1>2. CASE retry
  BY <1>1, <1>2, RetryKeepsFresh DEF RInv
<1>3. CASE ProcessingNext /\ ~ retry
  <2>1. \A i \in Item : KeepsRead(i)
    BY <1>3, NextOtherUses, OtherUseKeepsRead DEF RInv, PInv
  <2>2. ASSUME NEW i \in Item, Unread(i)'
        PROVE  (record[i] = NoProposal \/ BeingDiscarded(i))'
    <3>1. record[i] = NoProposal \/ BeingDiscarded(i)
      BY <2>1, <2>2 DEF KeepsRead, Fresh, RInv
    <3>2. CASE record[i] = NoProposal
      BY <1>3, <2>2, <3>2, EmptyStays DEF RInv, NoProposal
    <3>3. CASE BeingDiscarded(i)
      BY <1>3, <3>3, DiscardGoesOn DEF RInv, PInv, NoProposal
    <3> QED BY <3>1, <3>2, <3>3
  <2> QED BY <1>1, <2>1, <2>2 DEF RInv, KeepsRead, CleanWhenReady, Fresh
<1>4. CASE UNCHANGED vars
  BY <1>1, <1>4 DEF RInv, vars, storeVars, threadVars, CleanWhenReady, Fresh, Unread, ToBeRead, BeingDiscarded
<1> QED BY <1>2, <1>3, <1>4

\* Every thread is at a place it can be at, about a document that exists, and
\* the lease keeper lives exactly as long as the reading it serves: through
\* every failure, cancel and recovery no way out of a reading leaves it running
\* (run_next_inner).
THEOREM PipelineTypes == ProcessingSpec => []ProcessingTypeOK
  BY InitRInv, NextRInv, PTL DEF ProcessingSpec, RInv

\* A document that is to be read carries no name and no approval of an earlier
\* reading, but in the moment between the two transactions of a retry.
THEOREM NothingOfAnOldReading == ProcessingSpec => []ReadAfresh
<1>1. RInv => ReadAfresh
  BY DEF RInv, Fresh, Unread, ReadAfresh
<1> QED BY <1>1, InitRInv, NextRInv, PTL DEF ProcessingSpec
=============================================================================
