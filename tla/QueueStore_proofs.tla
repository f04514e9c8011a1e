------------------------- MODULE QueueStore_proofs -------------------------
(***************************************************************************)
(* The store's invariants and two of its action properties, for every      *)
(* number of documents, receipts and sessions and every lease.             *)
(*                                                                         *)
(* Nearly every statement of the store rewrites one row and at most one    *)
(* receipt's stage.  RowStep says once what such a statement must respect  *)
(* to preserve the inductive invariant; each action is then shown to       *)
(* respect it.  The statements that rewrite the whole table, and the one   *)
(* that inserts a receipt, have lemmas of their own.                       *)
(***************************************************************************)
EXTENDS QueueHistory, TLAPS

-----------------------------------------------------------------------------
(* Rows *)

\* The values the SET clauses write are values of the columns' types.
LEMMA Columns ==
  /\ 0 \in 0..LEASE_SECONDS
  /\ LEASE_SECONDS \in 0..LEASE_SECONDS
  /\ NoSession \in Session \cup {NoSession}
  /\ NULL \in ReceiptId \cup {NULL}
  /\ ReceiptId \subseteq ReceiptId \cup {NULL}
  /\ Session \subseteq Session \cup {NoSession}
  /\ Status \subseteq Status \cup NoRow
  /\ NoRow \subseteq Status \cup NoRow
  /\ "none" \in ErrorCode
  /\ "none" \in {"none", "ready", "completed"}
  /\ {"ready", "completed", "needs_review", "queued", "failed", "applying",
      "extracting"} \subseteq Status
  /\ {"absent", "deleted"} = NoRow
BY LeaseAssumption DEF NULL, Status, Active, Processing, NoRow, ErrorCode

\* A row with another status.
LEMMA RowWithStatus ==
  ASSUME NEW row \in Row, NEW st \in Status \cup NoRow
  PROVE  [row EXCEPT !.status = st] \in Row
BY Zenon DEF Row

\* A row whose operation has ended.
LEMMA RowEnded ==
  ASSUME NEW row \in Row, NEW st \in Status \cup NoRow, NEW prev \in {"none", "ready", "completed"},
         NEW r \in ReceiptId \cup {NULL}, NEW last \in ReceiptId \cup {NULL}, NEW e \in ErrorCode
  PROVE  [row EXCEPT !.status = st, !.prev = prev, !.active = r, !.recon = last, !.error = e] \in Row
BY Zenon DEF Row

\* A row whose operation begins.
LEMMA RowBegun ==
  ASSUME NEW row \in Row, NEW st \in Status \cup NoRow, NEW prev \in {"none", "ready", "completed"},
         NEW r \in ReceiptId \cup {NULL}, NEW last \in ReceiptId \cup {NULL}, NEW e \in ErrorCode,
         NEW begun \in BOOLEAN
  PROVE  [row EXCEPT !.status = st, !.prev = prev, !.active = r, !.recon = last, !.begun = begun,
                     !.error = e] \in Row
BY Zenon DEF Row

\* The SET clauses of the statements keep the columns' types.
LEMMA RowTypes ==
  ASSUME NEW row \in Row
  PROVE  /\ \A s \in Session : Owned(row, s) \in Row
         /\ Disowned(row) \in Row
         /\ Requeued(row) \in Row
         /\ \A st \in Status : Settled(row, st) \in Row
         /\ EmptyRow \in Row
         /\ [EmptyRow EXCEPT !.status = "deleted"] \in Row
         /\ [EmptyRow EXCEPT !.status = "queued"] \in Row
         /\ [row EXCEPT !.owner = NoSession] \in Row
<1>1. ASSUME NEW s \in Session PROVE Owned(row, s) \in Row
  BY Columns, Zenon DEF Owned, Row
<1>2. Disowned(row) \in Row
  BY Columns, Zenon DEF Disowned, Row
<1>3. "queued" \in Status \cup NoRow /\ "deleted" \in Status \cup NoRow
  BY Columns, Zenon
<1>4. Requeued(row) \in Row
  BY <1>2, <1>3, RowWithStatus, Zenon DEF Requeued
<1>5. ASSUME NEW st \in Status PROVE Settled(row, st) \in Row
  <2>1. /\ st \in Status \cup NoRow /\ "none" \in {"none", "ready", "completed"}
        /\ "none" \in ErrorCode /\ NULL \in ReceiptId \cup {NULL}
    BY <1>5, Columns, Zenon
  <2> QED BY <1>2, <2>1, RowEnded, Zenon DEF Settled
<1>6. EmptyRow \in Row
  BY Columns, SMT DEF EmptyRow, Row, NoRow
<1>7. [EmptyRow EXCEPT !.status = "deleted"] \in Row
  BY <1>3, <1>6, RowWithStatus, Zenon
<1>8. [EmptyRow EXCEPT !.status = "queued"] \in Row
  BY <1>3, <1>6, RowWithStatus, Zenon
<1>9. [row EXCEPT !.owner = NoSession] \in Row
  BY Columns, Zenon DEF Row
<1> QED
  BY <1>1, <1>2, <1>4, <1>5, <1>6, <1>7, <1>8, <1>9, Zenon

\* The SET clause of defer_published_reconciliation and of
\* park_applying_for_review keeps the columns' types.
LEMMA ParkedType ==
  ASSUME NEW row \in Row, NEW r \in ReceiptId, NEW e \in ErrorCode
  PROVE  Parked(row, r, e) \in Row
<1>1. /\ "needs_review" \in Status \cup NoRow /\ "none" \in {"none", "ready", "completed"}
      /\ NULL \in ReceiptId \cup {NULL} /\ r \in ReceiptId \cup {NULL}
  BY Columns, Zenon
<1>2. Disowned(row) \in Row
  BY RowTypes
<1> QED
  BY <1>1, <1>2, RowEnded, Zenon DEF Parked

-----------------------------------------------------------------------------
(* Statements that rewrite one row *)

\* What a row written to i must be for the invariant to survive.
GoodRow(i, row) ==
  /\ row \in Row
  /\ row.status \in Active => items[i].status \in Active \/ NoOtherActive(i)
  /\ row.owner # NoSession => row.status \in Active /\ HasRow(row.owner)
  /\ row.active # NULL =>
       /\ row.status = "applying"
       /\ IsNewest(row.active, i)
       /\ row.prev = StartOf(receipts[row.active].dir)
  /\ row.status = "applying" => row.begun /\ row.prev \in {"ready", "completed"}
  /\ row.status \in {"queued"} \cup Processing => row.failures < 2
  /\ \A r \in ReceiptId : receipts[r].item = i => row.begun /\ row.status \notin NoRow

\* The journal after the statement: as it was, or with one receipt, the
\* newest of its document, at another stage.
JournalKept ==
  \/ UNCHANGED receipts
  \/ \E r \in ReceiptId, stage \in Stage :
       /\ SetStage(r, stage)
       /\ receipts[r].stage \in Stage
       /\ IsNewest(r, receipts[r].item)

\* Moving the stage of a document's newest receipt (update_receipt and the
\* resolve statements) disturbs nothing the invariant says of the journal:
\* no receipt changes its document or direction, and the newest stays newest.
LEMMA JournalKeptFacts ==
  ASSUME IInv, JournalKept
  PROVE  /\ receipts' \in [ReceiptId -> Receipt]
         /\ \A r \in ReceiptId : /\ receipts'[r].item = receipts[r].item
                                 /\ receipts'[r].dir = receipts[r].dir
         /\ \A r \in ReceiptId : \A i \in Item : IsNewest(r, i)' <=> IsNewest(r, i)
         /\ ReceiptsAreNumbered'
         /\ UnfinishedReceiptIsNewest'
<1> USE DEF IInv, TypeOK
<1>1. CASE UNCHANGED receipts
  BY <1>1, Zenon DEF ReceiptsAreNumbered, UnfinishedReceiptIsNewest, IsNewest
<1>2. ASSUME NEW r \in ReceiptId, NEW stage \in Stage, SetStage(r, stage),
             receipts[r].stage \in Stage, IsNewest(r, receipts[r].item)
      PROVE  /\ receipts' \in [ReceiptId -> Receipt]
             /\ \A q \in ReceiptId : /\ receipts'[q].item = receipts[q].item
                                     /\ receipts'[q].dir = receipts[q].dir
             /\ \A q \in ReceiptId : \A i \in Item : IsNewest(q, i)' <=> IsNewest(q, i)
             /\ ReceiptsAreNumbered'
             /\ UnfinishedReceiptIsNewest'
  <2>1. /\ receipts' = [receipts EXCEPT ![r] = [receipts[r] EXCEPT !.stage = stage]]
        /\ receipts[r] \in Receipt
    BY <1>2 DEF SetStage
  <2>2. [receipts[r] EXCEPT !.stage = stage] \in Receipt
    BY <2>1 DEF Receipt
  <2>3. receipts' \in [ReceiptId -> Receipt]
    BY <2>1, <2>2
  <2>4. \A q \in ReceiptId : /\ receipts'[q].item = receipts[q].item
                             /\ receipts'[q].dir = receipts[q].dir
    BY <2>1 DEF Receipt
  <2>5. \A q \in ReceiptId : \A i \in Item : IsNewest(q, i)' <=> IsNewest(q, i)
    BY <2>4 DEF IsNewest
  <2>6. /\ \A q \in ReceiptId \ {r} : receipts'[q] = receipts[q]
        /\ receipts'[r].stage = stage
    BY <2>1 DEF Receipt
  <2>7. stage \notin NoRow /\ receipts[r].stage \notin NoRow
    BY <1>2 DEF Stage, Terminal, Unfinished, NoRow
  <2>8. ReceiptsAreNumbered'
    BY <2>4, <2>6, <2>7 DEF ReceiptsAreNumbered, NoRow
  <2>9. UnfinishedReceiptIsNewest'
    BY <1>2, <2>4, <2>5, <2>6 DEF UnfinishedReceiptIsNewest
  <2> QED
    BY <2>3, <2>4, <2>5, <2>8, <2>9
<1> QED
  BY <1>1, <1>2 DEF JournalKept

\* A statement that writes a good row to one document and moves at most the
\* stage of its newest receipt preserves the inductive invariant.
LEMMA RowStep ==
  ASSUME IInv, NEW i \in Item, NEW row, GoodRow(i, row), SetRow(i, row), JournalKept,
         UNCHANGED session, quiet' \in [Session -> 0..LEASE_SECONDS]
  PROVE  IInv'
<1>1. /\ items \in [Item -> Row]
      /\ items' = [items EXCEPT ![i] = row]
      /\ items' \in [Item -> Row]
      /\ items'[i] = row
      /\ \A j \in Item \ {i} : items'[j] = items[j]
  BY DEF IInv, TypeOK, SetRow, GoodRow
<1>2. TypeOK'
  BY <1>1, JournalKeptFacts DEF IInv, TypeOK
<1>3. OneDocumentAtATime'
  BY <1>1 DEF IInv, OneDocumentAtATime, GoodRow, NoOtherActive
<1>4. OwnedRowsAreActive'
  BY <1>1 DEF IInv, OwnedRowsAreActive, GoodRow, HasRow
<1>5. ActiveReceiptIsTheOperation'
  <2> SUFFICES ASSUME NEW j \in Item, (items[j].active # NULL)'
               PROVE  (/\ items[j].status = "applying"
                       /\ IsNewest(items[j].active, j)
                       /\ items[j].prev = StartOf(receipts[items[j].active].dir))'
    BY DEF ActiveReceiptIsTheOperation
  <2>1. PICK r \in ReceiptId : r = items'[j].active
    BY <1>1 DEF Row
  <2>2. /\ items'[j].status = "applying"
        /\ IsNewest(r, j)
        /\ items'[j].prev = StartOf(receipts[r].dir)
    BY <1>1, <2>1, Zenon DEF IInv, ActiveReceiptIsTheOperation, GoodRow
  <2>3. IsNewest(r, j)' /\ receipts'[r].dir = receipts[r].dir
    BY <2>2, JournalKeptFacts, Zenon
  <2> QED
    BY <2>1, <2>2, <2>3 DEF IsNewest, StartOf
<1>6. EmptyApplyingCanBeResolved'
  BY <1>1 DEF IInv, EmptyApplyingCanBeResolved, GoodRow
<1>7. NoThirdAttempt'
  BY <1>1 DEF IInv, NoThirdAttempt, GoodRow
<1>8. ReceiptsHaveBegun'
  BY <1>1, JournalKeptFacts DEF IInv, ReceiptsHaveBegun, GoodRow
<1> QED
  BY <1>2, <1>3, <1>4, <1>5, <1>6, <1>7, <1>8, JournalKeptFacts DEF IInv

\* The row an action starts from is itself good.
LEMMA ItemIsGood ==
  ASSUME IInv, NEW i \in Item
  PROVE  items[i] \in Row /\ GoodRow(i, items[i])
  BY DEF IInv, TypeOK, GoodRow, OwnedRowsAreActive, ActiveReceiptIsTheOperation,
         EmptyApplyingCanBeResolved, NoThirdAttempt, ReceiptsHaveBegun

\* touch_session writes the heartbeat of the session that calls, within type.
LEMMA Touched ==
  ASSUME IInv, NEW s \in Session, UNCHANGED quiet \/ touch_session(s)
  PROVE  quiet' \in [Session -> 0..LEASE_SECONDS]
  BY LeaseAssumption DEF IInv, TypeOK, touch_session

\* A running session has its row in queue_sessions and is not the NULL owner.
LEMMA SessionRow ==
  ASSUME NEW s \in Session, Live(s)
  PROVE  HasRow(s) /\ s # NoSession
  BY NoSessionAssumption DEF Live, HasRow

-----------------------------------------------------------------------------
(* Processing *)

\* claim_next starts a document only when no row is active.
LEMMA claim_nextStep ==
  ASSUME IInv, NEW s \in Session, NEW i \in Item, claim_next(s, i)
  PROVE  IInv'
<1> DEFINE row == [Owned(items[i], s) EXCEPT !.status = "extracting", !.error = "none"]
<1>1. items[i] \in Row /\ GoodRow(i, items[i])
  BY ItemIsGood
<1>2. row \in Row
  <2>1. Owned(items[i], s) \in Row
    BY <1>1, RowTypes
  <2> QED
    BY <2>1, Columns, Zenon DEF Row
<1>3. /\ row.status = "extracting" /\ row.owner = s
      /\ row.active = items[i].active /\ row.failures = items[i].failures /\ row.begun = items[i].begun
  BY <1>1 DEF Owned, Row
<1>4. GoodRow(i, row)
  BY <1>1, <1>2, <1>3, SessionRow DEF GoodRow, claim_next, Active, Processing, NoRow
<1> QED
  BY <1>4, RowStep, Touched DEF claim_next, ClaimRow, JournalKept

\* renew_lease changes the lease of a row its caller already owns.
LEMMA renew_leaseStep ==
  ASSUME IInv, NEW s \in Session, NEW i \in Item, renew_lease(s, i)
  PROVE  IInv'
<1>1. items[i] \in Row /\ GoodRow(i, items[i])
  BY ItemIsGood
<1>2. Owned(items[i], s) \in Row
  BY <1>1, RowTypes
<1>3. GoodRow(i, Owned(items[i], s))
  BY <1>1, <1>2, SessionRow DEF GoodRow, renew_lease, Owned, Row
<1> QED
  BY <1>3, RowStep, Touched DEF renew_lease, JournalKept

\* renew_operation_lease does the same for an applying row, and leaves the
\* receipt it names where it was.
LEMMA renew_operation_leaseStep ==
  ASSUME IInv, NEW s \in Session, NEW i \in Item, NEW r \in ReceiptId, NEW stage,
         renew_operation_lease(s, i, r, stage)
  PROVE  IInv'
<1>1. items[i] \in Row /\ GoodRow(i, items[i])
  BY ItemIsGood
<1>2. Owned(items[i], s) \in Row
  BY <1>1, RowTypes
<1>3. items[i].status = "applying" /\ items[i].status \in Active
  BY DEF renew_operation_lease, Holds, OwnsApplying, Active
<1>4. GoodRow(i, Owned(items[i], s))
  BY <1>1, <1>2, <1>3, SessionRow DEF GoodRow, renew_operation_lease, Owned, Row
<1> QED
  BY <1>4, RowStep, Touched DEF renew_operation_lease, JournalKept

\* Only extracting goes on to an active status, and what leaves goes unowned.
LEMMA transitionStep ==
  ASSUME IInv, NEW s \in Session, NEW i \in Item, NEW expected, NEW next \in Status,
         NEW e \in ErrorCode, transition(s, i, expected, next, e)
  PROVE  IInv'
<1> DEFINE held == IF next \in Active THEN Owned(items[i], s) ELSE Disowned(items[i])
           row == [held EXCEPT !.status = next, !.error = e]
<1>1. items[i] \in Row /\ GoodRow(i, items[i]) /\ items[i].status = expected
  BY ItemIsGood DEF transition
<1>2. row \in Row
  <2>1. held \in Row
    BY <1>1, RowTypes
  <2>2. next \in Status \cup NoRow
    BY Zenon
  <2> QED
    BY <2>1, <2>2, Zenon DEF Row
<1>3. /\ row.status = next /\ row.active = items[i].active
      /\ row.failures = items[i].failures /\ row.begun = items[i].begun
      /\ row.owner = IF next \in Active THEN s ELSE NoSession
  BY <1>1 DEF Owned, Disowned, Row
<1>4. /\ items[i].active = NULL
      /\ next # "applying"
      /\ next \in Active => items[i].status \in Active
      /\ next \in {"queued"} \cup Processing => items[i].status \in Processing
  BY <1>1 DEF transition, CanTransition, GoodRow, Active, Processing
<1>5. next \notin NoRow
  BY DEF Status, Active, Processing, NoRow
<1>6. GoodRow(i, row)
  BY <1>1, <1>2, <1>3, <1>4, <1>5, SessionRow DEF GoodRow, transition
<1> QED
  BY <1>6, RowStep, Touched DEF transition, JournalKept

\* record_processing_failure counts to two, and the second failure does not
\* go back to the queue.
LEMMA record_processing_failureStep ==
  ASSUME IInv, NEW s \in Session, NEW i \in Item, record_processing_failure(s, i)
  PROVE  IInv'
<1> DEFINE failures == items[i].failures + 1
           row == [Disowned(items[i]) EXCEPT
                     !.status = IF failures >= 2 THEN "failed" ELSE "queued",
                     !.failures = failures,
                     !.error = "OTHER"]
<1>1. /\ items[i] \in Row /\ GoodRow(i, items[i])
      /\ items[i].status \in Processing /\ items[i].active = NULL
  BY ItemIsGood DEF record_processing_failure, GoodRow, Processing
<1>2. failures \in 1..2
  BY <1>1 DEF GoodRow, Row
<1>3. row \in Row
  <2>1. Disowned(items[i]) \in Row
    BY <1>1, RowTypes
  <2>2. /\ (IF failures >= 2 THEN "failed" ELSE "queued") \in Status \cup NoRow
        /\ failures \in 0..2 /\ "OTHER" \in ErrorCode
    BY <1>2 DEF Status, ErrorCode
  <2> HIDE DEF failures
  <2> QED
    BY <2>1, <2>2, Zenon DEF Row
<1>4. /\ row.status = IF failures >= 2 THEN "failed" ELSE "queued"
      /\ row.owner = NoSession /\ row.active = items[i].active
      /\ row.failures = failures /\ row.begun = items[i].begun
  BY <1>1 DEF Disowned, Row
<1>5. GoodRow(i, row)
  <2> HIDE DEF failures, row
  <2> QED
    BY <1>1, <1>2, <1>3, <1>4 DEF GoodRow, Active, Processing, NoRow
<1> QED
  BY <1>5, RowStep, Touched DEF record_processing_failure, JournalKept

\* record_recovered_failure counts the same way for a row nobody owns.
LEMMA record_recovered_failureStep ==
  ASSUME IInv, NEW s \in Session, NEW i \in Item, record_recovered_failure(s, i)
  PROVE  IInv'
<1> DEFINE failures == items[i].failures + 1
           row == [items[i] EXCEPT
                     !.status = IF failures >= 2 THEN "failed" ELSE "queued",
                     !.failures = failures,
                     !.error = "OTHER"]
<1>1. /\ items[i] \in Row /\ GoodRow(i, items[i])
      /\ items[i].owner = NoSession /\ items[i].active = NULL
  BY ItemIsGood DEF record_recovered_failure, GoodRow
<1>2. failures \in 1..2
  BY <1>1 DEF GoodRow, Row, record_recovered_failure
<1>3. row \in Row
  <2>1. /\ (IF failures >= 2 THEN "failed" ELSE "queued") \in Status \cup NoRow
        /\ failures \in 0..2 /\ "OTHER" \in ErrorCode
    BY <1>2 DEF Status, ErrorCode
  <2> HIDE DEF failures
  <2> QED
    BY <1>1, <2>1, Zenon DEF Row
<1>4. /\ row.status = IF failures >= 2 THEN "failed" ELSE "queued"
      /\ row.owner = NoSession /\ row.active = items[i].active
      /\ row.failures = failures /\ row.begun = items[i].begun
  BY <1>1 DEF Row
<1>5. GoodRow(i, row)
  <2> HIDE DEF failures, row
  <2> QED
    BY <1>1, <1>2, <1>3, <1>4 DEF GoodRow, Active, Processing, NoRow
<1> QED
  BY <1>5, RowStep, Touched DEF record_recovered_failure, JournalKept

-----------------------------------------------------------------------------
(* A person's decisions *)

\* enqueue inserts a row under an id that has never had a receipt.
LEMMA enqueueStep ==
  ASSUME IInv, NEW s \in Session, NEW i \in Item, enqueue(s, i)
  PROVE  IInv'
<1> DEFINE row == [EmptyRow EXCEPT !.status = "queued"]
<1>1. row \in Row
  BY ItemIsGood, RowTypes
<1>2. /\ row.status = "queued" /\ row.owner = NoSession
      /\ row.active = NULL /\ row.failures = 0
  BY DEF EmptyRow
<1>3. \A r \in ReceiptId : receipts[r].item # i
  BY DEF enqueue, IInv, ReceiptsHaveBegun, NoRow
<1>4. GoodRow(i, row)
  BY <1>1, <1>2, <1>3 DEF GoodRow, Active, Processing, NoRow
<1> QED
  BY <1>4, RowStep, Touched DEF enqueue, JournalKept

\* What a status reset preserves, for the resets the store offers.
LEMMA cas_statusStep ==
  ASSUME IInv, NEW s \in Session, NEW i \in Item, NEW expected,
         NEW next \in {"queued", "completed"}, NEW reset \in BOOLEAN,
         next = "queued" => reset, cas_status(s, i, expected, next, reset)
  PROVE  IInv'
<1> DEFINE row == [Settled(items[i], next) EXCEPT !.failures = IF reset THEN 0 ELSE @]
<1>1. items[i] \in Row /\ GoodRow(i, items[i])
  BY ItemIsGood
<1>2. Settled(items[i], next) \in Row
  BY <1>1, RowTypes DEF Status
<1>3. row \in Row
  BY <1>2 DEF Row
<1>4. /\ row.status = next /\ row.owner = NoSession /\ row.active = NULL
      /\ row.begun = items[i].begun
      /\ reset => row.failures = 0
  BY <1>1 DEF Settled, Disowned, Row
<1>5. GoodRow(i, row)
  BY <1>1, <1>3, <1>4 DEF GoodRow, Active, Processing, NoRow
<1> QED
  BY <1>5, RowStep, Touched DEF cas_status, JournalKept

\* retry_unverified and retry_canceled send a row at rest back to the queue
\* with its failures forgotten.
LEMMA ReadAgainStep ==
  ASSUME IInv, NEW s \in Session, NEW i \in Item, ReadAgain(s, i),
         items[i].status # "applying"
  PROVE  IInv'
<1> DEFINE row == [Requeued(items[i]) EXCEPT !.failures = 0, !.error = "none"]
<1>1. items[i] \in Row /\ GoodRow(i, items[i])
  BY ItemIsGood
<1>2. row \in Row
  <2>1. Requeued(items[i]) \in Row
    BY <1>1, RowTypes
  <2>2. 0 \in 0..2
    OBVIOUS
  <2> QED
    BY <2>1, <2>2, Columns, Zenon DEF Row
<1>3. /\ row.status = "queued" /\ row.owner = NoSession
      /\ row.active = items[i].active /\ row.failures = 0 /\ row.begun = items[i].begun
  BY <1>1 DEF Requeued, Disowned, Row
<1>4. GoodRow(i, row)
  BY <1>1, <1>2, <1>3 DEF GoodRow, Active, Processing, NoRow
<1> QED
  BY <1>4, RowStep, Touched DEF ReadAgain, JournalKept

\* mark_needs_review moves one row at rest to another status at rest.
LEMMA mark_needs_reviewStep ==
  ASSUME IInv, NEW s \in Session, NEW i \in Item, mark_needs_review(s, i)
  PROVE  IInv'
<1> DEFINE row == [items[i] EXCEPT !.status = "needs_review"]
<1>1. /\ items[i] \in Row /\ GoodRow(i, items[i])
      /\ items[i].owner = NoSession /\ items[i].active = NULL
  BY ItemIsGood DEF mark_needs_review, GoodRow, Active, Processing
<1>2. row \in Row
  BY <1>1 DEF Row, Status
<1>3. /\ row.status = "needs_review" /\ row.owner = NoSession
      /\ row.active = NULL /\ row.begun = items[i].begun
  BY <1>1 DEF Row
<1>4. GoodRow(i, row)
  BY <1>1, <1>2, <1>3 DEF GoodRow, Active, Processing, NoRow
<1> QED
  BY <1>4, RowStep, Touched DEF mark_needs_review, JournalKept

\* approve_user_edit moves a row at rest to ready.
LEMMA approve_user_editStep ==
  ASSUME IInv, NEW s \in Session, NEW i \in Item, NEW expected,
         approve_user_edit(s, i, expected)
  PROVE  IInv'
<1> DEFINE row == [items[i] EXCEPT !.status = "ready", !.error = "none"]
<1>1. /\ items[i] \in Row /\ GoodRow(i, items[i])
      /\ items[i].owner = NoSession /\ items[i].active = NULL
  BY ItemIsGood DEF approve_user_edit, GoodRow, Active, Processing
<1>2. row \in Row
  BY <1>1 DEF Row, Status, ErrorCode
<1>3. /\ row.status = "ready" /\ row.owner = NoSession
      /\ row.active = NULL /\ row.begun = items[i].begun
  BY <1>1 DEF Row
<1>4. GoodRow(i, row)
  BY <1>1, <1>2, <1>3 DEF GoodRow, Active, Processing, NoRow
<1> QED
  BY <1>4, RowStep, Touched DEF approve_user_edit, JournalKept

-----------------------------------------------------------------------------
(* Applying *)

\* begin_applying makes a row active only beside no other, with a status to
\* return to and its epoch begun.
LEMMA begin_applyingStep ==
  ASSUME IInv, NEW s \in Session, NEW i \in Item, NEW expected,
         begin_applying(s, i, expected)
  PROVE  IInv'
<1> DEFINE row == [Owned(items[i], s) EXCEPT
                     !.status = "applying", !.prev = expected, !.active = NULL,
                     !.recon = NULL, !.begun = TRUE, !.error = "none"]
<1>1. /\ items[i] \in Row /\ GoodRow(i, items[i])
      /\ expected \in {"none", "ready", "completed"}
  BY ItemIsGood DEF begin_applying
<1>2. row \in Row
  <2>1. Owned(items[i], s) \in Row
    BY <1>1, RowTypes
  <2>2. /\ "applying" \in Status \cup NoRow /\ TRUE \in BOOLEAN
        /\ "none" \in ErrorCode /\ NULL \in ReceiptId \cup {NULL}
    BY Columns, Zenon
  <2> QED
    BY <1>1, <2>1, <2>2, RowBegun, Zenon
<1>3. /\ row.status = "applying" /\ row.owner = s /\ row.active = NULL
      /\ row.prev = expected /\ row.begun
  BY <1>1 DEF Owned, Row
<1>4. GoodRow(i, row)
  BY <1>2, <1>3, SessionRow DEF GoodRow, begin_applying, Active, Processing, NoRow
<1> QED
  BY <1>4, RowStep, Touched DEF begin_applying, JournalKept

\* claim_applying_reconciliation changes an applying row's owner only.
LEMMA claim_applying_reconciliationStep ==
  ASSUME IInv, NEW s \in Session, NEW i \in Item, claim_applying_reconciliation(s, i)
  PROVE  IInv'
<1>1. items[i] \in Row /\ GoodRow(i, items[i])
  BY ItemIsGood
<1>2. Owned(items[i], s) \in Row
  BY <1>1, RowTypes
<1>3. items[i].status = "applying" /\ items[i].status \in Active
  BY DEF claim_applying_reconciliation, Active
<1>4. GoodRow(i, Owned(items[i], s))
  BY <1>1, <1>2, <1>3, SessionRow
     DEF GoodRow, claim_applying_reconciliation, Owned, Row
<1> QED
  BY <1>4, RowStep, Touched DEF claim_applying_reconciliation, JournalKept

\* The receipt a deferred document is taken up with is its newest, because it
\* is unfinished.
LEMMA claim_deferred_reconciliationStep ==
  ASSUME IInv, NEW s \in Session, NEW i \in Item, claim_deferred_reconciliation(s, i)
  PROVE  IInv'
<1> DEFINE row == [Owned(items[i], s) EXCEPT
                     !.status = "applying", !.prev = "ready", !.active = items[i].recon]
<1>1. /\ items[i] \in Row /\ GoodRow(i, items[i])
      /\ items[i].recon \in ReceiptId
  BY ItemIsGood DEF claim_deferred_reconciliation, Row
<1>2. row \in Row
  <2>1. Owned(items[i], s) \in Row
    BY <1>1, RowTypes
  <2>2. /\ "applying" \in Status \cup NoRow
        /\ "ready" \in {"none", "ready", "completed"}
        /\ items[i].recon \in ReceiptId \cup {NULL}
    BY <1>1, Columns, Zenon
  <2> QED
    BY <2>1, <2>2, Zenon DEF Row
<1>3. /\ row.status = "applying" /\ row.owner = s /\ row.active = items[i].recon
      /\ row.prev = "ready" /\ row.begun = items[i].begun
  BY <1>1 DEF Owned, Row
<1>4. IsNewest(items[i].recon, i) /\ receipts[items[i].recon].dir = "apply"
  BY <1>1 DEF claim_deferred_reconciliation, IInv, UnfinishedReceiptIsNewest, Unfinished
<1>5. items[i].begun
  BY <1>1 DEF claim_deferred_reconciliation, GoodRow
<1>6. GoodRow(i, row)
  BY <1>2, <1>3, <1>4, <1>5, SessionRow
     DEF GoodRow, claim_deferred_reconciliation, Active, Processing, NoRow, StartOf
<1> QED
  BY <1>6, RowStep, Touched DEF claim_deferred_reconciliation, JournalKept

\* The receipt of an owned applying row is the newest of its document, so its
\* stage may move.
LEMMA HeldReceipt ==
  ASSUME IInv, NEW s \in Session, NEW i \in Item, NEW r \in ReceiptId, Holds(s, i, r)
  PROVE  /\ items[i].status = "applying" /\ items[i].status \in Active
         /\ items[i].begun /\ IsNewest(r, i)
         /\ receipts[r].item = i /\ receipts[r].stage \in Stage
         /\ items[i].prev = StartOf(receipts[r].dir)
<1>1. /\ items[i].status = "applying" /\ items[i].active = r /\ r # NULL
      /\ receipts[r].item = i /\ i # 0
  BY DEF Holds, OwnsApplying, ReceiptId, NULL, Item
<1>2. receipts[r] \in Receipt /\ receipts[r].stage \notin NoRow
  BY <1>1 DEF IInv, TypeOK, ReceiptsAreNumbered
<1> QED
  BY <1>1, <1>2 DEF IInv, ActiveReceiptIsTheOperation, EmptyApplyingCanBeResolved,
                    Receipt, Active

\* update_receipt moves the stage of the receipt its caller's row points at.
LEMMA update_receiptStep ==
  ASSUME IInv, NEW s \in Session, NEW i \in Item, NEW r \in ReceiptId,
         NEW expected, NEW next \in Stage, update_receipt(s, i, r, expected, next)
  PROVE  IInv'
<1> DEFINE row == [items[i] EXCEPT !.lease = LEASE_SECONDS]
<1>1. items[i] \in Row /\ GoodRow(i, items[i])
  BY ItemIsGood
<1>2. row \in Row
  BY <1>1, Columns, Zenon DEF Row
<1>3. /\ row.status = items[i].status /\ row.owner = items[i].owner
      /\ row.active = items[i].active /\ row.prev = items[i].prev
      /\ row.begun = items[i].begun /\ row.failures = items[i].failures
  BY <1>1 DEF Row
<1>4. GoodRow(i, row)
  BY <1>1, <1>2, <1>3 DEF GoodRow
<1>5. JournalKept
  BY HeldReceipt DEF JournalKept, update_receipt
<1> QED
  BY <1>4, <1>5, RowStep, Touched DEF update_receipt

\* Every statement that settles an applying row ends this way.
LEMMA SettleStep ==
  ASSUME IInv, NEW s \in Session, NEW i \in Item, NEW st \in {"ready", "completed"},
         items[i].begun, SetRow(i, Settled(items[i], st)), JournalKept,
         touch_session(s), UNCHANGED session
  PROVE  IInv'
<1>1. items[i] \in Row
  BY ItemIsGood
<1>2. Settled(items[i], st) \in Row
  BY <1>1, RowTypes DEF Status
<1>3. /\ Settled(items[i], st).status = st /\ Settled(items[i], st).owner = NoSession
      /\ Settled(items[i], st).active = NULL /\ Settled(items[i], st).begun
  BY <1>1 DEF Settled, Disowned, Row
<1>4. GoodRow(i, Settled(items[i], st))
  BY <1>2, <1>3 DEF GoodRow, Active, Processing, NoRow
<1> QED
  BY <1>4, RowStep, Touched

\* complete_apply and complete_undo settle the row and leave the receipt.
LEMMA finish_applyingStep ==
  ASSUME IInv, NEW s \in Session, NEW i \in Item, NEW r \in ReceiptId, NEW dir,
         finish_applying(s, i, r, dir)
  PROVE  IInv'
<1>1. items[i].begun /\ EndOf(dir) \in {"ready", "completed"} /\ JournalKept
  BY HeldReceipt DEF finish_applying, EndOf, JournalKept
<1> QED
  BY <1>1, SettleStep DEF finish_applying

\* resolve_reconciled_rollback ends the receipt and gives the row back the
\* status it started from.
LEMMA resolve_reconciled_rollbackStep ==
  ASSUME IInv, NEW s \in Session, NEW i \in Item, NEW r \in ReceiptId, NEW expected,
         resolve_reconciled_rollback(s, i, r, expected)
  PROVE  IInv'
<1>1. items[i].begun /\ items[i].prev \in {"ready", "completed"}
  BY HeldReceipt DEF resolve_reconciled_rollback, StartOf
<1>2. JournalKept
  BY HeldReceipt DEF resolve_reconciled_rollback, JournalKept, Stage, Terminal
<1> QED
  BY <1>1, <1>2, SettleStep DEF resolve_reconciled_rollback

\* resolve_empty_applying gives back the status of an operation that wrote
\* no receipt.
LEMMA resolve_empty_applyingStep ==
  ASSUME IInv, NEW s \in Session, NEW i \in Item, resolve_empty_applying(s, i)
  PROVE  IInv'
  BY SettleStep DEF resolve_empty_applying, JournalKept

\* resolve_verified_operation completes the receipt and the row together.
LEMMA resolve_verified_operationStep ==
  ASSUME IInv, NEW s \in Session, NEW i \in Item, NEW r \in ReceiptId, NEW expected,
         resolve_verified_operation(s, i, r, expected)
  PROVE  IInv'
<1>1. items[i].begun /\ EndOf(receipts[r].dir) \in {"ready", "completed"}
  BY HeldReceipt DEF resolve_verified_operation, EndOf
<1>2. JournalKept
  BY HeldReceipt DEF resolve_verified_operation, JournalKept, Stage, Terminal
<1> QED
  BY <1>1, <1>2, SettleStep DEF resolve_verified_operation

\* record_applying_rollback notes the error and keeps the row with its owner.
LEMMA record_applying_rollbackStep ==
  ASSUME IInv, NEW s \in Session, NEW i \in Item, NEW r \in ReceiptId,
         NEW e \in ErrorCode, record_applying_rollback(s, i, r, e)
  PROVE  IInv'
<1> DEFINE row == [Owned(items[i], s) EXCEPT !.recon = r, !.error = e]
<1>1. /\ items[i] \in Row /\ GoodRow(i, items[i])
      /\ items[i].status = "applying" /\ items[i].status \in Active
  BY ItemIsGood DEF record_applying_rollback, OwnsApplying, Active
<1>2. row \in Row
  <2>1. Owned(items[i], s) \in Row
    BY <1>1, RowTypes
  <2>2. r \in ReceiptId \cup {NULL}
    BY Zenon
  <2> QED
    BY <2>1, <2>2, Zenon DEF Row
<1>3. /\ row.status = items[i].status /\ row.owner = s
      /\ row.active = items[i].active /\ row.prev = items[i].prev
      /\ row.begun = items[i].begun /\ row.failures = items[i].failures
  BY <1>1 DEF Owned, Row
<1>4. GoodRow(i, row)
  BY <1>1, <1>2, <1>3, SessionRow DEF GoodRow, record_applying_rollback
<1> QED
  BY <1>4, RowStep, Touched DEF record_applying_rollback, JournalKept

\* Both statements that hand an operation to a person.
LEMMA ParkStep ==
  ASSUME IInv, NEW i \in Item, NEW r \in ReceiptId, NEW e \in ErrorCode,
         SetRow(i, Parked(items[i], r, e)), items[i].status = "applying",
         UNCHANGED <<receipts, session, quiet>>
  PROVE  IInv'
<1> DEFINE row == Parked(items[i], r, e)
<1>1. items[i] \in Row /\ GoodRow(i, items[i])
  BY ItemIsGood
<1>2. row \in Row
  BY <1>1, ParkedType
<1>3. /\ row.status = "needs_review" /\ row.owner = NoSession
      /\ row.active = NULL /\ row.begun = items[i].begun
  BY <1>1 DEF Parked, Disowned, Row
<1>4. GoodRow(i, row)
  <2> HIDE DEF row
  <2> QED
    BY <1>1, <1>2, <1>3 DEF GoodRow, Active, Processing, NoRow
<1>5. quiet' \in [Session -> 0..LEASE_SECONDS]
  BY DEF IInv, TypeOK
<1> QED
  BY <1>4, <1>5, RowStep DEF JournalKept

\* A receipt just written is the newest of its document: every id above it is
\* still unused, and nothing unfinished is below it.
LEMMA create_receiptStep ==
  ASSUME IInv, NEW s \in Session, NEW i \in Item, NEW r \in ReceiptId,
         NEW dir \in Direction, create_receipt(s, i, r, dir)
  PROVE  IInv'
<1> DEFINE row == [items[i] EXCEPT !.active = r, !.lease = LEASE_SECONDS]
           receipt == [item |-> i, dir |-> dir, stage |-> "planned"]
<1> USE DEF create_receipt, BindReceipt
<1>1. /\ items[i] \in Row /\ GoodRow(i, items[i]) /\ items[i].status = "applying"
      /\ items[i].status \in Active /\ items[i].begun
      /\ items[i].prev = StartOf(dir) /\ items[i].active = NULL
  BY ItemIsGood DEF OwnsApplying, GoodRow, Active
<1>2. row \in Row
  <2>1. r \in ReceiptId \cup {NULL}
    BY Zenon
  <2> QED
    BY <1>1, <2>1, Columns, Zenon DEF Row
<1>3. /\ row.status = "applying" /\ row.owner = items[i].owner /\ row.active = r
      /\ row.prev = StartOf(dir) /\ row.begun
  BY <1>1 DEF Row
<1>4. /\ items' \in [Item -> Row] /\ items'[i] = row
      /\ \A j \in Item \ {i} : items'[j] = items[j]
  BY <1>2 DEF SetRow, IInv, TypeOK
<1>5. receipt \in Receipt
  BY DEF Receipt, Stage, Unfinished
<1>6. /\ receipts' \in [ReceiptId -> Receipt] /\ receipts'[r] = receipt
      /\ receipts'[r].item = i /\ receipts'[r].dir = dir /\ receipts'[r].stage = "planned"
      /\ \A q \in ReceiptId \ {r} : receipts'[q] = receipts[q]
  BY <1>5 DEF IInv, TypeOK
<1> HIDE DEF row, receipt
<1>7. receipts[r].stage = "absent" /\ receipts[r].item = 0
  BY DEF NextReceiptId, IInv, ReceiptsAreNumbered, NoRow
<1>8. \A q \in ReceiptId : r < q => receipts[q].stage = "absent" /\ receipts[q].item = 0
  BY <1>7 DEF IInv, ReceiptsAreNumbered, NoRow
<1>9. IsNewest(r, i)'
  BY <1>6, <1>8 DEF IsNewest, ReceiptId, Item
<1>10. \A q \in ReceiptId, j \in Item : j # i /\ IsNewest(q, j) => q # r /\ IsNewest(q, j)'
  BY <1>6, <1>7 DEF IsNewest, Item
<1>11. TypeOK'
  BY <1>4, <1>6, Touched DEF IInv, TypeOK
<1>12. OneDocumentAtATime'
  BY <1>1, <1>3, <1>4 DEF IInv, OneDocumentAtATime
<1>13. OwnedRowsAreActive'
  BY <1>1, <1>3, <1>4 DEF IInv, OwnedRowsAreActive, HasRow, Active
<1>14. ReceiptsAreNumbered'
  <2>1. \A q \in ReceiptId : q < r => receipts[q].stage # "absent"
    BY DEF NextReceiptId
  <2>2. \A q \in ReceiptId : receipts'[q].stage # "absent" => q <= r
    BY <1>6, <1>8 DEF ReceiptId
  <2> QED
    BY <1>6, <2>1, <2>2 DEF IInv, ReceiptsAreNumbered, NoRow, ReceiptId
<1>15. ReceiptsHaveBegun'
  BY <1>3, <1>4, <1>6 DEF IInv, ReceiptsHaveBegun, NoRow
<1>16. UnfinishedReceiptIsNewest'
  BY <1>6, <1>9, <1>10 DEF IInv, UnfinishedReceiptIsNewest, HasUnfinishedReceipt
<1>17. ActiveReceiptIsTheOperation'
  <2> SUFFICES ASSUME NEW j \in Item, (items[j].active # NULL)'
               PROVE  (/\ items[j].status = "applying"
                       /\ IsNewest(items[j].active, j)
                       /\ items[j].prev = StartOf(receipts[items[j].active].dir))'
    BY DEF ActiveReceiptIsTheOperation
  <2>1. CASE j = i
    BY <1>3, <1>4, <1>6, <1>9, <2>1 DEF IsNewest, StartOf
  <2>2. CASE j # i
    <3>1. PICK q \in ReceiptId : q = items'[j].active /\ q = items[j].active
      BY <1>4, <2>2 DEF Row
    <3>2. /\ items'[j].status = "applying"
          /\ IsNewest(q, j) /\ items'[j].prev = StartOf(receipts[q].dir)
      BY <1>4, <2>2, <3>1 DEF IInv, ActiveReceiptIsTheOperation
    <3>3. IsNewest(q, j)' /\ receipts'[q] = receipts[q]
      BY <1>6, <1>10, <2>2, <3>2
    <3> QED
      BY <3>1, <3>2, <3>3 DEF IsNewest, StartOf
  <2> QED
    BY <2>1, <2>2
<1>18. EmptyApplyingCanBeResolved'
  BY <1>1, <1>3, <1>4 DEF IInv, EmptyApplyingCanBeResolved, StartOf
<1>19. NoThirdAttempt'
  BY <1>3, <1>4 DEF IInv, NoThirdAttempt, Processing
<1> QED
  BY <1>11, <1>12, <1>13, <1>14, <1>15, <1>16, <1>17, <1>18, <1>19 DEF IInv

-----------------------------------------------------------------------------
(* Statements that rewrite the whole table *)

\* What sessions coming and going, time and recovery do to a row: they may
\* release it, run its lease down or put it back in the queue.
Released(i) ==
  /\ \/ items'[i].status = items[i].status
     \/ items[i].status \in Processing /\ items'[i].status = "queued"
  /\ items'[i].active = items[i].active
  /\ items'[i].prev = items[i].prev
  /\ items'[i].begun = items[i].begun
  /\ items'[i].failures = items[i].failures
  /\ items'[i].owner # NoSession =>
       /\ items'[i].owner = items[i].owner
       /\ items'[i].status = items[i].status
       /\ HasRow(items[i].owner)'

\* A statement that rewrites every row, each to a good one, and leaves the
\* journal alone preserves the invariant.
LEMMA TableStep ==
  ASSUME IInv, items' \in [Item -> Row], UNCHANGED receipts, TypeOK',
         \A i \in Item : Released(i)
  PROVE  IInv'
<1> USE DEF IInv, Released
<1>1. \A i \in Item : items'[i].status \in Active => items[i].status \in Active
  BY DEF Active, Processing
<1>2. OneDocumentAtATime'
  BY <1>1 DEF OneDocumentAtATime
<1>3. OwnedRowsAreActive'
  <2> SUFFICES ASSUME NEW i \in Item, items'[i].owner # NoSession
               PROVE  items'[i].status \in Active /\ HasRow(items[i].owner)'
    BY DEF OwnedRowsAreActive, HasRow
  <2> QED
    BY DEF OwnedRowsAreActive
<1>4. ReceiptsAreNumbered' /\ UnfinishedReceiptIsNewest'
  BY DEF ReceiptsAreNumbered, UnfinishedReceiptIsNewest, IsNewest
<1>5. ReceiptsHaveBegun'
  BY DEF ReceiptsHaveBegun, NoRow
<1>6. ActiveReceiptIsTheOperation'
  BY DEF ActiveReceiptIsTheOperation, IsNewest, StartOf, Processing
<1>7. EmptyApplyingCanBeResolved'
  BY DEF EmptyApplyingCanBeResolved
<1>8. NoThirdAttempt'
  BY DEF NoThirdAttempt, Processing
<1> QED
  BY <1>2, <1>3, <1>4, <1>5, <1>6, <1>7, <1>8

\* Opening a store gives the session its row.
LEMMA openStep ==
  ASSUME IInv, NEW s \in Session, open(s)
  PROVE  IInv'
<1>1. TypeOK'
  BY Touched DEF open, IInv, TypeOK
<1>2. \A i \in Item : Released(i)
  BY DEF Released, IInv, TypeOK, OwnedRowsAreActive, HasRow, open
<1> QED
  BY <1>1, <1>2, TableStep DEF open, IInv, TypeOK

\* A process that dies leaves every row as it is.
LEMMA CrashStep ==
  ASSUME IInv, NEW s \in Session, Crash(s)
  PROVE  IInv'
<1>1. TypeOK'
  BY DEF Crash, IInv, TypeOK
<1>2. \A i \in Item : Released(i)
  BY DEF Released, IInv, TypeOK, OwnedRowsAreActive, HasRow, Crash
<1> QED
  BY <1>1, <1>2, TableStep DEF Crash, IInv, TypeOK

\* A heartbeat alone, of a claim_next that found nothing or a renew_lease that
\* was refused, touches no row.
LEMMA HeartbeatStep ==
  ASSUME IInv, NEW s \in Session, claim_next_none(s) \/ renew_lease_refused(s)
  PROVE  IInv'
<1>1. TypeOK'
  BY Touched DEF claim_next_none, renew_lease_refused, IInv, TypeOK
<1>2. \A i \in Item : Released(i)
  BY DEF Released, IInv, TypeOK, OwnedRowsAreActive, HasRow, claim_next_none, renew_lease_refused
<1> QED
  BY <1>1, <1>2, TableStep DEF claim_next_none, renew_lease_refused, IInv, TypeOK

\* Drop removes the session's row, and no row is left owned by it.
LEMMA dropStep ==
  ASSUME IInv, NEW s \in Session, drop(s)
  PROVE  IInv'
<1>1. \A i \in Item : items[i] \in Row /\ [items[i] EXCEPT !.owner = NoSession] \in Row
  BY ItemIsGood, RowTypes
<1>2. items' \in [Item -> Row]
  BY <1>1 DEF drop
<1>3. TypeOK'
  BY <1>2 DEF drop, IInv, TypeOK
<1>4. \A i \in Item : Released(i)
  <2> SUFFICES ASSUME NEW i \in Item PROVE Released(i)
    OBVIOUS
  <2>1. CASE items[i].owner = s
    BY <1>1, <2>1 DEF drop, Released, Row
  <2>2. CASE items[i].owner # s
    BY <1>1, <2>2 DEF drop, Released, IInv, TypeOK, OwnedRowsAreActive, HasRow
  <2> QED
    BY <2>1, <2>2
<1> QED
  BY <1>2, <1>3, <1>4, TableStep DEF drop

\* Time runs the leases down and makes silent sessions more silent.
LEMMA TickStep ==
  ASSUME IInv, Tick
  PROVE  IInv'
<1>1. \A i \in Item : items[i] \in Row
  BY ItemIsGood
<1>2. \A i \in Item : items[i].lease > 0 =>
        [items[i] EXCEPT !.lease = @ - 1] \in Row
  <2> SUFFICES ASSUME NEW i \in Item, items[i].lease > 0
               PROVE  [items[i] EXCEPT !.lease = @ - 1] \in Row
    OBVIOUS
  <2>1. items[i].lease \in 0..LEASE_SECONDS
    BY <1>1 DEF Row
  <2>2. items[i].lease - 1 \in 0..LEASE_SECONDS
    BY <2>1, LeaseAssumption
  <2> QED
    BY <1>1, <2>2, Zenon DEF Row
<1>3. items' \in [Item -> Row]
  BY <1>1, <1>2 DEF Tick
<1>4. quiet' \in [Session -> 0..LEASE_SECONDS]
  BY LeaseAssumption DEF Tick, IInv, TypeOK
<1>5. TypeOK'
  BY <1>3, <1>4 DEF Tick, IInv, TypeOK
<1>6. \A i \in Item : Released(i)
  BY <1>1 DEF Tick, Released, Row, IInv, OwnedRowsAreActive, HasRow
<1> QED
  BY <1>3, <1>5, <1>6, TableStep DEF Tick

\* recover_interrupted takes processing rows from their owners and puts them
\* back in the queue; none of them is pointing at a receipt.
LEMMA recover_interruptedStep ==
  ASSUME IInv, NEW s \in Session, recover_interrupted(s)
  PROVE  IInv'
<1>1. \A i \in Item : items[i] \in Row /\ Requeued(items[i]) \in Row
  BY ItemIsGood, RowTypes
<1>2. items' \in [Item -> Row]
  BY <1>1 DEF recover_interrupted
<1>3. TypeOK'
  BY <1>2 DEF recover_interrupted, IInv, TypeOK
<1>4. \A i \in Item : Released(i)
  <2> SUFFICES ASSUME NEW i \in Item PROVE Released(i)
    OBVIOUS
  <2>1. CASE items[i].status \in Processing /\ OwnerIsDead(i)
    <3>1. items'[i] = Requeued(items[i])
      BY <2>1 DEF recover_interrupted
    <3> QED
      BY <1>1, <2>1, <3>1 DEF Released, Requeued, Disowned, Row
  <2>2. CASE ~ (items[i].status \in Processing /\ OwnerIsDead(i))
    BY <1>1, <2>2 DEF recover_interrupted, Released, IInv, OwnedRowsAreActive, HasRow
  <2> QED
    BY <2>1, <2>2
<1> QED
  BY <1>2, <1>3, <1>4, TableStep DEF recover_interrupted

\* Rows go with all their receipts, and only rows that are not active go.
LEMMA DeleteRowsStep ==
  ASSUME IInv, NEW Gone \in SUBSET Item, DeleteRows(Gone)
  PROVE  IInv'
<1> DEFINE gone == [EmptyRow EXCEPT !.status = "deleted"]
           lost == [EmptyReceipt EXCEPT !.stage = "deleted"]
<1> USE DEF IInv, DeleteRows
<1>1. gone \in Row
  <2>1. EmptyRow \in Row
    BY SMT, Columns DEF EmptyRow, Row
  <2> QED
    BY <2>1, RowTypes
<1>2. /\ gone.status = "deleted" /\ gone.owner = NoSession /\ gone.active = NULL
      /\ gone.failures = 0
  BY DEF EmptyRow
<1>3. lost \in Receipt /\ lost.item = 0 /\ lost.stage = "deleted"
  BY DEF EmptyReceipt, Receipt, NoRow, Direction
<1> HIDE DEF gone, lost
<1>0. 0 \notin Item
  BY DEF Item
<1>4. /\ items' \in [Item -> Row]
      /\ \A i \in Gone : items'[i] = gone
      /\ \A i \in Item \ Gone : items'[i] = items[i]
  BY <1>1 DEF TypeOK, gone
<1>5. /\ receipts' \in [ReceiptId -> Receipt]
      /\ \A r \in ReceiptId : receipts[r].item \in Gone => receipts'[r] = lost
      /\ \A r \in ReceiptId : receipts[r].item \notin Gone => receipts'[r] = receipts[r]
  BY <1>3 DEF TypeOK, lost
<1>6. TypeOK'
  BY <1>4, <1>5 DEF TypeOK
<1>7. OneDocumentAtATime' /\ OwnedRowsAreActive'
  BY <1>2, <1>4 DEF OneDocumentAtATime, OwnedRowsAreActive, HasRow, Active, Processing
<1>8. \A r \in ReceiptId, i \in Item : IsNewest(r, i) /\ i \notin Gone => IsNewest(r, i)'
  BY <1>0, <1>3, <1>5 DEF IsNewest
<1>9. \A r \in ReceiptId, i \in Item :
        receipts'[r].item = i => i \notin Gone /\ receipts'[r] = receipts[r]
  BY <1>0, <1>3, <1>5
<1>10. ReceiptsAreNumbered'
  BY <1>0, <1>3, <1>5 DEF ReceiptsAreNumbered, NoRow
<1>11. ReceiptsHaveBegun' /\ UnfinishedReceiptIsNewest'
  BY <1>4, <1>8, <1>9 DEF ReceiptsHaveBegun, UnfinishedReceiptIsNewest
<1>12. ActiveReceiptIsTheOperation'
  <2> SUFFICES ASSUME NEW j \in Item, (items[j].active # NULL)'
               PROVE  (/\ items[j].status = "applying"
                       /\ IsNewest(items[j].active, j)
                       /\ items[j].prev = StartOf(receipts[items[j].active].dir))'
    BY DEF ActiveReceiptIsTheOperation
  <2>1. j \notin Gone /\ items'[j] = items[j]
    BY <1>2, <1>4
  <2>2. PICK q \in ReceiptId : q = items[j].active
    BY <2>1 DEF TypeOK, Row
  <2>3. IsNewest(q, j)' /\ receipts'[q] = receipts[q]
    BY <1>5, <1>8, <2>1, <2>2 DEF ActiveReceiptIsTheOperation, IsNewest
  <2> QED
    BY <2>1, <2>2, <2>3 DEF ActiveReceiptIsTheOperation, IsNewest, StartOf
<1>13. EmptyApplyingCanBeResolved' /\ NoThirdAttempt'
  BY <1>2, <1>4 DEF EmptyApplyingCanBeResolved, NoThirdAttempt, Processing
<1> QED
  BY <1>6, <1>7, <1>10, <1>11, <1>12, <1>13

-----------------------------------------------------------------------------
(* The invariants *)

\* An empty database satisfies the invariant.
LEMMA InitIInv == Init => IInv
<1> SUFFICES ASSUME Init PROVE IInv
  OBVIOUS
<1> USE DEF Init
<1>1. EmptyRow \in Row
  BY SMT, Columns DEF EmptyRow, Row
<1>2. EmptyReceipt \in Receipt
  BY DEF EmptyReceipt, Receipt, Direction, NoRow
<1>3. TypeOK
  BY <1>1, <1>2, LeaseAssumption DEF TypeOK
<1>4. /\ \A i \in Item : /\ items[i].status = "absent" /\ items[i].owner = NoSession
                         /\ items[i].active = NULL
      /\ \A r \in ReceiptId : receipts[r].item = 0 /\ receipts[r].stage = "absent"
      /\ 0 \notin Item
  BY DEF EmptyRow, EmptyReceipt, Item
<1> HIDE DEF Init
<1>5. OneDocumentAtATime /\ OwnedRowsAreActive
  BY <1>4 DEF OneDocumentAtATime, OwnedRowsAreActive, Active, Processing
<1>6. ReceiptsAreNumbered /\ ReceiptsHaveBegun /\ UnfinishedReceiptIsNewest
  BY <1>4 DEF ReceiptsAreNumbered, ReceiptsHaveBegun, UnfinishedReceiptIsNewest, Unfinished
<1>7. ActiveReceiptIsTheOperation /\ EmptyApplyingCanBeResolved /\ NoThirdAttempt
  BY <1>4 DEF ActiveReceiptIsTheOperation, EmptyApplyingCanBeResolved, NoThirdAttempt,
              Processing
<1> QED
  BY <1>3, <1>5, <1>6, <1>7 DEF IInv

\* The statements of the processing loop preserve the invariant.
LEMMA ProcessStep ==
  ASSUME IInv, NEW s \in Session, NEW i \in Item, Process(s, i)
  PROVE  IInv'
<1>1. CASE claim_next(s, i)
  BY <1>1, claim_nextStep
<1>2. CASE renew_lease(s, i)
  BY <1>2, renew_leaseStep
<1>3. ASSUME NEW expected \in Status, NEW next \in Status,
             NEW e \in ReviewErrors(expected, next), transition(s, i, expected, next, e)
      PROVE  IInv'
  <2>1. e \in ErrorCode
    BY <1>3 DEF ReviewErrors, ErrorCode
  <2> QED
    BY <1>3, <2>1, transitionStep
<1>4. CASE record_processing_failure(s, i)
  BY <1>4, record_processing_failureStep
<1>5. CASE record_recovered_failure(s, i)
  BY <1>5, record_recovered_failureStep
<1> QED
  BY <1>1, <1>2, <1>3, <1>4, <1>5 DEF Process

\* The statements behind a person's decisions preserve the invariant.
LEMMA DecideStep ==
  ASSUME IInv, NEW s \in Session, NEW i \in Item, Decide(s, i)
  PROVE  IInv'
<1>1. CASE enqueue(s, i)
  BY <1>1, enqueueStep
<1>2. CASE manual_retry(s, i)
  BY <1>2, cas_statusStep DEF manual_retry
<1>3. CASE \E expected \in {"ready", "needs_review"} : complete_keep_original(s, i, expected)
  BY <1>3, cas_statusStep DEF complete_keep_original
<1>4. CASE retry_duplicate(s, i)
  BY <1>4, cas_statusStep DEF retry_duplicate
<1>5. CASE retry_unverified(s, i)
  BY <1>5, ReadAgainStep DEF retry_unverified
<1>6. CASE retry_canceled(s, i)
  BY <1>6, ReadAgainStep DEF retry_canceled
<1>7. CASE mark_needs_review(s, i)
  BY <1>7, mark_needs_reviewStep
<1>8. CASE \E expected \in {"ready", "needs_review"} : approve_user_edit(s, i, expected)
  BY <1>8, approve_user_editStep
<1>9. CASE remove_item(s, i)
  BY <1>9, DeleteRowsStep DEF remove_item
<1> QED
  BY <1>1, <1>2, <1>3, <1>4, <1>5, <1>6, <1>7, <1>8, <1>9 DEF Decide

\* The statements that begin or take up an operation preserve the invariant.
LEMMA ApplyStep ==
  ASSUME IInv, NEW s \in Session, NEW i \in Item, Apply(s, i)
  PROVE  IInv'
  BY begin_applyingStep, resolve_empty_applyingStep, claim_applying_reconciliationStep,
     claim_deferred_reconciliationStep
     DEF Apply

\* The statements that name a receipt preserve the invariant.
LEMMA JournalStep ==
  ASSUME IInv, NEW s \in Session, NEW i \in Item, NEW r \in ReceiptId, Journal(s, i, r)
  PROVE  IInv'
<1>1. CASE \E dir \in Direction : create_receipt(s, i, r, dir)
  BY <1>1, create_receiptStep
<1>2. CASE \E stage \in Stage : renew_operation_lease(s, i, r, stage)
  BY <1>2, renew_operation_leaseStep
<1>3. CASE \E expected, next \in Stage : update_receipt(s, i, r, expected, next)
  BY <1>3, update_receiptStep
<1>4. CASE \E dir \in Direction : finish_applying(s, i, r, dir)
  BY <1>4, finish_applyingStep
<1>5. CASE \E expected \in Stage : resolve_reconciled_rollback(s, i, r, expected)
  BY <1>5, resolve_reconciled_rollbackStep
<1>6. CASE \E expected \in Stage : resolve_verified_operation(s, i, r, expected)
  BY <1>6, resolve_verified_operationStep
<1>7. CASE \E e \in FileErrors : record_applying_rollback(s, i, r, e)
  BY <1>7, record_applying_rollbackStep DEF FileErrors, ErrorCode
<1>8. CASE defer_published_reconciliation(s, i, r)
  BY <1>8, ParkStep DEF defer_published_reconciliation, Holds, OwnsApplying, ErrorCode
<1>9. CASE \E e \in FileErrors : park_applying_for_review(s, i, r, e)
  BY <1>9, ParkStep DEF park_applying_for_review, OwnsApplying, FileErrors, ErrorCode
<1> QED
  BY <1>1, <1>2, <1>3, <1>4, <1>5, <1>6, <1>7, <1>8, <1>9 DEF Journal

\* Whatever a session does, or time passing, preserves the invariant.
LEMMA NextIInv == IInv /\ [Next]_storeVars => IInv'
<1> SUFFICES ASSUME IInv, [Next]_storeVars PROVE IInv'
  OBVIOUS
<1>1. CASE Tick
  BY <1>1, TickStep
<1>2. ASSUME NEW s \in Session, Step(s) PROVE IInv'
  <2>1. CASE open(s)
    BY <2>1, openStep
  <2>2. CASE drop(s)
    BY <2>2, dropStep
  <2>3. CASE Crash(s) \/ claim_next_none(s) \/ renew_lease_refused(s)
    BY <2>3, CrashStep, HeartbeatStep
  <2>4. CASE recover_interrupted(s)
    BY <2>4, recover_interruptedStep
  <2>5. CASE clear_terminal(s)
    BY <2>5, DeleteRowsStep DEF clear_terminal, WithStatus
  <2>6. CASE discard_queued(s)
    BY <2>6, DeleteRowsStep DEF discard_queued, WithStatus
  <2>7. CASE \E i \in Item : Process(s, i) \/ Decide(s, i) \/ Apply(s, i)
    BY <2>7, ProcessStep, DecideStep, ApplyStep
  <2>8. CASE \E i \in Item, r \in ReceiptId : Journal(s, i, r)
    BY <2>8, JournalStep
  <2> QED
    BY <1>2, <2>1, <2>2, <2>3, <2>4, <2>5, <2>6, <2>7, <2>8 DEF Step
<1>3. CASE UNCHANGED storeVars
  BY <1>3 DEF storeVars, IInv, TypeOK, OneDocumentAtATime, OwnedRowsAreActive, HasRow,
              ReceiptsAreNumbered, ReceiptsHaveBegun, UnfinishedReceiptIsNewest, IsNewest,
              ActiveReceiptIsTheOperation, StartOf, EmptyApplyingCanBeResolved,
              NoThirdAttempt
<1> QED
  BY <1>1, <1>2, <1>3 DEF Next

\* IInv holds in every state the store can reach, however many documents,
\* receipts and sessions there are: every transaction of store.rs keeps it.
THEOREM Invariance == Spec => []IInv
  BY InitIInv, NextIInv, PTL DEF Spec

\* The columns keep their types, whatever the sessions do in whatever order.
THEOREM TypeCorrectness == Spec => []TypeOK
  BY Invariance, PTL DEF IInv

\* claim_next, begin_applying and claim_deferred_reconciliation between them
\* never let two documents be active together.
THEOREM OneAtATime == Spec => []OneDocumentAtATime
  BY Invariance, PTL DEF IInv

\* Only a row being worked on has an owner, and its owner has a session row.
THEOREM Ownership == Spec => []OwnedRowsAreActive
  BY Invariance, PTL DEF IInv

\* create_receipt never leaves a document with two unfinished receipts, nor
\* with an unfinished one that is not its newest.
THEOREM JournalIsUnambiguous == Spec => []UnfinishedReceiptIsNewest
  BY Invariance, PTL DEF IInv

\* An applying row points at its own newest receipt, of its own direction.
THEOREM ActiveReceipt == Spec => []ActiveReceiptIsTheOperation
  BY Invariance, PTL DEF IInv

\* resolve_empty_applying can settle every applying row without a receipt.
THEOREM EmptyApplying == Spec => []EmptyApplyingCanBeResolved
  BY Invariance, PTL DEF IInv

\* Two failures and the document waits for a person.
THEOREM TwoAttempts == Spec => []NoThirdAttempt
  BY Invariance, PTL DEF IInv

-----------------------------------------------------------------------------
(* What a step may never do *)

Final(r) == receipts[r].stage \in Terminal => receipts'[r].stage \in {receipts[r].stage, "deleted"}

\* One receipt written: the others stay, and it was not finished or keeps
\* what it said.
LEMMA SetStageFinal ==
  ASSUME TypeOK, NEW r \in ReceiptId, NEW stage, SetStage(r, stage),
         receipts[r].stage \in Terminal => stage = receipts[r].stage,
         NEW q \in ReceiptId
  PROVE  Final(q)
<1>1. receipts[r] \in Receipt /\ receipts' = [receipts EXCEPT ![r].stage = stage]
  BY DEF TypeOK, SetStage
<1>2. CASE q = r
  BY <1>1, <1>2 DEF Final, Receipt, TypeOK
<1>3. CASE q # r
  BY <1>1, <1>3 DEF Final, TypeOK
<1> QED
  BY <1>2, <1>3

\* No statement that names a receipt moves it from complete or rolled_back.
LEMMA JournalFinal ==
  ASSUME TypeOK, NEW s \in Session, NEW i \in Item, NEW r \in ReceiptId, Journal(s, i, r),
         NEW q \in ReceiptId
  PROVE  Final(q)
<1>1. CASE \E dir \in Direction : create_receipt(s, i, r, dir)
  BY <1>1 DEF create_receipt, BindReceipt, NextReceiptId, Final, Terminal, TypeOK
<1>2. CASE UNCHANGED receipts
  BY <1>2 DEF Final
<1>3. CASE \E expected, next \in Stage : update_receipt(s, i, r, expected, next)
  BY <1>3, SetStageFinal DEF update_receipt, CanAdvance, Terminal
<1>4. CASE \E expected \in Stage : resolve_reconciled_rollback(s, i, r, expected)
  BY <1>4, SetStageFinal DEF resolve_reconciled_rollback, Terminal
<1>5. CASE \E expected \in Stage : resolve_verified_operation(s, i, r, expected)
  BY <1>5, SetStageFinal DEF resolve_verified_operation, Terminal
<1> QED
  BY <1>1, <1>2, <1>3, <1>4, <1>5
     DEF Journal, renew_operation_lease, finish_applying, record_applying_rollback,
         defer_published_reconciliation, park_applying_for_review

\* Whatever update_receipt and the two resolving statements are called with,
\* and however often an item is reconciled, a finished receipt stays as it is.
THEOREM FinishedIsFinal == Spec => FinishedReceiptsAreFinal
<1>1. TypeOK /\ [Next]_storeVars =>
        [\A r \in ReceiptId : receipts[r].stage \in Terminal =>
           receipts'[r].stage \in {receipts[r].stage, "deleted"}]_storeVars
  <2> SUFFICES ASSUME TypeOK, Next, NEW q \in ReceiptId PROVE Final(q)
    BY DEF Final
  <2>1. CASE UNCHANGED receipts
    BY <2>1 DEF Final
  <2>2. CASE \E Gone \in SUBSET Item : DeleteRows(Gone)
    BY <2>2 DEF DeleteRows, Final, EmptyReceipt
  <2>3. CASE \E s \in Session, i \in Item, r \in ReceiptId : Journal(s, i, r)
    BY <2>3, JournalFinal
  <2>4. CASE Tick
    BY <2>1, <2>4 DEF Tick
  <2>5. ASSUME NEW s \in Session, NEW i \in Item,
               Process(s, i) \/ Decide(s, i) \/ Apply(s, i)
        PROVE  Final(q)
    <3>1. CASE Process(s, i)
      BY <2>1, <3>1
         DEF Process, claim_next, renew_lease, transition, record_processing_failure,
             record_recovered_failure
    <3>2. CASE remove_item(s, i)
      BY <2>2, <3>2 DEF remove_item
    <3>3. CASE Decide(s, i) /\ ~ remove_item(s, i)
      BY <2>1, <3>3
         DEF Decide, enqueue, manual_retry, complete_keep_original, retry_duplicate,
             cas_status, retry_unverified, retry_canceled, ReadAgain, mark_needs_review,
             approve_user_edit
    <3>4. CASE Apply(s, i)
      BY <2>1, <3>4
         DEF Apply, begin_applying, resolve_empty_applying,
             claim_applying_reconciliation, claim_deferred_reconciliation
    <3> QED
      BY <2>5, <3>1, <3>2, <3>3, <3>4
  <2>6. ASSUME NEW s \in Session, Step(s) PROVE Final(q)
    BY <2>1, <2>2, <2>3, <2>5, <2>6
       DEF Step, open, drop, Crash, claim_next_none, renew_lease_refused, recover_interrupted,
           clear_terminal, discard_queued, WithStatus
  <2> QED
    BY <2>4, <2>6 DEF Next
<1> QED
  BY <1>1, TypeCorrectness, PTL DEF Spec, FinishedReceiptsAreFinal

\* What a session may rewrite: a row it owns, one nobody owns, or one whose
\* owner is dead.
Entitled(s, i) == items[i].owner \in {s, NoSession} \/ OwnerIsDead(i)

\* A statement of s rewrites i alone, and may.
Rewrites(s, i) ==
  /\ Entitled(s, i)
  /\ \A j \in Item \ {i} : items'[j] = items[j]

\* A row at rest has no owner.
LEMMA RestIsUnowned ==
  ASSUME IInv, NEW i \in Item, items[i].status \notin Active
  PROVE  items[i].owner = NoSession
  BY DEF IInv, OwnedRowsAreActive

\* A statement that writes one row changes the owner of that row alone.
LEMMA SetRowAlone ==
  ASSUME IInv, NEW i \in Item, NEW row, SetRow(i, row)
  PROVE  \A j \in Item \ {i} : items'[j] = items[j]
  BY DEF IInv, TypeOK, SetRow

\* The processing statements change the owner of a row only for its owner, or
\* of a row nobody owns.
LEMMA ProcessEntitled ==
  ASSUME IInv, NEW s \in Session, NEW i \in Item, Process(s, i)
  PROVE  Rewrites(s, i)
<1>1. CASE claim_next(s, i)
  BY <1>1, RestIsUnowned, SetRowAlone
     DEF claim_next, ClaimRow, Active, Processing, Entitled, Rewrites
<1>2. CASE renew_lease(s, i)
  BY <1>2, SetRowAlone DEF renew_lease, Entitled, Rewrites
<1>3. CASE \E expected, next \in Status : \E e \in ReviewErrors(expected, next) :
             transition(s, i, expected, next, e)
  BY <1>3, RestIsUnowned, SetRowAlone DEF transition, Entitled, Rewrites
<1>4. CASE record_processing_failure(s, i)
  BY <1>4, SetRowAlone DEF record_processing_failure, Entitled, Rewrites
<1>5. CASE record_recovered_failure(s, i)
  BY <1>5, SetRowAlone DEF record_recovered_failure, Entitled, Rewrites
<1> QED
  BY <1>1, <1>2, <1>3, <1>4, <1>5 DEF Process

\* A person's decisions change the owner of no row that is being worked on.
LEMMA DecideEntitled ==
  ASSUME IInv, NEW s \in Session, NEW i \in Item, Decide(s, i), ~ remove_item(s, i)
  PROVE  Rewrites(s, i)
<1>1. items[i].status \notin Active
  BY DEF Decide, enqueue, manual_retry, complete_keep_original, retry_duplicate, cas_status,
         retry_unverified, retry_canceled, mark_needs_review, approve_user_edit, Active,
         Processing
<1>2. \A j \in Item \ {i} : items'[j] = items[j]
  BY SetRowAlone
     DEF Decide, enqueue, manual_retry, complete_keep_original, retry_duplicate, cas_status,
         retry_unverified, retry_canceled, ReadAgain, mark_needs_review, approve_user_edit
<1> QED
  BY <1>1, <1>2, RestIsUnowned DEF Entitled, Rewrites

\* Beginning or taking up an operation takes a row from nobody, from its
\* caller, or from an owner found dead.
LEMMA ApplyEntitled ==
  ASSUME IInv, NEW s \in Session, NEW i \in Item, Apply(s, i)
  PROVE  Rewrites(s, i)
<1>1. CASE \E expected \in {"ready", "completed"} : begin_applying(s, i, expected)
  BY <1>1, RestIsUnowned, SetRowAlone
     DEF begin_applying, Active, Processing, Entitled, Rewrites
<1>2. CASE resolve_empty_applying(s, i)
  BY <1>2, SetRowAlone DEF resolve_empty_applying, OwnsApplying, Entitled, Rewrites
<1>3. CASE claim_applying_reconciliation(s, i)
  BY <1>3, SetRowAlone DEF claim_applying_reconciliation, Entitled, Rewrites
<1>4. CASE claim_deferred_reconciliation(s, i)
  BY <1>4, RestIsUnowned, SetRowAlone
     DEF claim_deferred_reconciliation, Active, Processing, Entitled, Rewrites
<1> QED
  BY <1>1, <1>2, <1>3, <1>4 DEF Apply

\* The statements that name a receipt are their own owner's.
LEMMA JournalEntitled ==
  ASSUME IInv, NEW s \in Session, NEW i \in Item, NEW r \in ReceiptId, Journal(s, i, r)
  PROVE  Rewrites(s, i)
<1>1. items[i].owner = s
  BY DEF Journal, create_receipt, BindReceipt, renew_operation_lease, update_receipt,
         finish_applying, resolve_reconciled_rollback, resolve_verified_operation,
         record_applying_rollback, defer_published_reconciliation,
         park_applying_for_review, Holds, OwnsApplying
<1>2. \A j \in Item \ {i} : items'[j] = items[j]
  BY SetRowAlone
     DEF Journal, create_receipt, BindReceipt, renew_operation_lease, update_receipt,
         finish_applying, resolve_reconciled_rollback, resolve_verified_operation,
         record_applying_rollback, defer_published_reconciliation,
         park_applying_for_review
<1> QED
  BY <1>1, <1>2 DEF Entitled, Rewrites

\* Deleting rows takes nothing from a session: what is deleted is at rest.
LEMMA DeletedWasUnowned ==
  ASSUME IInv, NEW Gone \in SUBSET Item, DeleteRows(Gone), NEW i \in Item,
         \A j \in Gone : items[j].status \notin Active
  PROVE  items[i].owner = NoSession \/ items'[i] = items[i]
  BY RestIsUnowned DEF DeleteRows, IInv, TypeOK

-----------------------------------------------------------------------------
(* The queue is one lane *)

\* A document that is ready carries no code of a deletion that failed, so that
\* mark_needs_review, which leaves the code alone, does not make one of it
\* that was left.
NothingLeftWhenReady ==
  \A i \in Item : items[i].status = "ready" => items[i].error # "SOURCE_DELETE_FAILED"

LivesOn == [Life!Next]_Shown

\* The phase is a matter of the status, the status before and the code.
LEMMA PhaseIs ==
  ASSUME NEW row \in Row
  PROVE  /\ row.status \in Processing => PhaseOf(row) = "reading"
         /\ row.status = "applying" => PhaseOf(row) = IF row.prev = "completed" THEN "unfiling" ELSE "filing"
         /\ row.status = "needs_review" =>
              PhaseOf(row) = IF row.error = "SOURCE_DELETE_FAILED" THEN "left" ELSE "review"
         /\ row.status \in {"failed", "canceled"} => PhaseOf(row) = "stopped"
         /\ row.status = "completed" => PhaseOf(row) = "done"
         /\ row.status = "queued" => PhaseOf(row) = "waiting"
         /\ row.status = "absent" => PhaseOf(row) = "none"
         /\ row.status = "deleted" => PhaseOf(row) = "gone"
         /\ row.status = "ready" => PhaseOf(row) = "ready"
         /\ PhaseOf(row) \in Life!Lane <=> row.status \in Active
         /\ PhaseOf(row) \in Life!AtRest <=> row.status \notin Active
<1>1. row.status \in Status \cup NoRow
  BY DEF Row
<1>2. /\ row.status \in Processing => PhaseOf(row) = "reading"
      /\ row.status = "applying" => PhaseOf(row) = IF row.prev = "completed" THEN "unfiling" ELSE "filing"
      /\ row.status = "needs_review" =>
           PhaseOf(row) = IF row.error = "SOURCE_DELETE_FAILED" THEN "left" ELSE "review"
  BY DEF PhaseOf, Processing
<1>3. /\ row.status \in {"failed", "canceled"} => PhaseOf(row) = "stopped"
      /\ row.status = "completed" => PhaseOf(row) = "done"
      /\ row.status = "queued" => PhaseOf(row) = "waiting"
  BY DEF PhaseOf, Processing
<1>4. /\ row.status = "absent" => PhaseOf(row) = "none"
      /\ row.status = "deleted" => PhaseOf(row) = "gone"
      /\ row.status = "ready" => PhaseOf(row) = "ready"
  BY DEF PhaseOf, Processing
<1> HIDE DEF PhaseOf
<1>5. CASE row.status \in Active
  <2>1. PhaseOf(row) \in {"reading", "filing", "unfiling"}
    BY <1>2, <1>5 DEF Active
  <2> QED BY <1>2, <1>3, <1>4, <1>5, <2>1 DEF Life!Lane, Life!AtRest, Active, Processing
<1>6. CASE row.status \notin Active
  <2>1. PhaseOf(row) \in {"left", "review", "stopped", "done", "waiting", "none", "gone", "ready"}
    BY <1>1, <1>2, <1>3, <1>4, <1>6 DEF Status, NoRow
  <2> QED BY <1>2, <1>3, <1>4, <1>6, <2>1 DEF Life!Lane, Life!AtRest, Active, Processing
<1> QED BY <1>5, <1>6

\* One document goes from one phase to another.
Passes(i, from, to) == PhaseOf(items[i]) \in from /\ PhaseOf(items'[i]) \in to

OthersStay(i) == \A j \in Item \ {i} : items'[j] = items[j]

\* A statement that rewrites one row moves one document.
LEMMA PassesAlone ==
  ASSUME NEW i \in Item, NEW from, NEW to, OthersStay(i), Passes(i, from, to)
  PROVE  Life!Goes(i, from, to)
<1>1. Shown' = [Shown EXCEPT ![i] = PhaseOf(items'[i])]
  BY DEF Shown, OthersStay
<1>2. Shown[i] = PhaseOf(items[i])
  BY DEF Shown
<1> QED BY <1>1, <1>2 DEF Life!Goes, Passes

\* The documents at rest or busy are what the statements take for it.
LEMMA LaneIsBusy ==
  ASSUME IInv, NEW i \in Item, NoOtherActive(i), items[i].status \notin Active
  PROVE  Life!LaneIsFree
<1>1. \A j \in Item : items[j].status \notin Active /\ items[j] \in Row
  BY DEF NoOtherActive, IInv, TypeOK
<1> QED BY <1>1, PhaseIs DEF Life!LaneIsFree, Shown

\* A document enters the lane, or another phase, alone.
LEMMA OnePasses ==
  ASSUME IInv, NEW i \in Item, OthersStay(i),
         \/ PhaseOf(items'[i]) = PhaseOf(items[i])
         \/ Passes(i, {"none"}, {"waiting"})
         \/ /\ NoOtherActive(i) /\ items[i].status \notin Active
            /\ \/ Passes(i, {"waiting"}, {"reading"})
               \/ Passes(i, {"ready", "left"}, {"filing"})
               \/ Passes(i, {"done"}, {"unfiling"})
         \/ Passes(i, {"reading"}, {"waiting", "ready", "review", "stopped"})
         \/ Passes(i, {"filing", "unfiling"}, {"ready", "done", "review", "left"})
         \/ Passes(i, {"waiting"}, {"review", "stopped"})
         \/ Passes(i, {"ready"}, {"review", "done", "stopped"})
         \/ Passes(i, {"review"}, {"waiting", "ready", "done", "stopped"})
         \/ Passes(i, {"left"}, {"ready", "done", "stopped"})
         \/ Passes(i, {"stopped"}, {"waiting"})
  PROVE  LivesOn
<1>1. CASE PhaseOf(items'[i]) = PhaseOf(items[i])
  <2>1. \A j \in Item : PhaseOf(items'[j]) = PhaseOf(items[j])
    BY <1>1 DEF OthersStay
  <2> QED BY <2>1 DEF LivesOn, Shown
<1>2. CASE Passes(i, {"none"}, {"waiting"})
  BY <1>2, PassesAlone DEF LivesOn, Life!Next, Life!Arrive
<1>3. CASE /\ NoOtherActive(i) /\ items[i].status \notin Active
           /\ \/ Passes(i, {"waiting"}, {"reading"})
              \/ Passes(i, {"ready", "left"}, {"filing"})
              \/ Passes(i, {"done"}, {"unfiling"})
  BY <1>3, PassesAlone, LaneIsBusy DEF LivesOn, Life!Next, Life!TakeUp
<1>4. CASE Passes(i, {"reading"}, {"waiting", "ready", "review", "stopped"})
  BY <1>4, PassesAlone DEF LivesOn, Life!Next, Life!EndReading
<1>5. CASE Passes(i, {"filing", "unfiling"}, {"ready", "done", "review", "left"})
  BY <1>5, PassesAlone DEF LivesOn, Life!Next, Life!EndFiling
<1>6. CASE \/ Passes(i, {"waiting"}, {"review", "stopped"})
           \/ Passes(i, {"ready"}, {"review", "done", "stopped"})
           \/ Passes(i, {"review"}, {"waiting", "ready", "done", "stopped"})
           \/ Passes(i, {"left"}, {"ready", "done", "stopped"})
           \/ Passes(i, {"stopped"}, {"waiting"})
  BY <1>6, PassesAlone DEF LivesOn, Life!Next, Life!Decide
<1> QED BY <1>1, <1>2, <1>3, <1>4, <1>5, <1>6

\* What the lifecycle needs to know of the store, and what a statement gives
\* back: a step of the lifecycle, and that much again.
LInv == IInv /\ NothingLeftWhenReady

Lives == LivesOn /\ NothingLeftWhenReady'

\* A statement that rewrites i alone takes it where the lifecycle lets it go,
\* and does not leave it ready with the code of a failed deletion.
Moves(i) ==
  /\ OthersStay(i)
  /\ items'[i].status = "ready" => items'[i].error # "SOURCE_DELETE_FAILED"
  /\ LET before == items[i].status
         after == items'[i].status
     IN  \/ before = after /\ after \notin {"applying", "needs_review"}
         \/ before \in Processing /\ after \in Processing \cup {"queued", "ready", "failed", "canceled"}
         \/ before = "absent" /\ after = "queued"
         \/ before = "queued" /\ after \in {"failed", "canceled"}
         \/ before = "queued" /\ after \in Processing /\ NoOtherActive(i)
         \/ /\ before \in Processing \cup {"queued", "ready"} /\ after = "needs_review"
            /\ items'[i].error # "SOURCE_DELETE_FAILED"
         \/ before = "ready" /\ after \in {"completed", "canceled"}
         \/ before = "needs_review" /\ after \in {"ready", "completed", "canceled"}
         \/ /\ before = "needs_review" /\ after = "queued"
            /\ items[i].error # "SOURCE_DELETE_FAILED"
         \/ before \in {"failed", "canceled"} /\ after = "queued"
         \/ /\ before = "ready" /\ after = "applying"
            /\ items'[i].prev = "ready" /\ NoOtherActive(i)
         \/ /\ before = "completed" /\ after = "applying"
            /\ items'[i].prev = "completed" /\ NoOtherActive(i)
         \/ /\ before = "needs_review" /\ items[i].error = "SOURCE_DELETE_FAILED"
            /\ after = "applying" /\ items'[i].prev = "ready" /\ NoOtherActive(i)
         \/ before = "applying" /\ after \in {"ready", "completed", "needs_review"}

\* Such a statement is a step of the lifecycle.
LEMMA MovesLive ==
  ASSUME LInv, IInv', NEW i \in Item, Moves(i)
  PROVE  Lives
<1>1. items[i] \in Row /\ items'[i] \in Row
  BY DEF LInv, IInv, TypeOK
<1>2. OthersStay(i)
  BY DEF Moves
<1>3. NothingLeftWhenReady'
  BY DEF LInv, NothingLeftWhenReady, Moves, OthersStay
<1> DEFINE before == items[i].status
           after == items'[i].status
           was == PhaseOf(items[i])
           is == PhaseOf(items'[i])
<1>4. /\ before \in Processing => was = "reading"
      /\ before = "applying" => was \in {"filing", "unfiling"}
      /\ before = "needs_review" => was \in {"left", "review"}
      /\ before = "needs_review" => (was = "left" <=> items[i].error = "SOURCE_DELETE_FAILED")
      /\ before \in {"failed", "canceled"} => was = "stopped"
      /\ before = "completed" => was = "done"
      /\ before = "queued" => was = "waiting"
      /\ before = "absent" => was = "none"
      /\ before = "ready" => was = "ready"
  BY <1>1, PhaseIs
<1>5. /\ after \in Processing => is = "reading"
      /\ after = "applying" => is = IF items'[i].prev = "completed" THEN "unfiling" ELSE "filing"
      /\ after = "needs_review" => is \in {"left", "review"}
      /\ after = "needs_review" => (is = "left" <=> items'[i].error = "SOURCE_DELETE_FAILED")
      /\ after \in {"failed", "canceled"} => is = "stopped"
      /\ after = "completed" => is = "done"
      /\ after = "queued" => is = "waiting"
      /\ after = "ready" => is = "ready"
  BY <1>1, PhaseIs
<1>6. CASE before = after /\ after \notin {"applying", "needs_review"}
  <2>1. was = is
    BY <1>1, <1>6, PhaseIs DEF Row, Status, Active, NoRow, Processing
  <2> QED BY <1>2, <1>3, <2>1, OnePasses DEF LInv, Lives
<1>7. CASE before \in Processing
  <2>1. after \in Processing \cup {"queued", "ready", "failed", "canceled", "needs_review"}
        /\ (after = "needs_review" => items'[i].error # "SOURCE_DELETE_FAILED")
    BY <1>7 DEF Moves, Processing
  <2>2. was = is \/ Passes(i, {"reading"}, {"waiting", "ready", "review", "stopped"})
    BY <1>4, <1>5, <1>7, <2>1 DEF Passes
  <2> QED BY <1>2, <1>3, <2>2, OnePasses DEF LInv, Lives
<1>8. CASE before = "applying"
  <2>1. after \in {"ready", "completed", "needs_review"}
    BY <1>8 DEF Moves, Processing
  <2>2. Passes(i, {"filing", "unfiling"}, {"ready", "done", "review", "left"})
    BY <1>4, <1>5, <1>8, <2>1 DEF Passes
  <2> QED BY <1>2, <1>3, <2>2, OnePasses DEF LInv, Lives
<1>9. CASE before # after /\ NoOtherActive(i) /\ before \notin Active /\ after \in Active
  <2>1. \/ before = "queued" /\ after \in Processing
        \/ before = "ready" /\ after = "applying" /\ items'[i].prev = "ready"
        \/ before = "completed" /\ after = "applying" /\ items'[i].prev = "completed"
        \/ /\ before = "needs_review" /\ items[i].error = "SOURCE_DELETE_FAILED"
           /\ after = "applying" /\ items'[i].prev = "ready"
    BY <1>9 DEF Moves, Active, Processing
  <2>2. \/ Passes(i, {"waiting"}, {"reading"})
        \/ Passes(i, {"ready", "left"}, {"filing"})
        \/ Passes(i, {"done"}, {"unfiling"})
    BY <1>4, <1>5, <2>1 DEF Passes
  <2> QED BY <1>2, <1>3, <1>9, <2>2, OnePasses DEF LInv, Lives
<1>10. CASE before # after /\ before \notin Active /\ after \notin Active
  <2>1. \/ before = "absent" /\ after = "queued"
        \/ before = "queued" /\ after \in {"failed", "canceled"}
        \/ /\ before \in {"queued", "ready"} /\ after = "needs_review"
           /\ items'[i].error # "SOURCE_DELETE_FAILED"
        \/ before = "ready" /\ after \in {"completed", "canceled"}
        \/ before = "needs_review" /\ after \in {"ready", "completed", "canceled"}
        \/ before = "needs_review" /\ after = "queued" /\ items[i].error # "SOURCE_DELETE_FAILED"
        \/ before \in {"failed", "canceled"} /\ after = "queued"
    BY <1>10 DEF Moves, Active, Processing
  <2>2. \/ Passes(i, {"none"}, {"waiting"})
        \/ Passes(i, {"waiting"}, {"review", "stopped"})
        \/ Passes(i, {"ready"}, {"review", "done", "stopped"})
        \/ Passes(i, {"review"}, {"waiting", "ready", "done", "stopped"})
        \/ Passes(i, {"left"}, {"ready", "done", "stopped"})
        \/ Passes(i, {"stopped"}, {"waiting"})
    BY <1>4, <1>5, <2>1 DEF Passes
  <2> QED BY <1>2, <1>3, <2>2, OnePasses DEF LInv, Lives
<1> QED
  BY <1>6, <1>7, <1>8, <1>9, <1>10 DEF Moves, Active, Processing

\* A statement that leaves every status, the status before and, but for a
\* document being filed, the code alone (a lease renewed, a receipt written or
\* moved, a rollback noted, a session coming or going, time passing).
StandsStill(i) ==
  /\ items'[i].status = items[i].status
  /\ items'[i].prev = items[i].prev
  /\ items'[i].error = items[i].error \/ items[i].status = "applying"

\* It moves no document.
LEMMA StillLives ==
  ASSUME LInv, IInv', \A i \in Item : StandsStill(i)
  PROVE  Lives
<1>1. \A i \in Item : items[i] \in Row /\ items'[i] \in Row
  BY DEF LInv, IInv, TypeOK
<1>2. ASSUME NEW i \in Item PROVE PhaseOf(items'[i]) = PhaseOf(items[i])
  BY <1>1, <1>2, PhaseIs DEF StandsStill, Row, Status, Active, Processing, NoRow
<1>3. NothingLeftWhenReady'
  BY DEF LInv, NothingLeftWhenReady, StandsStill
<1> QED
  BY <1>2, <1>3 DEF Lives, LivesOn, Shown

\* What a statement that rewrites one row leaves behind.
LEMMA Rewritten ==
  ASSUME LInv, NEW i \in Item, NEW row, SetRow(i, row)
  PROVE  items[i] \in Row /\ items'[i] = row /\ OthersStay(i)
BY DEF LInv, IInv, TypeOK, SetRow, OthersStay

\* claim_next takes a waiting document into the free lane.
LEMMA claim_nextLives ==
  ASSUME LInv, IInv', NEW s \in Session, NEW i \in Item, claim_next(s, i)
  PROVE  Lives
<1>0. /\ items[i] \in Row /\ OthersStay(i)
      /\ items'[i] = [Owned(items[i], s) EXCEPT !.status = "extracting", !.error = "none"]
  BY Rewritten DEF claim_next, ClaimRow
<1>1. OthersStay(i) /\ items'[i].status = "extracting"
  BY <1>0 DEF Owned, Row
<1>2. Moves(i)
  BY <1>1 DEF Moves, claim_next, Processing
<1> QED BY <1>2, MovesLive

\* A transition never passes along the code of a failed deletion.
LEMMA transitionLives ==
  ASSUME LInv, IInv', NEW s \in Session, NEW i \in Item, NEW expected, NEW next, NEW e,
         e # "SOURCE_DELETE_FAILED", transition(s, i, expected, next, e)
  PROVE  Lives
<1> DEFINE held == IF next \in Active THEN Owned(items[i], s) ELSE Disowned(items[i])
<1>1. items[i] \in Row /\ OthersStay(i) /\ items'[i] = [held EXCEPT !.status = next, !.error = e]
  BY Rewritten DEF transition
<1>2. items'[i].status = next /\ items'[i].error = e
  BY <1>1 DEF Owned, Disowned, Row
<1>3. items[i].status = expected /\ <<expected, next>> \in CanTransition
  BY DEF transition
<1>4. Moves(i)
  BY <1>1, <1>2, <1>3 DEF Moves, CanTransition, Processing
<1> QED BY <1>4, MovesLive

\* A failure counted ends a reading, or a document's wait for one.
LEMMA FailureLives ==
  ASSUME LInv, IInv', NEW s \in Session, NEW i \in Item,
         record_processing_failure(s, i) \/ record_recovered_failure(s, i)
  PROVE  Lives
<1>0. /\ items[i] \in Row /\ OthersStay(i)
      /\ \E row \in {items[i], Disowned(items[i])}, status \in {"failed", "queued"}, n \in {items[i].failures + 1} :
           items'[i] = [row EXCEPT !.status = status, !.failures = n, !.error = "OTHER"]
  BY Rewritten, Zenon DEF record_processing_failure, record_recovered_failure
<1>1. OthersStay(i) /\ items'[i].status \in {"failed", "queued"}
  BY <1>0 DEF Disowned, Row
<1>2. items[i].status \in Processing \cup {"queued"}
  BY DEF record_processing_failure, record_recovered_failure
<1>3. Moves(i)
  BY <1>1, <1>2 DEF Moves
<1> QED BY <1>3, MovesLive

\* enqueue lets a document arrive.
LEMMA enqueueLives ==
  ASSUME LInv, IInv', NEW s \in Session, NEW i \in Item, enqueue(s, i)
  PROVE  Lives
<1>1. OthersStay(i) /\ items'[i].status = "queued"
  BY Rewritten DEF enqueue, EmptyRow
<1>2. Moves(i)
  BY <1>1 DEF Moves, enqueue
<1> QED BY <1>2, MovesLive

\* A status reset takes a document from where the store offers it.
LEMMA cas_statusLives ==
  ASSUME LInv, IInv', NEW s \in Session, NEW i \in Item, NEW expected, NEW next, NEW reset,
         cas_status(s, i, expected, next, reset),
         \/ expected = "failed" /\ next = "queued"
         \/ expected \in {"ready", "needs_review"} /\ next = "completed"
         \/ expected = "needs_review" /\ next = "queued" /\ items[i].error = "DUPLICATE"
  PROVE  Lives
<1>0. PICK n : /\ items[i] \in Row /\ OthersStay(i)
               /\ items'[i] = [Settled(items[i], next) EXCEPT !.failures = n]
  <2>1. SetRow(i, [Settled(items[i], next) EXCEPT !.failures = IF reset THEN 0 ELSE @])
    BY DEF cas_status
  <2>2. \E n : SetRow(i, [Settled(items[i], next) EXCEPT !.failures = n])
    BY <2>1, Zenon
  <2> QED BY <2>2, Rewritten
<1>1. OthersStay(i) /\ items'[i].status = next
  <2>1. Settled(items[i], next).status = next /\ "status" \in DOMAIN Settled(items[i], next)
    BY <1>0 DEF Settled, Disowned, Row
  <2> QED BY <1>0, <2>1
<1>2. Moves(i)
  BY <1>1 DEF Moves, cas_status
<1> QED BY <1>2, MovesLive

\* retry_unverified and retry_canceled send a document back to the queue.
LEMMA ReadAgainLives ==
  ASSUME LInv, IInv', NEW s \in Session, NEW i \in Item,
         retry_unverified(s, i) \/ retry_canceled(s, i)
  PROVE  Lives
<1>0. /\ items[i] \in Row /\ OthersStay(i)
      /\ items'[i] = [Requeued(items[i]) EXCEPT !.failures = 0, !.error = "none"]
  BY Rewritten DEF retry_unverified, retry_canceled, ReadAgain
<1>1. OthersStay(i) /\ items'[i].status = "queued"
  BY <1>0 DEF Requeued, Disowned, Row
<1>2. Moves(i)
  BY <1>1 DEF Moves, retry_unverified, retry_canceled
<1> QED BY <1>2, MovesLive

\* mark_needs_review leaves the code alone: it is none of a failed deletion.
LEMMA mark_needs_reviewLives ==
  ASSUME LInv, IInv', NEW s \in Session, NEW i \in Item, mark_needs_review(s, i)
  PROVE  Lives
<1>0. items[i] \in Row /\ OthersStay(i) /\ items'[i] = [items[i] EXCEPT !.status = "needs_review"]
  BY Rewritten DEF mark_needs_review
<1>1. OthersStay(i) /\ items'[i].status = "needs_review" /\ items'[i].error = items[i].error
  BY <1>0 DEF Row
<1>2. items[i].status = "ready" /\ items[i].error # "SOURCE_DELETE_FAILED"
  BY DEF mark_needs_review, LInv, NothingLeftWhenReady
<1>3. Moves(i)
  BY <1>1, <1>2 DEF Moves
<1> QED BY <1>3, MovesLive

\* approve_user_edit decides a document that is ready or under review.
LEMMA approve_user_editLives ==
  ASSUME LInv, IInv', NEW s \in Session, NEW i \in Item, NEW expected,
         approve_user_edit(s, i, expected)
  PROVE  Lives
<1>0. /\ items[i] \in Row /\ OthersStay(i)
      /\ items'[i] = [items[i] EXCEPT !.status = "ready", !.error = "none"]
  BY Rewritten DEF approve_user_edit
<1>1. OthersStay(i) /\ items'[i].status = "ready" /\ items'[i].error = "none"
  BY <1>0 DEF Row
<1>2. Moves(i)
  BY <1>1 DEF Moves, approve_user_edit
<1> QED BY <1>2, MovesLive

\* begin_applying takes a document into the free lane from the status it
\* compares.
LEMMA begin_applyingLives ==
  ASSUME LInv, IInv', NEW s \in Session, NEW i \in Item, NEW expected,
         begin_applying(s, i, expected)
  PROVE  Lives
<1>0. /\ items[i] \in Row /\ OthersStay(i)
      /\ items'[i] = [Owned(items[i], s) EXCEPT
                        !.status = "applying", !.prev = expected, !.active = NULL,
                        !.recon = NULL, !.begun = TRUE, !.error = "none"]
  BY Rewritten DEF begin_applying
<1>1. OthersStay(i) /\ items'[i].status = "applying" /\ items'[i].prev = expected
  BY <1>0 DEF Owned, Row
<1>2. Moves(i)
  BY <1>1 DEF Moves, begin_applying
<1> QED BY <1>2, MovesLive

\* claim_deferred_reconciliation takes back a document that was left.
LEMMA claim_deferred_reconciliationLives ==
  ASSUME LInv, IInv', NEW s \in Session, NEW i \in Item, claim_deferred_reconciliation(s, i)
  PROVE  Lives
<1>0. /\ items[i] \in Row /\ OthersStay(i)
      /\ items'[i] = [Owned(items[i], s) EXCEPT
                        !.status = "applying", !.prev = "ready", !.active = items[i].recon]
  BY Rewritten DEF claim_deferred_reconciliation
<1>1. OthersStay(i) /\ items'[i].status = "applying" /\ items'[i].prev = "ready"
  BY <1>0 DEF Owned, Row
<1>2. Moves(i)
  BY <1>1 DEF Moves, claim_deferred_reconciliation
<1> QED BY <1>2, MovesLive

\* An operation that is settled leaves its document ready or done.
LEMMA SettledLives ==
  ASSUME LInv, IInv', NEW i \in Item, NEW status \in {"ready", "completed"},
         items[i].status = "applying", SetRow(i, Settled(items[i], status))
  PROVE  Lives
<1>0. items[i] \in Row /\ OthersStay(i) /\ items'[i] = Settled(items[i], status)
  BY Rewritten
<1>1. OthersStay(i) /\ items'[i].status = status /\ items'[i].error = "none"
  BY <1>0 DEF Settled, Disowned, Row
<1>2. Moves(i)
  BY <1>1 DEF Moves
<1> QED BY <1>2, MovesLive

\* One that is handed to a person leaves it for review, or left.
LEMMA ParkedLives ==
  ASSUME LInv, IInv', NEW i \in Item, NEW r, NEW e,
         items[i].status = "applying", SetRow(i, Parked(items[i], r, e))
  PROVE  Lives
<1>0. items[i] \in Row /\ OthersStay(i) /\ items'[i] = Parked(items[i], r, e)
  BY Rewritten
<1>1. OthersStay(i) /\ items'[i].status = "needs_review"
  BY <1>0 DEF Parked, Disowned, Row
<1>2. Moves(i)
  BY <1>1 DEF Moves
<1> QED BY <1>2, MovesLive

\* defer_published_reconciliation and park_applying_for_review, with whatever
\* code.
LEMMA ParkingLives ==
  ASSUME LInv, IInv', NEW s \in Session, NEW i \in Item, NEW r, NEW e,
         defer_published_reconciliation(s, i, r) \/ park_applying_for_review(s, i, r, e)
  PROVE  Lives
BY ParkedLives DEF defer_published_reconciliation, park_applying_for_review, Holds, OwnsApplying

\* The statements that settle an operation: complete_apply, complete_undo and
\* the resolve statements.
LEMMA SettlingLives ==
  ASSUME LInv, IInv', NEW s \in Session, NEW i \in Item, NEW r, NEW dir, NEW expected,
         \/ resolve_empty_applying(s, i)
         \/ finish_applying(s, i, r, dir)
         \/ resolve_reconciled_rollback(s, i, r, expected)
         \/ resolve_verified_operation(s, i, r, expected)
  PROVE  Lives
<1>1. CASE resolve_empty_applying(s, i)
  BY <1>1, SettledLives DEF resolve_empty_applying, OwnsApplying
<1>2. CASE finish_applying(s, i, r, dir)
  BY <1>2, SettledLives DEF finish_applying, Holds, OwnsApplying, EndOf
<1>3. CASE resolve_reconciled_rollback(s, i, r, expected)
  BY <1>3, SettledLives DEF resolve_reconciled_rollback, Holds, OwnsApplying, StartOf
<1>4. CASE resolve_verified_operation(s, i, r, expected)
  BY <1>4, SettledLives DEF resolve_verified_operation, Holds, OwnsApplying, EndOf
<1> QED BY <1>1, <1>2, <1>3, <1>4

\* A statement that rewrites one row and leaves the document where it is.
LEMMA RowStandsStill ==
  ASSUME LInv, IInv', NEW i \in Item, OthersStay(i), StandsStill(i)
  PROVE  Lives
<1>1. \A j \in Item : StandsStill(j)
  BY DEF OthersStay, StandsStill
<1> QED BY <1>1, StillLives

\* Leases renewed, receipts written or moved, a rollback noted and a dead
\* session's operation taken over leave every document where it is.
LEMMA RenewingLives ==
  ASSUME LInv, IInv', NEW s \in Session, NEW i \in Item,
         NEW r, NEW dir, NEW expected, NEW next, NEW e,
         \/ renew_lease(s, i) \/ claim_applying_reconciliation(s, i)
         \/ renew_operation_lease(s, i, r, expected)
         \/ create_receipt(s, i, r, dir)
         \/ update_receipt(s, i, r, expected, next)
         \/ record_applying_rollback(s, i, r, e)
  PROVE  Lives
<1>1. CASE \/ renew_lease(s, i) \/ claim_applying_reconciliation(s, i)
           \/ renew_operation_lease(s, i, r, expected)
  <2>1. SetRow(i, Owned(items[i], s))
    BY <1>1 DEF renew_lease, claim_applying_reconciliation, renew_operation_lease
  <2>2. items[i] \in Row /\ items'[i] = Owned(items[i], s) /\ OthersStay(i)
    BY <2>1, Rewritten
  <2>3. StandsStill(i)
    BY <2>2 DEF Owned, StandsStill, Row
  <2> QED BY <2>2, <2>3, RowStandsStill
<1>2. CASE create_receipt(s, i, r, dir)
  <2>1. SetRow(i, [items[i] EXCEPT !.active = r, !.lease = LEASE_SECONDS])
    BY <1>2 DEF create_receipt, BindReceipt
  <2>2. /\ items[i] \in Row /\ OthersStay(i)
        /\ items'[i] = [items[i] EXCEPT !.active = r, !.lease = LEASE_SECONDS]
    BY <2>1, Rewritten
  <2>3. StandsStill(i)
    BY <2>2 DEF StandsStill, Row
  <2> QED BY <2>2, <2>3, RowStandsStill
<1>3. CASE update_receipt(s, i, r, expected, next)
  <2>1. SetRow(i, [items[i] EXCEPT !.lease = LEASE_SECONDS])
    BY <1>3 DEF update_receipt
  <2>2. /\ items[i] \in Row /\ OthersStay(i)
        /\ items'[i] = [items[i] EXCEPT !.lease = LEASE_SECONDS]
    BY <2>1, Rewritten
  <2>3. StandsStill(i)
    BY <2>2 DEF StandsStill, Row
  <2> QED BY <2>2, <2>3, RowStandsStill
<1>4. CASE record_applying_rollback(s, i, r, e)
  <2>1. /\ SetRow(i, [Owned(items[i], s) EXCEPT !.recon = r, !.error = e])
        /\ items[i].status = "applying"
    BY <1>4 DEF record_applying_rollback, OwnsApplying
  <2>2. /\ items[i] \in Row /\ OthersStay(i)
        /\ items'[i] = [Owned(items[i], s) EXCEPT !.recon = r, !.error = e]
    BY <2>1, Rewritten
  <2>3. StandsStill(i)
    BY <2>1, <2>2 DEF StandsStill, Owned, Row
  <2> QED BY <2>2, <2>3, RowStandsStill
<1> QED BY <1>1, <1>2, <1>3, <1>4

\* Sessions come and go, and time passes, without a document moving.
LEMMA SessionsLive ==
  ASSUME LInv, IInv',
         \/ Tick
         \/ \E s \in Session : \/ open(s) \/ drop(s) \/ Crash(s)
                             \/ claim_next_none(s) \/ renew_lease_refused(s)
  PROVE  Lives
<1>1. \A i \in Item : items[i] \in Row
  BY DEF LInv, IInv, TypeOK
<1>2. ASSUME NEW i \in Item PROVE StandsStill(i)
  BY <1>1 DEF Tick, open, drop, Crash, claim_next_none, renew_lease_refused, StandsStill, Row
<1> QED BY <1>2, StillLives

\* recover_interrupted takes the one document that is being read, if its
\* reader is dead, back to the queue.
LEMMA recover_interruptedLives ==
  ASSUME LInv, IInv', NEW s \in Session, recover_interrupted(s)
  PROVE  Lives
<1>1. PICK i \in Item : items[i].status \in Processing /\ OwnerIsDead(i)
  BY DEF recover_interrupted
<1>2. \A j \in Item \ {i} : items[j].status \notin Processing
  BY <1>1 DEF LInv, IInv, OneDocumentAtATime, Active
<1>3. OthersStay(i) /\ items'[i] = Requeued(items[i])
  BY <1>1, <1>2 DEF recover_interrupted, OthersStay
<1>4. items[i] \in Row
  BY DEF LInv, IInv, TypeOK
<1>5. items'[i].status = "queued"
  BY <1>3, <1>4 DEF Requeued, Disowned, Row
<1>6. Moves(i)
  BY <1>1, <1>3, <1>5 DEF Moves
<1> QED BY <1>6, MovesLive

\* Rows that go were at rest: clear_terminal, discard_queued and remove_item
\* forget documents, and a forgotten one never comes back.
LEMMA DeleteRowsLives ==
  ASSUME LInv, IInv', NEW Gone \in SUBSET Item, DeleteRows(Gone),
         \A i \in Gone : items[i].status \notin Active \cup NoRow
  PROVE  Lives
<1>1. \A i \in Item : items[i] \in Row
  BY DEF LInv, IInv, TypeOK
<1>2. \A i \in Gone : PhaseOf(items'[i]) = "gone"
  <2>1. \A i \in Gone : items'[i].status = "deleted" /\ items'[i] \in Row
    BY DEF DeleteRows, EmptyRow, IInv, TypeOK
  <2> QED BY <2>1, PhaseIs
<1>3. \A i \in Item \ Gone : items'[i] = items[i]
  BY DEF DeleteRows
<1>4. Shown' = [i \in Item |-> IF i \in Gone THEN "gone" ELSE Shown[i]]
  BY <1>2, <1>3 DEF Shown
<1>5. ASSUME NEW i \in Gone PROVE Shown[i] \in Life!AtRest \ {"none", "gone"}
  BY <1>1, <1>5, PhaseIs DEF Shown, Row, Status, Active, Processing, NoRow, Life!AtRest
<1>6. Life!Forget(Gone)
  BY <1>4, <1>5 DEF Life!Forget
<1>7. NothingLeftWhenReady'
  <2>1. \A i \in Gone : items'[i].status = "deleted"
    BY DEF DeleteRows, EmptyRow
  <2> QED BY <1>3, <2>1 DEF LInv, NothingLeftWhenReady
<1> QED BY <1>6, <1>7 DEF Lives, LivesOn, Life!Next

\* The statements of the processing loop are steps of the lifecycle.
LEMMA ProcessLives ==
  ASSUME LInv, IInv', NEW s \in Session, NEW i \in Item, Process(s, i)
  PROVE  Lives
<1>1. CASE claim_next(s, i)
  BY <1>1, claim_nextLives
<1>2. CASE renew_lease(s, i)
  BY <1>2, RenewingLives
<1>3. ASSUME NEW expected \in Status, NEW next \in Status,
             NEW e \in ReviewErrors(expected, next), transition(s, i, expected, next, e)
      PROVE  Lives
  <2>1. e # "SOURCE_DELETE_FAILED"
    BY <1>3 DEF ReviewErrors
  <2> QED
    BY <1>3, <2>1, transitionLives
<1>4. CASE record_processing_failure(s, i) \/ record_recovered_failure(s, i)
  BY <1>4, FailureLives
<1> QED
  BY <1>1, <1>2, <1>3, <1>4 DEF Process

\* So are the statements behind a person's decisions.
LEMMA DecideLives ==
  ASSUME LInv, IInv', NEW s \in Session, NEW i \in Item, Decide(s, i)
  PROVE  Lives
<1>1. CASE enqueue(s, i)
  BY <1>1, enqueueLives
<1>2. CASE manual_retry(s, i)
  BY <1>2, cas_statusLives DEF manual_retry
<1>3. CASE \E expected \in {"ready", "needs_review"} : complete_keep_original(s, i, expected)
  BY <1>3, cas_statusLives DEF complete_keep_original
<1>4. CASE retry_duplicate(s, i)
  BY <1>4, cas_statusLives DEF retry_duplicate
<1>5. CASE retry_unverified(s, i) \/ retry_canceled(s, i)
  BY <1>5, ReadAgainLives
<1>6. CASE mark_needs_review(s, i)
  BY <1>6, mark_needs_reviewLives
<1>7. CASE \E expected \in {"ready", "needs_review"} : approve_user_edit(s, i, expected)
  BY <1>7, approve_user_editLives
<1>8. CASE remove_item(s, i)
  <2>1. DeleteRows({i}) /\ items[i].status \notin Active \cup NoRow
    BY <1>8 DEF remove_item
  <2> QED
    BY <2>1, DeleteRowsLives
<1> QED
  BY <1>1, <1>2, <1>3, <1>4, <1>5, <1>6, <1>7, <1>8 DEF Decide

\* Those that begin, find or take up an operation.
LEMMA ApplyLives ==
  ASSUME LInv, IInv', NEW s \in Session, NEW i \in Item, Apply(s, i)
  PROVE  Lives
BY begin_applyingLives, SettlingLives, RenewingLives, claim_deferred_reconciliationLives
   DEF Apply

\* And those that name a receipt.
LEMMA JournalLives ==
  ASSUME LInv, IInv', NEW s \in Session, NEW i \in Item, NEW r \in ReceiptId, Journal(s, i, r)
  PROVE  Lives
<1>1. CASE \/ \E dir \in Direction : create_receipt(s, i, r, dir)
           \/ \E stage \in Stage : renew_operation_lease(s, i, r, stage)
           \/ \E expected, next \in Stage : update_receipt(s, i, r, expected, next)
           \/ \E e \in FileErrors : record_applying_rollback(s, i, r, e)
  BY <1>1, RenewingLives
<1>2. CASE \/ \E dir \in Direction : finish_applying(s, i, r, dir)
           \/ \E expected \in Stage : resolve_reconciled_rollback(s, i, r, expected)
           \/ \E expected \in Stage : resolve_verified_operation(s, i, r, expected)
  BY <1>2, SettlingLives
<1>3. CASE defer_published_reconciliation(s, i, r)
  BY <1>3, ParkingLives
<1>4. CASE \E e \in FileErrors : park_applying_for_review(s, i, r, e)
  BY <1>4, ParkingLives
<1> QED
  BY <1>1, <1>2, <1>3, <1>4 DEF Journal

\* Whatever a session does, or time passing, is a step of the lifecycle or
\* none that shows.
LEMMA NextLives ==
  ASSUME LInv, Next
  PROVE  Lives
<1>1. IInv'
  BY NextIInv DEF LInv
<1>2. CASE Tick
  BY <1>1, <1>2, SessionsLive
<1>3. ASSUME NEW s \in Session, Step(s) PROVE Lives
  <2>1. CASE open(s) \/ drop(s) \/ Crash(s) \/ claim_next_none(s) \/ renew_lease_refused(s)
    BY <1>1, <2>1, SessionsLive
  <2>2. CASE recover_interrupted(s)
    BY <1>1, <2>2, recover_interruptedLives
  <2>3. ASSUME NEW S \in {{"failed", "canceled", "completed"}, {"queued"}}, DeleteRows(WithStatus(S))
        PROVE  Lives
    <3>1. WithStatus(S) \in SUBSET Item
      BY DEF WithStatus
    <3>2. \A i \in WithStatus(S) : items[i].status \notin Active \cup NoRow
      BY <2>3 DEF WithStatus, Active, Processing, NoRow
    <3> QED
      BY <1>1, <2>3, <3>1, <3>2, DeleteRowsLives
  <2>4. CASE clear_terminal(s) \/ discard_queued(s)
    BY <2>3, <2>4 DEF clear_terminal, discard_queued
  <2>5. CASE \E i \in Item : Process(s, i) \/ Decide(s, i) \/ Apply(s, i)
    BY <1>1, <2>5, ProcessLives, DecideLives, ApplyLives
  <2>6. CASE \E i \in Item, r \in ReceiptId : Journal(s, i, r)
    BY <1>1, <2>6, JournalLives
  <2> QED
    BY <1>3, <2>1, <2>2, <2>4, <2>5, <2>6 DEF Step
<1> QED
  BY <1>2, <1>3 DEF Next

\* A step that leaves every row alone shows nothing.
LEMMA NothingShown ==
  ASSUME LInv, UNCHANGED items
  PROVE  Lives
BY DEF Lives, LivesOn, Shown, LInv, NothingLeftWhenReady

\* Documents that are at rest may be the beginning of a lifecycle.
LEMMA AtRestBegins ==
  ASSUME IInv, \A i \in Item : items[i].status \notin Active
  PROVE  Life!Init
<1>1. \A i \in Item : Shown[i] \in Life!AtRest
  BY PhaseIs DEF IInv, TypeOK, Shown
<1> QED
  BY <1>1 DEF Life!Init, Shown

\* The store implements the lifecycle: however many documents there are and
\* whichever sessions call it, crash or come back, what its statements do to
\* a document is one step of the document's life, and begins only while no
\* other document is worked on.  Besides the invariant it takes that a ready
\* document carries no code of a deletion that failed.
THEOREM StoreIsOneLane == Spec => OneLane
<1>1. Init => LInv /\ Life!Init
  <2> SUFFICES ASSUME Init PROVE LInv /\ Life!Init
    OBVIOUS
  <2>1. \A i \in Item : items[i].status = "absent"
    BY DEF Init, EmptyRow
  <2>2. IInv
    BY InitIInv
  <2>3. Life!Init
    BY <2>1, <2>2, AtRestBegins DEF Active, Processing
  <2> QED
    BY <2>1, <2>2, <2>3 DEF LInv, NothingLeftWhenReady
<1>2. LInv /\ [Next]_storeVars => LInv' /\ [Life!Next]_Shown
  <2> SUFFICES ASSUME LInv, [Next]_storeVars PROVE LInv' /\ [Life!Next]_Shown
    OBVIOUS
  <2>1. IInv'
    BY NextIInv DEF LInv
  <2>2. Lives
    BY NextLives, NothingShown DEF storeVars
  <2> QED
    BY <2>1, <2>2 DEF Lives, LivesOn, LInv
<1> QED
  BY <1>1, <1>2, PTL DEF Spec, OneLane, Life!Spec
-----------------------------------------------------------------------------
(* Work is lost only in silence *)

\* A document s goes on with is its own and its lease is whole again.
Renews(s, i) ==
  items'[i].owner # NoSession => items'[i].owner = s /\ items'[i].lease = LEASE_SECONDS

\* What SetRow writes, read back.
LEMMA RowWritten ==
  ASSUME IInv, NEW i \in Item, NEW row, SetRow(i, row)
  PROVE  items[i] \in Row /\ items'[i] = row
  BY DEF IInv, TypeOK, SetRow

\* Every processing statement that leaves a document with an owner writes its
\* lease: the claim, the renewal and the move to analyzing.
LEMMA ProcessRenews ==
  ASSUME IInv, NEW s \in Session, NEW i \in Item, Process(s, i)
  PROVE  Renews(s, i)
<1>1. CASE claim_next(s, i)
  <2>1. /\ items[i] \in Row
        /\ items'[i] = [Owned(items[i], s) EXCEPT !.status = "extracting", !.error = "none"]
    BY <1>1, RowWritten DEF claim_next, ClaimRow
  <2> QED
    BY <2>1 DEF Renews, Owned, Row
<1>2. CASE renew_lease(s, i)
  <2>1. items[i] \in Row /\ items'[i] = Owned(items[i], s)
    BY <1>2, RowWritten DEF renew_lease
  <2> QED
    BY <2>1 DEF Renews, Owned, Row
<1>3. ASSUME NEW expected, NEW next, NEW e, transition(s, i, expected, next, e)
      PROVE  Renews(s, i)
  <2> DEFINE row == IF next \in Active THEN Owned(items[i], s) ELSE Disowned(items[i])
  <2>1. items[i] \in Row /\ items'[i] = [row EXCEPT !.status = next, !.error = e]
    BY <1>3, RowWritten DEF transition
  <2> QED
    BY <2>1 DEF Renews, Owned, Disowned, Row
<1>4. CASE record_processing_failure(s, i)
  <2> DEFINE n == items[i].failures + 1
             st == IF n >= 2 THEN "failed" ELSE "queued"
  <2>1. /\ items[i] \in Row
        /\ items'[i] = [Disowned(items[i]) EXCEPT !.status = st, !.failures = n, !.error = "OTHER"]
    BY <1>4, RowWritten DEF record_processing_failure
  <2> HIDE DEF n, st
  <2> QED
    BY <2>1 DEF Renews, Disowned, Row
<1>5. CASE record_recovered_failure(s, i)
  <2> DEFINE n == items[i].failures + 1
             st == IF n >= 2 THEN "failed" ELSE "queued"
  <2>1. /\ items[i] \in Row /\ items[i].owner = NoSession
        /\ items'[i] = [items[i] EXCEPT !.status = st, !.failures = n, !.error = "OTHER"]
    BY <1>5, RowWritten DEF record_recovered_failure
  <2> HIDE DEF n, st
  <2> QED
    BY <2>1 DEF Renews, Row
<1> QED
  BY <1>1, <1>2, <1>3, <1>4, <1>5 DEF Process

\* A person's decisions leave their document unowned.
LEMMA DecideRenews ==
  ASSUME IInv, NEW s \in Session, NEW i \in Item, Decide(s, i), ~ remove_item(s, i)
  PROVE  Renews(s, i)
<1>1. items[i].status \notin Active
  BY DEF Decide, enqueue, manual_retry, complete_keep_original, retry_duplicate, cas_status,
         retry_unverified, retry_canceled, mark_needs_review, approve_user_edit, Active,
         Processing
<1>2. items[i] \in Row /\ items[i].owner = NoSession
  BY <1>1, RestIsUnowned, ItemIsGood
<1>3. CASE enqueue(s, i)
  <2>1. items'[i] = [EmptyRow EXCEPT !.status = "queued"]
    BY <1>3, RowWritten DEF enqueue
  <2> QED
    BY <2>1 DEF Renews, EmptyRow
<1>4. ASSUME NEW expected, NEW next, NEW reset, cas_status(s, i, expected, next, reset)
      PROVE  Renews(s, i)
  <2>1. PICK n : items'[i] = [Settled(items[i], next) EXCEPT !.failures = n]
    BY <1>4, RowWritten, Zenon DEF cas_status
  <2> QED
    BY <1>2, <2>1 DEF Renews, Settled, Disowned, Row
<1>5. CASE retry_unverified(s, i) \/ retry_canceled(s, i)
  <2>1. items'[i] = [Requeued(items[i]) EXCEPT !.failures = 0, !.error = "none"]
    BY <1>5, RowWritten DEF retry_unverified, retry_canceled, ReadAgain
  <2> QED
    BY <1>2, <2>1 DEF Renews, Requeued, Disowned, Row
<1>6. CASE mark_needs_review(s, i)
  <2>1. items'[i] = [items[i] EXCEPT !.status = "needs_review"]
    BY <1>6, RowWritten DEF mark_needs_review
  <2> QED
    BY <1>2, <2>1 DEF Renews, Row
<1>7. ASSUME NEW expected, approve_user_edit(s, i, expected) PROVE Renews(s, i)
  <2>1. items'[i] = [items[i] EXCEPT !.status = "ready", !.error = "none"]
    BY <1>7, RowWritten DEF approve_user_edit
  <2> QED
    BY <1>2, <2>1 DEF Renews, Row
<1> QED
  BY <1>3, <1>4, <1>5, <1>6, <1>7
     DEF Decide, manual_retry, complete_keep_original, retry_duplicate

\* Beginning or taking up an operation gives it a whole lease.
LEMMA ApplyRenews ==
  ASSUME IInv, NEW s \in Session, NEW i \in Item, Apply(s, i)
  PROVE  Renews(s, i)
<1>1. ASSUME NEW expected, begin_applying(s, i, expected) PROVE Renews(s, i)
  <2>1. /\ items[i] \in Row
        /\ items'[i] = [Owned(items[i], s) EXCEPT
                          !.status = "applying", !.prev = expected, !.active = NULL,
                          !.recon = NULL, !.begun = TRUE, !.error = "none"]
    BY <1>1, RowWritten DEF begin_applying
  <2> QED
    BY <2>1 DEF Renews, Owned, Row
<1>2. CASE resolve_empty_applying(s, i)
  <2>1. items[i] \in Row /\ items'[i] = Settled(items[i], items[i].prev)
    BY <1>2, RowWritten DEF resolve_empty_applying
  <2> QED
    BY <2>1 DEF Renews, Settled, Disowned, Row
<1>3. CASE claim_applying_reconciliation(s, i)
  <2>1. items[i] \in Row /\ items'[i] = Owned(items[i], s)
    BY <1>3, RowWritten DEF claim_applying_reconciliation
  <2> QED
    BY <2>1 DEF Renews, Owned, Row
<1>4. CASE claim_deferred_reconciliation(s, i)
  <2>1. /\ items[i] \in Row
        /\ items'[i] = [Owned(items[i], s) EXCEPT
                          !.status = "applying", !.prev = "ready", !.active = items[i].recon]
    BY <1>4, RowWritten DEF claim_deferred_reconciliation
  <2> QED
    BY <2>1 DEF Renews, Owned, Row
<1> QED
  BY <1>1, <1>2, <1>3, <1>4 DEF Apply

\* Every statement about a receipt gives the operation a whole lease, or ends
\* it.
LEMMA JournalRenews ==
  ASSUME IInv, NEW s \in Session, NEW i \in Item, NEW r \in ReceiptId, Journal(s, i, r)
  PROVE  Renews(s, i)
<1>0. items[i] \in Row /\ items[i].owner = s
  BY ItemIsGood
     DEF Journal, create_receipt, BindReceipt, renew_operation_lease, update_receipt,
         finish_applying, resolve_reconciled_rollback, resolve_verified_operation,
         record_applying_rollback, defer_published_reconciliation,
         park_applying_for_review, Holds, OwnsApplying
<1>1. ASSUME NEW dir, create_receipt(s, i, r, dir) PROVE Renews(s, i)
  <2>1. items'[i] = [items[i] EXCEPT !.active = r, !.lease = LEASE_SECONDS]
    BY <1>1, RowWritten DEF create_receipt, BindReceipt
  <2> QED
    BY <1>0, <2>1 DEF Renews, Row
<1>2. ASSUME NEW stage, renew_operation_lease(s, i, r, stage) PROVE Renews(s, i)
  <2>1. items'[i] = Owned(items[i], s)
    BY <1>2, RowWritten DEF renew_operation_lease
  <2> QED
    BY <1>0, <2>1 DEF Renews, Owned, Row
<1>3. ASSUME NEW expected, NEW next, update_receipt(s, i, r, expected, next) PROVE Renews(s, i)
  <2>1. items'[i] = [items[i] EXCEPT !.lease = LEASE_SECONDS]
    BY <1>3, RowWritten DEF update_receipt
  <2> QED
    BY <1>0, <2>1 DEF Renews, Row
<1>4. ASSUME NEW status, SetRow(i, Settled(items[i], status)) PROVE Renews(s, i)
  <2>1. items'[i] = Settled(items[i], status)
    BY <1>4, RowWritten
  <2> QED
    BY <1>0, <2>1 DEF Renews, Settled, Disowned, Row
<1>5. ASSUME NEW e, record_applying_rollback(s, i, r, e) PROVE Renews(s, i)
  <2>1. items'[i] = [Owned(items[i], s) EXCEPT !.recon = r, !.error = e]
    BY <1>5, RowWritten DEF record_applying_rollback
  <2> QED
    BY <1>0, <2>1 DEF Renews, Owned, Row
<1>6. ASSUME NEW e, SetRow(i, Parked(items[i], r, e)) PROVE Renews(s, i)
  <2>1. items'[i] = Parked(items[i], r, e)
    BY <1>6, RowWritten
  <2> QED
    BY <1>0, <2>1 DEF Renews, Parked, Disowned, Row
<1> QED
  BY <1>1, <1>2, <1>3, <1>4, <1>5, <1>6
     DEF Journal, finish_applying, resolve_reconciled_rollback, resolve_verified_operation,
         defer_published_reconciliation, park_applying_for_review

\* A lease runs from the last statement of its owner on the document, and a
\* heartbeat is no older than the last time its session was heard.
Recorded ==
  /\ worked \in [Item -> 0..LEASE_SECONDS]
  /\ heard \in [Session -> 0..LEASE_SECONDS]
  /\ \A i \in Item : items[i].owner # NoSession => items[i].lease + worked[i] >= LEASE_SECONDS
  /\ \A s \in Session : quiet[s] <= heard[s]

\* What any statement of s may do to a document: leave it as it is, leave it
\* unowned, or renew it for s.
LEMMA StepRenews ==
  ASSUME IInv, NEW s \in Session, Step(s), NEW i \in Item
  PROVE  items'[i] = items[i] \/ items'[i].owner = NoSession \/ Renews(s, i)
<1>1. items \in [Item -> Row]
  BY DEF IInv, TypeOK
<1>2. CASE \/ open(s) \/ Crash(s) \/ claim_next_none(s) \/ renew_lease_refused(s)
  BY <1>2 DEF open, Crash, claim_next_none, renew_lease_refused
<1>3. CASE drop(s)
  BY <1>1, <1>3 DEF drop, Row
<1>4. CASE recover_interrupted(s)
  BY <1>1, <1>4 DEF recover_interrupted, Requeued, Disowned, Row
<1>5. CASE \E Gone \in SUBSET Item : DeleteRows(Gone)
  BY <1>5 DEF DeleteRows, EmptyRow
<1>6. ASSUME NEW j \in Item, Rewrites(s, j), Renews(s, j)
      PROVE  items'[i] = items[i] \/ Renews(s, i)
  BY <1>6 DEF Rewrites
<1>7. ASSUME NEW j \in Item, Process(s, j) \/ Apply(s, j) \/ (Decide(s, j) /\ ~ remove_item(s, j))
      PROVE  items'[i] = items[i] \/ Renews(s, i)
  BY <1>6, <1>7, ProcessRenews, ApplyRenews, DecideRenews, ProcessEntitled, ApplyEntitled,
     DecideEntitled
<1>8. ASSUME NEW j \in Item, NEW r \in ReceiptId, Journal(s, j, r)
      PROVE  items'[i] = items[i] \/ Renews(s, i)
  BY <1>6, <1>8, JournalRenews, JournalEntitled
<1>9. CASE clear_terminal(s) \/ discard_queued(s) \/ \E j \in Item : remove_item(s, j)
  BY <1>5, <1>9 DEF clear_terminal, discard_queued, remove_item, WithStatus
<1> QED
  BY <1>2, <1>3, <1>4, <1>7, <1>8, <1>9 DEF Step

\* A statement writes its own session's heartbeat or none.
LEMMA StepTouches ==
  ASSUME IInv, NEW s \in Session, Step(s)
  PROVE  UNCHANGED quiet \/ touch_session(s)
<1>1. ASSUME NEW i \in Item, Process(s, i) \/ Decide(s, i) \/ Apply(s, i)
      PROVE  UNCHANGED quiet \/ touch_session(s)
  <2>1. CASE Process(s, i)
    BY <2>1 DEF Process, claim_next, renew_lease, transition, record_processing_failure,
                record_recovered_failure
  <2>2. CASE Decide(s, i)
    BY <2>2 DEF Decide, enqueue, manual_retry, complete_keep_original, retry_duplicate,
                cas_status, retry_unverified, retry_canceled, ReadAgain, mark_needs_review,
                approve_user_edit, remove_item, DeleteRows
  <2>3. CASE Apply(s, i)
    BY <2>3 DEF Apply, begin_applying, resolve_empty_applying, claim_applying_reconciliation,
                claim_deferred_reconciliation
  <2> QED
    BY <1>1, <2>1, <2>2, <2>3
<1>2. ASSUME NEW i \in Item, NEW r \in ReceiptId, Journal(s, i, r)
      PROVE  UNCHANGED quiet \/ touch_session(s)
  BY <1>2 DEF Journal, create_receipt, BindReceipt, renew_operation_lease, update_receipt,
              finish_applying, resolve_reconciled_rollback, resolve_verified_operation,
              record_applying_rollback, defer_published_reconciliation,
              park_applying_for_review
<1> QED
  BY <1>1, <1>2 DEF Step, open, drop, Crash, claim_next_none, renew_lease_refused,
                    recover_interrupted, clear_terminal, discard_queued, DeleteRows

\* What makes a session heard writes its heartbeat: the statements that do
\* not, of parking and deferring, leave it no document.
LEMMA HeardTouches ==
  ASSUME IInv, NEW s \in Session, IsHeard(s)
  PROVE  touch_session(s)
<1>0. s # NoSession
  BY NoSessionAssumption
<1>1. ASSUME NEW i \in Item, Apply(s, i) \/ claim_next(s, i) \/ renew_lease(s, i)
      PROVE  touch_session(s)
  BY <1>1 DEF Apply, begin_applying, resolve_empty_applying, claim_applying_reconciliation,
              claim_deferred_reconciliation, claim_next, renew_lease
<1>2. ASSUME NEW i \in Item, NEW r \in ReceiptId, Journal(s, i, r), items'[i].owner = s
      PROVE  touch_session(s)
  <2>1. ASSUME NEW e, SetRow(i, Parked(items[i], r, e)) PROVE FALSE
    <3>1. items[i] \in Row /\ items'[i] = Parked(items[i], r, e)
      BY <2>1, RowWritten
    <3> QED
      BY <1>0, <1>2, <3>1 DEF Parked, Disowned, Row
  <2> QED
    BY <1>2, <2>1
       DEF Journal, create_receipt, BindReceipt, renew_operation_lease, update_receipt,
           finish_applying, resolve_reconciled_rollback, resolve_verified_operation,
           record_applying_rollback, defer_published_reconciliation,
           park_applying_for_review
<1> QED
  BY <1>1, <1>2 DEF IsHeard, open, claim_next_none, renew_lease_refused

\* Time ages what is recorded as fast as it runs down the lease and the
\* heartbeat.
LEMMA TickRecorded ==
  ASSUME IInv, Recorded, HTick
  PROVE  Recorded'
<1>1. ASSUME NEW i \in Item
      PROVE  /\ worked'[i] \in 0..LEASE_SECONDS
             /\ items'[i].owner # NoSession => items'[i].lease + worked'[i] >= LEASE_SECONDS
  <2>1. items[i] \in Row /\ items[i].lease \in 0..LEASE_SECONDS /\ worked[i] \in 0..LEASE_SECONDS
    BY ItemIsGood DEF Row, Recorded
  <2>2. worked'[i] = IF worked[i] < LEASE_SECONDS THEN worked[i] + 1 ELSE worked[i]
    BY DEF HTick, Older
  <2>3. /\ items'[i].owner = items[i].owner
        /\ items'[i].lease = IF items[i].lease > 0 THEN items[i].lease - 1 ELSE items[i].lease
    BY <2>1 DEF HTick, Tick, Row
  <2> QED
    BY <2>1, <2>2, <2>3, LeaseAssumption DEF Recorded
<1>2. ASSUME NEW s \in Session
      PROVE  heard'[s] \in 0..LEASE_SECONDS /\ quiet'[s] <= heard'[s]
  <2>1. quiet[s] \in 0..LEASE_SECONDS /\ heard[s] \in 0..LEASE_SECONDS /\ quiet[s] <= heard[s]
    BY DEF IInv, TypeOK, Recorded
  <2>2. /\ heard'[s] = IF heard[s] < LEASE_SECONDS THEN heard[s] + 1 ELSE heard[s]
        /\ quiet'[s] = quiet[s] \/ (quiet[s] < LEASE_SECONDS /\ quiet'[s] = quiet[s] + 1)
    BY DEF HTick, Tick, Older
  <2> QED
    BY <2>1, <2>2, LeaseAssumption
<1>3. /\ worked' = [i \in Item |-> worked'[i]]
      /\ heard' = [s \in Session |-> heard'[s]]
  BY DEF HTick
<1> QED
  BY <1>1, <1>2, <1>3 DEF Recorded

\* Whoever goes on with a document has renewed its lease, and whoever is
\* heard has written its heartbeat.
LEMMA StepRecorded ==
  ASSUME IInv, Recorded, NEW s \in Session, HStep(s)
  PROVE  Recorded'
<1>1. ASSUME NEW i \in Item
      PROVE  /\ worked'[i] \in 0..LEASE_SECONDS
             /\ items'[i].owner # NoSession => items'[i].lease + worked'[i] >= LEASE_SECONDS
  <2>1. worked[i] \in 0..LEASE_SECONDS /\ LEASE_SECONDS \in Nat
    BY LeaseAssumption DEF Recorded
  <2>2. CASE GoesOnWith(s, i)
    <3>1. worked'[i] = 0
      BY <2>2 DEF HStep
    <3>2. s # NoSession /\ Renews(s, i) /\ items'[i].owner = s
      BY <2>2, NoSessionAssumption, ProcessRenews, ApplyRenews, JournalRenews DEF GoesOnWith
    <3> QED
      BY <2>1, <3>1, <3>2 DEF Renews
  <2>3. CASE ~ GoesOnWith(s, i)
    <3>1. worked'[i] = worked[i]
      BY <2>3 DEF HStep
    <3>2. items'[i] = items[i] \/ items'[i].owner = NoSession \/ items'[i].lease = LEASE_SECONDS
      BY StepRenews DEF HStep, Renews
    <3> QED
      BY <2>1, <3>1, <3>2 DEF Recorded
  <2> QED
    BY <2>2, <2>3
<1>2. ASSUME NEW t \in Session
      PROVE  heard'[t] \in 0..LEASE_SECONDS /\ quiet'[t] <= heard'[t]
  <2>1. /\ quiet \in [Session -> 0..LEASE_SECONDS] /\ heard \in [Session -> 0..LEASE_SECONDS]
        /\ quiet[t] <= heard[t] /\ LEASE_SECONDS \in Nat
    BY LeaseAssumption DEF IInv, TypeOK, Recorded
  <2>2. UNCHANGED quiet \/ touch_session(s)
    BY StepTouches DEF HStep
  <2>3. quiet'[t] = quiet[t] \/ quiet'[t] = 0
    BY <2>1, <2>2 DEF touch_session
  <2>4. CASE t = s /\ IsHeard(s)
    <3>1. heard'[t] = 0 /\ quiet'[t] = 0
      BY <2>1, <2>4, HeardTouches DEF HStep, touch_session
    <3> QED
      BY <2>1, <3>1
  <2>5. CASE ~ (t = s /\ IsHeard(s))
    <3>1. heard'[t] = heard[t]
      BY <2>1, <2>5 DEF HStep
    <3> QED
      BY <2>1, <2>3, <3>1
  <2> QED
    BY <2>4, <2>5
<1>3. /\ worked' = [i \in Item |-> worked'[i]]
      /\ heard' = [t \in Session |-> heard'[t]]
  BY DEF HStep, Recorded
<1> QED
  BY <1>1, <1>2, <1>3 DEF Recorded

\* Another session's statement takes a document only from an owner that the
\* takeover test finds dead.
LEMMA LossNeedsDeath ==
  ASSUME IInv, NEW i \in Item, NEW s \in Session, NEW t \in Session, Step(t),
         items[i].owner = s, items'[i].owner # s, ~ OwnerIsDead(i)
  PROVE  t = s
<1>1. s # NoSession /\ items[i] \in Row
  BY NoSessionAssumption, ItemIsGood
<1>2. ASSUME NEW j \in Item, Rewrites(t, j)
      PROVE  t = s
  BY <1>1, <1>2 DEF Rewrites, Entitled
<1>3. ASSUME NEW Gone \in SUBSET Item, DeleteRows(Gone),
             \A j \in Gone : items[j].status \notin Active
      PROVE  FALSE
  BY <1>1, <1>3, DeletedWasUnowned
<1>4. CASE open(t) \/ Crash(t) \/ claim_next_none(t) \/ renew_lease_refused(t)
  BY <1>4 DEF open, Crash, claim_next_none, renew_lease_refused
<1>5. CASE drop(t)
  BY <1>1, <1>5 DEF drop
<1>6. CASE recover_interrupted(t)
  BY <1>6 DEF recover_interrupted
<1>7. CASE clear_terminal(t)
  BY <1>3, <1>7 DEF clear_terminal, WithStatus, Active, Processing
<1>8. CASE discard_queued(t)
  BY <1>3, <1>8 DEF discard_queued, WithStatus, Active, Processing
<1>9. ASSUME NEW j \in Item, remove_item(t, j) PROVE FALSE
  BY <1>3, <1>9 DEF remove_item
<1>10. ASSUME NEW j \in Item, Process(t, j) \/ Decide(t, j) \/ Apply(t, j)
       PROVE  t = s
  BY <1>2, <1>9, <1>10, ProcessEntitled, DecideEntitled, ApplyEntitled
<1>11. ASSUME NEW j \in Item, NEW r \in ReceiptId, Journal(t, j, r)
       PROVE  t = s
  BY <1>2, <1>11, JournalEntitled
<1> QED
  BY <1>4, <1>5, <1>6, <1>7, <1>8, <1>10, <1>11 DEF Step

\* A session keeps its document as long as it goes on with it, or asks the
\* queue for anything at all, at least once a lease, in any interleaving with
\* any number of other sessions: a takeover happens only when nothing was
\* heard of the owner, nor done on the document, for a whole lease.
THEOREM LostOnlyInSilence == HSpec => WorkIsLostOnlyInSilence
<1>1. HInit => IInv /\ Recorded
  <2> SUFFICES ASSUME HInit PROVE IInv /\ Recorded
    OBVIOUS
  <2>1. IInv
    BY InitIInv DEF HInit
  <2> QED
    BY <2>1, LeaseAssumption DEF HInit, Init, EmptyRow, Recorded
<1>2. IInv /\ Recorded /\ [HNext]_hvars => IInv' /\ Recorded'
  <2> SUFFICES ASSUME IInv, Recorded, [HNext]_hvars PROVE IInv' /\ Recorded'
    OBVIOUS
  <2>1. [Next]_storeVars
    BY DEF HNext, HTick, HStep, Next, hvars
  <2>2. IInv'
    BY <2>1, NextIInv
  <2>3. CASE UNCHANGED hvars
    BY <2>2, <2>3 DEF hvars, historyVars, storeVars, Recorded
  <2>4. CASE HNext
    BY <2>2, <2>4, TickRecorded, StepRecorded DEF HNext
  <2> QED
    BY <2>2, <2>3, <2>4
<1>3. IInv /\ Recorded /\ [HNext]_hvars =>
        [\A i \in Item, s \in Session :
           items[i].owner = s /\ items'[i].owner # s =>
             Step(s) \/ (worked[i] = LEASE_SECONDS /\ heard[s] = LEASE_SECONDS)]_hvars
  <2> SUFFICES ASSUME IInv, Recorded, HNext, NEW i \in Item, NEW s \in Session,
                      items[i].owner = s, items'[i].owner # s, ~ Step(s)
               PROVE  worked[i] = LEASE_SECONDS /\ heard[s] = LEASE_SECONDS
    BY Zenon
  <2>1. s # NoSession /\ items[i] \in Row
    BY NoSessionAssumption, ItemIsGood
  <2>2. ~ HTick
    BY <2>1 DEF HTick, Tick, Row
  <2>3. PICK t \in Session : Step(t)
    BY <2>2 DEF HNext, HStep
  <2>4. OwnerIsDead(i)
    BY <2>3, LossNeedsDeath
  <2>5. items[i].lease = 0 /\ quiet[s] = LEASE_SECONDS
    BY <2>1, <2>4 DEF OwnerIsDead, IInv, OwnedRowsAreActive
  <2> QED
    BY <2>1, <2>5, LeaseAssumption DEF Recorded
<1> QED
  BY <1>1, <1>2, <1>3, PTL DEF HSpec, WorkIsLostOnlyInSilence
=============================================================================
