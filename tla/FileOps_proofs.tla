--------------------------- MODULE FileOps_proofs ---------------------------
(***************************************************************************)
(* Filing a document, for every bound on faults, interferences, receipts   *)
(* and sessions.                                                           *)
(*                                                                         *)
(* The first half lets the threads overlap as they like.  What a thread    *)
(* holds open is the document, and nobody else holds it: so a deletion,    *)
(* which is made with the published copy in hand, leaves a document.       *)
(*                                                                         *)
(* The second half is about one thread at a time.  What stage the journal  *)
(* has reached says where the document may be, whoever dies or interferes, *)
(* and where a thread is says it more exactly; from both it follows that a *)
(* settled journal is right and that filing implements its abstraction.    *)
(***************************************************************************)
EXTENDS FileOps, QueueStore_proofs, WellFoundedInduction

-----------------------------------------------------------------------------
(* What the threads hold *)

HoldsSource == {"copy", "copyFailed", "copied", "prove", "dropCopy", "droppedCopy", "publish",
                "publishFailed", "publishedCopy", "proveDestination", "cleanUp", "rollBack"}
HoldsBoth == {"fence", "delete", "refence", "deleteSource"}
HoldsDestination == {"checked", "confirm"}

\* The points at which a thread has a receipt in hand.
AtWork == HoldsSource \cup HoldsBoth \cup HoldsDestination
            \cup {"rename", "renamed", "check", "moveBack", "movedBack", "deleted", "finish",
                  "fail", "catchUp", "park"}

Written(r) == receipts[r].item = D

\* An operation goes between two paths, the document's own and a name.
Paths ==
  \A r \in ReceiptId : Written(r) =>
    \/ receipts[r].dir = "apply" /\ detail[r].src = "orig" /\ detail[r].dst \in Name
    \/ receipts[r].dir = "undo" /\ detail[r].src \in Name /\ detail[r].dst = "orig"

\* A thread at work has a receipt, and an operation it begins a direction.
InHand ==
  \A t \in Thread :
    /\ thread[t].pc \in AtWork => thread[t].r \in ReceiptId /\ Written(thread[t].r)
    /\ thread[t].pc \in {"begin", "plan"} => thread[t].job \in Direction

\* What is held open is the document, and by one thread.
HeldIsDocument == \A t \in Thread : \A p \in Held(t) : disk[p] = "doc"
HeldByOne == \A t, u \in Thread : t # u => Held(t) \cap Held(u) = {}

Types ==
  /\ disk \in [Place -> Content]
  /\ copy \in [ReceiptId -> Copy]
  /\ detail \in [ReceiptId -> Detail]
  /\ thread \in [Thread -> State]
  /\ approved \in BOOLEAN
  /\ faults \in Nat /\ others \in Nat

HInv == IInv /\ Types /\ Paths /\ InHand /\ HeldIsDocument /\ HeldByOne /\ DocumentIsKept

-----------------------------------------------------------------------------
(* What the steps are made of *)

\* There is one document.
LEMMA OneDocument == D \in Item /\ Item = {D} /\ NULL \notin ReceiptId /\ ReceiptId \subseteq Nat
BY FileAssumption, BoundsAssumption, SMT DEF D, Item, NULL, ReceiptId

\* The handles of a thread, by the three kinds of points.
LEMMA HeldIs ==
  ASSUME NEW t \in Thread
  PROVE  /\ thread[t].pc \in HoldsSource => Held(t) = {detail[thread[t].r].src}
         /\ thread[t].pc \in HoldsBoth =>
              Held(t) = {detail[thread[t].r].src, detail[thread[t].r].dst}
         /\ thread[t].pc \in HoldsDestination => Held(t) = {detail[thread[t].r].dst}
         /\ thread[t].pc \notin HoldsSource \cup HoldsBoth \cup HoldsDestination => Held(t) = {}
BY DEF Held, HoldsSource, HoldsBoth, HoldsDestination

\* t has moved to pc, with the same receipt in hand and for the same job, and
\* no other thread has moved.
Turned(t, pc) ==
  /\ thread' \in [Thread -> State]
  /\ \A u \in Thread \ {t} : thread'[u] = thread[u]
  /\ thread'[t].pc = pc
  /\ thread'[t].r = thread[t].r
  /\ thread'[t].seen = thread[t].seen
  /\ thread'[t].job = thread[t].job

\* Points are of the type of points.
LEMMA Points ==
  /\ AtWork \subseteq Point
  /\ {"idle", "review", "report", "begin", "plan", "examine", "claim"} \subseteq Point \ AtWork
BY DEF AtWork, HoldsSource, HoldsBoth, HoldsDestination, Point, OperationStep, ReconcileStep

\* What Goto and FailWith do to a thread.
LEMMA Turning ==
  ASSUME thread \in [Thread -> State], NEW t \in Thread, NEW pc \in Point, NEW e \in ErrorCode
  PROVE  /\ Goto(t, pc) => Turned(t, pc)
         /\ thread' = [thread EXCEPT ![t].pc = pc, ![t].err = e] => Turned(t, pc)
<1>1. thread[t] \in State
  OBVIOUS
<1>2. [thread[t] EXCEPT !.pc = pc] \in State
  BY <1>1 DEF State
<1>3. [thread[t] EXCEPT !.pc = pc, !.err = e] \in State
  BY <1>1 DEF State
<1>4. Goto(t, pc) => thread' = [thread EXCEPT ![t] = [thread[t] EXCEPT !.pc = pc]]
  BY DEF Goto
<1>5. thread' = [thread EXCEPT ![t].pc = pc, ![t].err = e] =>
        thread' = [thread EXCEPT ![t] = [thread[t] EXCEPT !.pc = pc, !.err = e]]
  OBVIOUS
<1>6. ASSUME NEW q \in State, thread' = [thread EXCEPT ![t] = q],
             q.pc = pc, q.r = thread[t].r, q.seen = thread[t].seen, q.job = thread[t].job
      PROVE  Turned(t, pc)
  BY <1>6 DEF Turned
<1>7. /\ [thread[t] EXCEPT !.pc = pc].pc = pc
      /\ [thread[t] EXCEPT !.pc = pc].r = thread[t].r
      /\ [thread[t] EXCEPT !.pc = pc].seen = thread[t].seen
      /\ [thread[t] EXCEPT !.pc = pc].job = thread[t].job
  BY <1>1 DEF State
<1>8. /\ [thread[t] EXCEPT !.pc = pc, !.err = e].pc = pc
      /\ [thread[t] EXCEPT !.pc = pc, !.err = e].r = thread[t].r
      /\ [thread[t] EXCEPT !.pc = pc, !.err = e].seen = thread[t].seen
      /\ [thread[t] EXCEPT !.pc = pc, !.err = e].job = thread[t].job
  BY <1>1 DEF State
<1>9. ASSUME Goto(t, pc) PROVE Turned(t, pc)
  BY <1>2, <1>4, <1>6, <1>7, <1>9
<1>10. ASSUME thread' = [thread EXCEPT ![t].pc = pc, ![t].err = e] PROVE Turned(t, pc)
  BY <1>3, <1>5, <1>6, <1>8, <1>10
<1> QED BY <1>9, <1>10

\* No receipt changes its document, its direction, its kind or its paths.
JournalStands ==
  \A r \in ReceiptId :
    /\ receipts'[r].item = receipts[r].item
    /\ receipts'[r].dir = receipts[r].dir
    /\ detail'[r].kind = detail[r].kind
    /\ detail'[r].src = detail[r].src
    /\ detail'[r].dst = detail[r].dst

\* What a thread's step must respect for nothing to be held twice, and for
\* what is held to be the document: what it takes hold of is the document and
\* free, and what it writes to nobody else holds.
LEMMA ThreadStep ==
  ASSUME HInv, IInv', Types', JournalStands, NEW t \in Thread,
         \A u \in Thread \ {t} : thread'[u] = thread[u],
         thread'[t].pc \in AtWork => thread'[t].r \in ReceiptId /\ Written(thread'[t].r),
         thread'[t].pc \in {"begin", "plan"} => thread'[t].job \in Direction,
         \A p \in Held(t)' : disk'[p] = "doc" /\ (p \in Held(t) \/ ~ Locked(p)),
         \A u \in Thread \ {t} : \A p \in Held(u) : disk'[p] = disk[p],
         DocumentIsKept'
  PROVE  HInv'
<1>1. \A r \in ReceiptId : Written(r)' <=> Written(r)
  BY DEF JournalStands, Written
<1>2. Paths'
  BY <1>1 DEF JournalStands, Paths, HInv
<1>3. InHand'
  BY <1>1 DEF InHand, HInv
<1>4. ASSUME NEW u \in Thread \ {t} PROVE Held(u)' = Held(u)
  <2>1. thread'[u] = thread[u]
    OBVIOUS
  <2>2. CASE thread[u].pc \in AtWork
    <3>1. thread[u].r \in ReceiptId
      BY <2>2 DEF HInv, InHand
    <3>2. /\ detail'[thread'[u].r].src = detail[thread[u].r].src
          /\ detail'[thread'[u].r].dst = detail[thread[u].r].dst
      BY <2>1, <3>1 DEF JournalStands
    <3> QED BY <2>1, <3>2 DEF Held
  <2>3. CASE thread[u].pc \notin AtWork
    <3>1. thread[u].pc \notin HoldsSource \cup HoldsBoth \cup HoldsDestination
      BY <2>3 DEF AtWork
    <3> QED BY <2>1, <3>1 DEF Held, HoldsSource, HoldsBoth, HoldsDestination
  <2> QED BY <2>2, <2>3
<1>5. HeldIsDocument'
  BY <1>4 DEF HeldIsDocument, HInv
<1>6. HeldByOne'
  BY <1>4 DEF HeldByOne, HInv, Locked
<1> QED BY <1>2, <1>3, <1>5, <1>6 DEF HInv

\* The handles of a thread that has moved, by the point it moved to.
LEMMA HandlesAfter ==
  ASSUME HInv, JournalStands, NEW t \in Thread, NEW pc, Turned(t, pc), thread[t].pc \in AtWork
  PROVE  /\ thread[t].r \in ReceiptId
         /\ thread'[t].r \in ReceiptId /\ Written(thread'[t].r)
         /\ pc \in HoldsSource => Held(t)' = {detail[thread[t].r].src}
         /\ pc \in HoldsBoth => Held(t)' = {detail[thread[t].r].src, detail[thread[t].r].dst}
         /\ pc \in HoldsDestination => Held(t)' = {detail[thread[t].r].dst}
         /\ pc \notin HoldsSource \cup HoldsBoth \cup HoldsDestination => Held(t)' = {}
<1>1. /\ thread[t].r \in ReceiptId /\ Written(thread[t].r)
      /\ thread'[t].r = thread[t].r /\ thread'[t].pc = pc
  BY DEF HInv, InHand, Turned
<1>2. /\ detail'[thread'[t].r].src = detail[thread[t].r].src
      /\ detail'[thread'[t].r].dst = detail[thread[t].r].dst
  BY <1>1 DEF JournalStands
<1> QED BY <1>1, <1>2 DEF Held, HoldsSource, HoldsBoth, HoldsDestination

\* A step of a thread at work that leaves the files alone.
LEMMA RestStep ==
  ASSUME HInv, IInv', Types', JournalStands, NEW t \in Thread, NEW pc, Turned(t, pc),
         thread[t].pc \in AtWork, pc \notin {"begin", "plan"}, disk' = disk,
         \A p \in Held(t)' : p \in Held(t) \/ (disk[p] = "doc" /\ ~ Locked(p))
  PROVE  HInv'
<1>1. \A u \in Thread \ {t} : thread'[u] = thread[u]
  BY DEF Turned
<1>2. thread'[t].pc = pc /\ thread'[t].r \in ReceiptId /\ Written(thread'[t].r)
  BY HandlesAfter DEF Turned
<1>3. \A p \in Held(t)' : disk'[p] = "doc" /\ (p \in Held(t) \/ ~ Locked(p))
  BY DEF HInv, HeldIsDocument
<1>4. DocumentIsKept'
  BY DEF HInv, DocumentIsKept
<1> QED BY <1>1, <1>2, <1>3, <1>4, ThreadStep

\* A call that fails, by itself or because it cannot succeed, is counted.
LEMMA FaultTypes ==
  ASSUME faults \in Nat, NEW possible, Fault \/ NoFault \/ Fails(possible)
  PROVE  faults' \in Nat
BY FileAssumption, SMT DEF Fault, NoFault, Fails

\* No statement but create_receipt changes the document or the direction of
\* a receipt.
ReceiptsStand ==
  \A r \in ReceiptId : receipts'[r].item = receipts[r].item /\ receipts'[r].dir = receipts[r].dir

\* The statements about a receipt keep the store's invariant.
LEMMA Statements ==
  ASSUME IInv, NEW s \in Session, NEW r \in ReceiptId, NEW e \in ErrorCode,
         NEW expected, NEW next \in Stage
  PROVE  /\ update_receipt(s, D, r, expected, next) => IInv' /\ ReceiptsStand
         /\ renew_operation_lease(s, D, r, expected) => IInv' /\ ReceiptsStand
         /\ finish_applying(s, D, r, expected) => IInv' /\ ReceiptsStand
         /\ resolve_reconciled_rollback(s, D, r, expected) => IInv' /\ ReceiptsStand
         /\ resolve_verified_operation(s, D, r, expected) => IInv' /\ ReceiptsStand
         /\ record_applying_rollback(s, D, r, e) => IInv' /\ ReceiptsStand
         /\ defer_published_reconciliation(s, D, r) => IInv' /\ ReceiptsStand
         /\ park_applying_for_review(s, D, r, e) => IInv' /\ ReceiptsStand
<1>1. D \in Item
  BY OneDocument
<1>2. ASSUME NEW stage, SetStage(r, stage) PROVE ReceiptsStand
  BY <1>2 DEF IInv, TypeOK, SetStage, ReceiptsStand, Receipt
<1>3. ASSUME UNCHANGED receipts PROVE ReceiptsStand
  BY <1>3 DEF ReceiptsStand
<1>4. update_receipt(s, D, r, expected, next) => IInv' /\ ReceiptsStand
  BY <1>1, <1>2, update_receiptStep DEF update_receipt
<1>5. renew_operation_lease(s, D, r, expected) => IInv' /\ ReceiptsStand
  BY <1>1, <1>3, renew_operation_leaseStep DEF renew_operation_lease
<1>6. finish_applying(s, D, r, expected) => IInv' /\ ReceiptsStand
  BY <1>1, <1>3, finish_applyingStep DEF finish_applying
<1>7. resolve_reconciled_rollback(s, D, r, expected) => IInv' /\ ReceiptsStand
  BY <1>1, <1>2, resolve_reconciled_rollbackStep DEF resolve_reconciled_rollback
<1>8. resolve_verified_operation(s, D, r, expected) => IInv' /\ ReceiptsStand
  BY <1>1, <1>2, resolve_verified_operationStep DEF resolve_verified_operation
<1>9. record_applying_rollback(s, D, r, e) => IInv' /\ ReceiptsStand
  BY <1>1, <1>3, record_applying_rollbackStep DEF record_applying_rollback
<1>10. defer_published_reconciliation(s, D, r) => IInv' /\ ReceiptsStand
  <2>1. "SOURCE_DELETE_FAILED" \in ErrorCode
    BY DEF ErrorCode
  <2> QED BY <1>1, <1>3, <2>1, ParkStep DEF defer_published_reconciliation, Holds, OwnsApplying
<1>11. park_applying_for_review(s, D, r, e) => IInv' /\ ReceiptsStand
  BY <1>1, <1>3, ParkStep DEF park_applying_for_review, OwnsApplying
<1> QED BY <1>4, <1>5, <1>6, <1>7, <1>8, <1>9, <1>10, <1>11

\* The other statements of the threads keep it too, and the receipts.
LEMMA RowStatements ==
  ASSUME IInv, NEW s \in Session, NEW expected \in {"ready", "needs_review", "completed"}
  PROVE  /\ approve_user_edit(s, D, expected) => IInv' /\ receipts' = receipts
         /\ begin_applying(s, D, expected) => IInv' /\ receipts' = receipts
         /\ mark_needs_review(s, D) => IInv' /\ receipts' = receipts
         /\ complete_keep_original(s, D, expected) => IInv' /\ receipts' = receipts
         /\ claim_deferred_reconciliation(s, D) => IInv' /\ receipts' = receipts
         /\ claim_applying_reconciliation(s, D) => IInv' /\ receipts' = receipts
         /\ resolve_empty_applying(s, D) => IInv' /\ receipts' = receipts
<1>1. D \in Item
  BY OneDocument
<1>2. approve_user_edit(s, D, expected) => IInv' /\ receipts' = receipts
  BY <1>1, approve_user_editStep DEF approve_user_edit
<1>3. begin_applying(s, D, expected) => IInv' /\ receipts' = receipts
  BY <1>1, begin_applyingStep DEF begin_applying
<1>4. mark_needs_review(s, D) => IInv' /\ receipts' = receipts
  BY <1>1, mark_needs_reviewStep DEF mark_needs_review
<1>5. complete_keep_original(s, D, expected) => IInv' /\ receipts' = receipts
  BY <1>1, cas_statusStep DEF complete_keep_original, cas_status
<1>6. claim_deferred_reconciliation(s, D) => IInv' /\ receipts' = receipts
  BY <1>1, claim_deferred_reconciliationStep DEF claim_deferred_reconciliation
<1>7. claim_applying_reconciliation(s, D) => IInv' /\ receipts' = receipts
  BY <1>1, claim_applying_reconciliationStep DEF claim_applying_reconciliation
<1>8. resolve_empty_applying(s, D) => IInv' /\ receipts' = receipts
  BY <1>1, resolve_empty_applyingStep DEF resolve_empty_applying
<1> QED BY <1>2, <1>3, <1>4, <1>5, <1>6, <1>7, <1>8

\* A journal write lands, or the thread goes to report that it did not.
Landed(t, expected, next, then) ==
  LET r == thread[t].r IN
  /\ Turned(t, then)
  /\ receipts[r].stage = expected
  /\ SetStage(r, next)

\* What Write does: the paths and everything but the stage, temporary_exists
\* and the hash that differed stay as they are.
LEMMA Writing ==
  ASSUME HInv, NEW t \in Thread, NEW s \in Session, thread[t].pc \in AtWork,
         NEW expected, NEW next \in Stage, NEW temp \in BOOLEAN, NEW differs \in BOOLEAN,
         NEW then \in Point, Write(t, s, expected, next, temp, differs, then)
  PROVE  /\ IInv' /\ JournalStands
         /\ detail' \in [ReceiptId -> Detail] /\ faults' \in Nat
         /\ \/ Landed(t, expected, next, then)
            \/ Turned(t, "fail") /\ UNCHANGED <<receipts, detail>>
<1> DEFINE r == thread[t].r
<1>1. /\ r \in ReceiptId /\ thread \in [Thread -> State]
      /\ detail \in [ReceiptId -> Detail] /\ faults \in Nat /\ IInv
  BY DEF HInv, InHand, Types
<1>2. "fail" \in Point /\ "OTHER" \in ErrorCode
  BY DEF Point, OperationStep, ErrorCode
<1>3. CASE /\ update_receipt(s, D, r, expected, next)
           /\ detail' = [detail EXCEPT ![r].temp = temp, ![r].differs = differs]
           /\ IF then = "fail" THEN FailWith(t, "OTHER") ELSE Goto(t, then)
           /\ NoFault
  <2>1. IInv' /\ ReceiptsStand
    BY <1>1, <1>2, <1>3, Statements
  <2>2. detail[r] \in Detail
    BY <1>1
  <2>3. [detail[r] EXCEPT !.temp = temp, !.differs = differs] \in Detail
    BY <2>2 DEF Detail
  <2>4. detail' = [detail EXCEPT ![r] = [detail[r] EXCEPT !.temp = temp, !.differs = differs]]
    BY <1>3
  <2>5. detail' \in [ReceiptId -> Detail]
    BY <1>1, <2>3, <2>4
  <2>6. /\ [detail[r] EXCEPT !.temp = temp, !.differs = differs].kind = detail[r].kind
        /\ [detail[r] EXCEPT !.temp = temp, !.differs = differs].src = detail[r].src
        /\ [detail[r] EXCEPT !.temp = temp, !.differs = differs].dst = detail[r].dst
    BY <2>2 DEF Detail
  <2>7. JournalStands
    BY <1>1, <2>1, <2>4, <2>6 DEF JournalStands, ReceiptsStand
  <2>8. Turned(t, then)
    BY <1>1, <1>2, <1>3, Turning DEF FailWith
  <2>9. receipts[r].stage = expected /\ SetStage(r, next)
    BY <1>3 DEF update_receipt
  <2>10. faults' \in Nat
    BY <1>1, <1>3 DEF NoFault
  <2> QED BY <2>1, <2>5, <2>7, <2>8, <2>9, <2>10 DEF Landed
<1>4. CASE /\ Fails(Journaled(s, r, expected))
           /\ FailWith(t, "OTHER")
           /\ UNCHANGED <<storeVars, detail>>
  <2>1. faults' \in Nat
    BY <1>1, <1>4, FaultTypes
  <2>2. Turned(t, "fail")
    BY <1>1, <1>2, <1>4, Turning DEF FailWith
  <2>3. IInv'
    BY <1>1, <1>4, NextIInv DEF storeVars
  <2>4. JournalStands
    BY <1>4 DEF JournalStands, storeVars
  <2> QED BY <1>1, <1>4, <2>1, <2>2, <2>3, <2>4 DEF storeVars
<1> QED BY <1>3, <1>4 DEF Write

\* What Rename does: the file is moved, or nothing is; the answer may be lost.
LEMMA Renaming ==
  ASSUME HInv, NEW t \in Thread, NEW p \in Place, NEW q \in Place, NEW then \in Point,
         Rename(t, p, q, then)
  PROVE  /\ disk' \in [Place -> Content] /\ faults' \in Nat
         /\ \/ /\ CanMove(t, p, q) /\ Move(p, q)
               /\ Turned(t, then) \/ Turned(t, "fail")
            \/ disk' = disk /\ Turned(t, "fail")
<1>1. thread \in [Thread -> State] /\ disk \in [Place -> Content] /\ faults \in Nat
  BY DEF HInv, Types
<1>2. "fail" \in Point /\ "OTHER" \in ErrorCode
  BY DEF Point, OperationStep, ErrorCode
<1>3. ASSUME FailWith(t, "OTHER") PROVE Turned(t, "fail")
  BY <1>1, <1>2, <1>3, Turning DEF FailWith
<1>4. ASSUME Goto(t, then) PROVE Turned(t, then)
  BY <1>1, <1>2, <1>4, Turning
<1>5. CASE /\ CanMove(t, p, q)
           /\ Move(p, q)
           /\ \/ Goto(t, then) /\ NoFault
              \/ FailWith(t, "OTHER") /\ Fault
  <2>1. disk' \in [Place -> Content]
    BY <1>1, <1>5 DEF Move, Content
  <2>2. faults' \in Nat
    BY <1>1, <1>5, FaultTypes
  <2> QED BY <1>3, <1>4, <1>5, <2>1, <2>2
<1>6. CASE /\ Fails(CanMove(t, p, q))
           /\ FailWith(t, "OTHER")
           /\ UNCHANGED disk
  <2>1. faults' \in Nat
    BY <1>1, <1>6, FaultTypes
  <2> QED BY <1>1, <1>3, <1>6, <2>1
<1> QED BY <1>5, <1>6 DEF Rename

\* The paths of a receipt in hand.
LEMMA PathsInHand ==
  ASSUME HInv, NEW t \in Thread, thread[t].pc \in AtWork
  PROVE  /\ thread[t].r \in ReceiptId /\ Written(thread[t].r)
         /\ detail[thread[t].r].src \in Place /\ detail[thread[t].r].dst \in Place
         /\ detail[thread[t].r].src # detail[thread[t].r].dst
<1>1. thread[t].r \in ReceiptId /\ Written(thread[t].r)
  BY DEF HInv, InHand
<1>2. detail[thread[t].r] \in Detail
  BY <1>1 DEF HInv, Types
<1>3. detail[thread[t].r].src \in Place /\ detail[thread[t].r].dst \in Place
  BY <1>2 DEF Detail
<1> QED BY <1>1, <1>3 DEF HInv, Paths, Name

\* What is held is at paths the model has.
LEMMA HeldInPlace ==
  ASSUME HInv, NEW u \in Thread
  PROVE  Held(u) \subseteq Place
<1>1. CASE thread[u].pc \in AtWork
  BY <1>1, HeldIs, PathsInHand
<1>2. CASE thread[u].pc \notin AtWork
  BY <1>2, HeldIs DEF AtWork
<1> QED BY <1>1, <1>2

\* Whatever is not held is written to freely: moving a file to a free path.
LEMMA MoveStep ==
  ASSUME HInv, NEW t \in Thread, NEW p \in Place, NEW q \in Place,
         CanMove(t, p, q), Move(p, q)
  PROVE  /\ \A u \in Thread \ {t} : \A x \in Held(u) : disk'[x] = disk[x]
         /\ DocumentIsKept'
<1>1. disk \in [Place -> Content] /\ disk[q] = "none" /\ p # q
  BY DEF HInv, Types, CanMove, Exists
<1>2. \A u \in Thread \ {t} : p \notin Held(u) /\ q \notin Held(u)
  BY <1>1 DEF CanMove, HInv, HeldIsDocument
<1>3. /\ disk'[q] = disk[p] /\ disk'[p] = "none"
      /\ \A x \in Place \ {p, q} : disk'[x] = disk[x]
  BY <1>1 DEF Move
<1>4. ASSUME NEW u \in Thread \ {t}, NEW x \in Held(u) PROVE disk'[x] = disk[x]
  BY <1>2, <1>3, HeldInPlace
<1>5. DocumentIsKept'
  <2>1. PICK x \in Place : disk[x] \in Document
    BY DEF HInv, DocumentIsKept
  <2>2. x # q
    BY <1>1, <2>1 DEF Document
  <2> QED BY <1>3, <2>1, <2>2 DEF DocumentIsKept
<1> QED BY <1>4, <1>5

\* A rename by a thread that holds nothing after it.
LEMMA RenameHolds ==
  ASSUME HInv, NEW t \in Thread, thread[t].pc \in {"rename", "moveBack"},
         NEW p \in Place, NEW q \in Place, NEW then \in {"renamed", "movedBack"},
         Rename(t, p, q, then), UNCHANGED <<storeVars, copy, detail, approved, others>>
  PROVE  HInv'
<1>1. /\ thread[t].pc \in AtWork /\ then \in AtWork /\ "fail" \in AtWork
      /\ {then, "fail"} \cap (HoldsSource \cup HoldsBoth \cup HoldsDestination) = {}
  BY DEF AtWork, HoldsSource, HoldsBoth, HoldsDestination
<1>2. /\ disk' \in [Place -> Content] /\ faults' \in Nat
      /\ \/ /\ CanMove(t, p, q) /\ Move(p, q)
            /\ Turned(t, then) \/ Turned(t, "fail")
         \/ disk' = disk /\ Turned(t, "fail")
  BY <1>1, Renaming, Points
<1>3. IInv' /\ JournalStands
  BY NextIInv DEF HInv, JournalStands, storeVars
<1>4. PICK pc \in {then, "fail"} : Turned(t, pc)
  BY <1>2
<1>5. Types'
  BY <1>2, <1>4 DEF HInv, Types, Turned
<1>6. Held(t)' = {} /\ thread'[t].r \in ReceiptId /\ Written(thread'[t].r)
  BY <1>1, <1>3, <1>4, HandlesAfter
<1>7. /\ \A u \in Thread \ {t} : \A x \in Held(u) : disk'[x] = disk[x]
      /\ DocumentIsKept'
  <2>1. CASE CanMove(t, p, q) /\ Move(p, q)
    BY <2>1, MoveStep
  <2>2. CASE disk' = disk
    BY <2>2 DEF HInv, DocumentIsKept
  <2> QED BY <1>2, <2>1, <2>2
<1>8. thread'[t].pc = pc /\ pc \notin {"begin", "plan"} /\ \A u \in Thread \ {t} : thread'[u] = thread[u]
  BY <1>1, <1>4, Points DEF Turned
<1> QED BY <1>3, <1>5, <1>6, <1>7, <1>8, ThreadStep

\* A journal write by a thread that takes hold of nothing by it.
LEMMA WriteHolds ==
  ASSUME HInv, NEW t \in Thread, NEW s \in Session, thread[t].pc \in AtWork,
         NEW expected, NEW next \in Stage, NEW temp \in BOOLEAN, NEW differs \in BOOLEAN,
         NEW then \in AtWork, Write(t, s, expected, next, temp, differs, then),
         UNCHANGED <<disk, copy, approved, others>>,
         thread[t].pc \in HoldsSource \/ then \notin HoldsSource,
         then \notin HoldsDestination,
         then \in HoldsBoth =>
           /\ thread[t].pc \in HoldsSource
           /\ disk[detail[thread[t].r].dst] = "doc" /\ ~ Locked(detail[thread[t].r].dst)
  PROVE  HInv'
<1>1. then \in Point /\ then \notin {"begin", "plan"} /\ "fail" \notin {"begin", "plan"}
      /\ "fail" \notin HoldsSource \cup HoldsBoth \cup HoldsDestination
  BY Points DEF AtWork, HoldsSource, HoldsBoth, HoldsDestination
<1>2. /\ IInv' /\ JournalStands
      /\ detail' \in [ReceiptId -> Detail] /\ faults' \in Nat
      /\ Turned(t, then) \/ Turned(t, "fail")
  BY <1>1, Writing DEF Landed
<1>3. ASSUME Turned(t, then) \/ Turned(t, "fail") PROVE Types'
  BY <1>2, <1>3 DEF HInv, Types, Turned
<1>4. CASE Turned(t, "fail")
  <2>1. Held(t)' = {}
    BY <1>1, <1>2, <1>4, HandlesAfter
  <2> QED BY <1>1, <1>2, <1>3, <1>4, <2>1, RestStep
<1>5. CASE Turned(t, then)
  <2>1. \A p \in Held(t)' : p \in Held(t) \/ (disk[p] = "doc" /\ ~ Locked(p))
    <3>1. thread[t].pc \in HoldsSource => Held(t) = {detail[thread[t].r].src}
      BY HeldIs
    <3>2. /\ then \in HoldsSource => Held(t)' = {detail[thread[t].r].src}
          /\ then \in HoldsBoth => Held(t)' = {detail[thread[t].r].src, detail[thread[t].r].dst}
          /\ then \notin HoldsSource \cup HoldsBoth \cup HoldsDestination => Held(t)' = {}
      BY <1>2, <1>5, HandlesAfter
    <3> QED BY <3>1, <3>2
  <2> QED BY <1>1, <1>2, <1>3, <1>5, <2>1, RestStep
<1> QED BY <1>2, <1>4, <1>5

\* A thread that stays at work and takes hold of nothing, while nothing but
\* temporaries and faults change.
LEMMA GoHolds ==
  ASSUME HInv, NEW t \in Thread, thread[t].pc \in AtWork,
         NEW pc \in Point, pc \notin {"begin", "plan"}, Turned(t, pc),
         IInv', ReceiptsStand, UNCHANGED <<disk, detail, approved, others>>,
         copy' \in [ReceiptId -> Copy], faults' \in Nat,
         pc \in HoldsSource => thread[t].pc \in HoldsSource \cup HoldsBoth,
         pc \in HoldsBoth => thread[t].pc \in HoldsBoth,
         pc \in HoldsDestination =>
           \/ thread[t].pc \in HoldsDestination \cup HoldsBoth
           \/ disk[detail[thread[t].r].dst] = "doc" /\ ~ Locked(detail[thread[t].r].dst)
  PROVE  HInv'
<1>1. JournalStands
  BY DEF JournalStands, ReceiptsStand
<1>2. Types'
  BY DEF HInv, Types, Turned
<1>3. \A p \in Held(t)' : p \in Held(t) \/ (disk[p] = "doc" /\ ~ Locked(p))
  <2>1. /\ pc \in HoldsSource => Held(t)' = {detail[thread[t].r].src}
        /\ pc \in HoldsBoth => Held(t)' = {detail[thread[t].r].src, detail[thread[t].r].dst}
        /\ pc \in HoldsDestination => Held(t)' = {detail[thread[t].r].dst}
        /\ pc \notin HoldsSource \cup HoldsBoth \cup HoldsDestination => Held(t)' = {}
    BY <1>1, HandlesAfter
  <2> QED BY <2>1, HeldIs
<1> QED BY <1>1, <1>2, <1>3, RestStep

\* A call that fails without touching anything.
LEMMA FailHolds ==
  ASSUME HInv, NEW t \in Thread, thread[t].pc \in AtWork, NEW e \in ErrorCode,
         NEW pc \in {"fail", "park", "copyFailed", "publishFailed", "dropCopy"},
         NEW possible, Fault \/ NoFault \/ Fails(possible),
         thread' = [thread EXCEPT ![t].pc = pc, ![t].err = e] \/ Goto(t, pc),
         pc \in {"fail", "park"} \/ thread[t].pc \in HoldsSource,
         UNCHANGED <<storeVars, disk, detail, approved, others>>,
         copy' \in [ReceiptId -> Copy]
  PROVE  HInv'
<1>1. /\ pc \in Point /\ pc \notin {"begin", "plan"}
      /\ pc \notin HoldsBoth \cup HoldsDestination
      /\ pc \in {"fail", "park"} => pc \notin HoldsSource
  BY DEF Point, OperationStep, ReconcileStep, HoldsSource, HoldsBoth, HoldsDestination
<1>2. Turned(t, pc)
  BY <1>1, Turning DEF HInv, Types
<1>3. IInv' /\ ReceiptsStand
  BY NextIInv DEF HInv, ReceiptsStand, storeVars
<1>4. faults' \in Nat
  BY FaultTypes DEF HInv, Types
<1> QED BY <1>1, <1>2, <1>3, <1>4, GoHolds

\* same_volume_transfer: the check takes hold of the destination when it is
\* the document, and of nothing else.
LEMMA same_volume_transferHolds ==
  ASSUME HInv, NEW t \in Thread, NEW s \in Session, same_volume_transfer(t, s)
  PROVE  HInv'
<1> DEFINE d == detail[thread[t].r]
<1>1. /\ {"rename", "renamed", "check", "checked", "moveBack", "movedBack", "finish", "fail"} \subseteq AtWork
      /\ {"renamed", "check", "moveBack", "finish", "fail"} \cap
           (HoldsSource \cup HoldsBoth \cup HoldsDestination) = {}
      /\ "checked" \in HoldsDestination /\ "checked" \notin HoldsSource \cup HoldsBoth
      /\ "checked" \in Point /\ "checked" \notin {"begin", "plan"}
      /\ {"planned", "published", "rollback_required", "complete", "rolled_back"} \subseteq Stage
      /\ "OTHER" \in ErrorCode
  BY DEF AtWork, HoldsSource, HoldsBoth, HoldsDestination, Point, OperationStep, Stage, Terminal,
         Unfinished, ErrorCode
<1>2. CASE /\ At(t, "rename")
           /\ Rename(t, d.src, d.dst, "renamed")
           /\ UNCHANGED <<storeVars, copy, detail, approved, others>>
  BY <1>1, <1>2, RenameHolds, PathsInHand DEF At
<1>3. CASE /\ At(t, "renamed")
           /\ Write(t, s, "planned", "published", FALSE, FALSE, "check")
           /\ UNCHANGED <<disk, copy, approved, others>>
  BY <1>1, <1>3, WriteHolds DEF At
<1>4. CASE /\ At(t, "check")
           /\ disk[d.dst] = "doc" /\ ~ Locked(d.dst)
           /\ Goto(t, "checked")
           /\ UNCHANGED <<storeVars, disk, copy, detail, approved, faults, others>>
  <2>1. Turned(t, "checked")
    BY <1>1, <1>4, Turning DEF HInv, Types
  <2>2. IInv' /\ ReceiptsStand
    BY <1>4, NextIInv DEF HInv, ReceiptsStand, storeVars
  <2>3. copy' \in [ReceiptId -> Copy] /\ faults' \in Nat
    BY <1>4 DEF HInv, Types
  <2> QED BY <1>1, <1>4, <2>1, <2>2, <2>3, GoHolds DEF At
<1>5. CASE /\ At(t, "check")
           /\ Fails(Exists(d.dst) /\ ~ Locked(d.dst))
           /\ FailWith(t, "OTHER")
           /\ UNCHANGED <<storeVars, disk, copy, detail, approved, others>>
  <2>1. copy' \in [ReceiptId -> Copy]
    BY <1>5 DEF HInv, Types
  <2> QED BY <1>1, <1>5, <2>1, FailHolds DEF At, FailWith
<1>6. CASE /\ At(t, "check")
           /\ Exists(d.dst) /\ ~ Locked(d.dst)
           /\ \E differs \in {disk[d.dst] # "doc", FALSE} :
                Write(t, s, "published", "rollback_required", FALSE, differs, "moveBack")
           /\ UNCHANGED <<disk, copy, approved, others>>
  <2>1. At(t, "check") /\ UNCHANGED <<disk, copy, approved, others>>
    BY <1>6
  <2>2. PICK differs \in BOOLEAN :
          Write(t, s, "published", "rollback_required", FALSE, differs, "moveBack")
    BY <1>6
  <2>3. /\ thread[t].pc \in AtWork /\ "moveBack" \in AtWork
        /\ "moveBack" \notin HoldsSource /\ "moveBack" \notin HoldsDestination
        /\ "moveBack" \notin HoldsBoth
    BY <1>1, <2>1 DEF At
  <2>4. UNCHANGED <<disk, copy, approved, others>> /\ "rollback_required" \in Stage
    BY <2>1 DEF Stage, Terminal, Unfinished
  <2> QED BY <2>2, <2>3, <2>4, WriteHolds
<1>7. CASE /\ At(t, "checked")
           /\ Write(t, s, "published", "complete", FALSE, FALSE, "finish")
           /\ UNCHANGED <<disk, copy, approved, others>>
  BY <1>1, <1>7, WriteHolds DEF At
<1>8. CASE /\ At(t, "moveBack")
           /\ Rename(t, d.dst, d.src, "movedBack")
           /\ UNCHANGED <<storeVars, copy, detail, approved, others>>
  BY <1>1, <1>8, RenameHolds, PathsInHand DEF At
<1>9. CASE /\ At(t, "movedBack")
           /\ Write(t, s, "rollback_required", "rolled_back", FALSE, d.differs, "fail")
           /\ UNCHANGED <<disk, copy, approved, others>>
  <2>1. d \in Detail
    BY <1>1, <1>9, PathsInHand DEF At, HInv, Types
  <2>2. d.differs \in BOOLEAN
    BY <2>1, Zenon DEF Detail
  <2>3. \/ Write(t, s, "rollback_required", "rolled_back", FALSE, TRUE, "fail")
        \/ Write(t, s, "rollback_required", "rolled_back", FALSE, FALSE, "fail")
    BY <1>9, <2>2, Zenon
  <2>4. thread[t].pc = "movedBack" /\ UNCHANGED <<disk, copy, approved, others>>
    BY <1>9 DEF At
  <2> QED BY <1>1, <2>3, <2>4, WriteHolds
<1> QED
  BY <1>2, <1>3, <1>4, <1>5, <1>6, <1>7, <1>8, <1>9 DEF same_volume_transfer

\* copy_new_locked and temp_failure change the temporary only.
LEMMA TemporaryHolds ==
  ASSUME HInv, NEW t \in Thread, NEW s \in Session, copy_new_locked(t) \/ temp_failure(t, s)
  PROVE  HInv'
<1> DEFINE r == thread[t].r
<1>1. /\ {"copy", "dropCopy", "copied", "copyFailed", "droppedCopy"} \subseteq HoldsSource
      /\ HoldsSource \subseteq AtWork
      /\ {"copied", "droppedCopy"} \subseteq Point
      /\ {"copied", "droppedCopy", "copyFailed"} \cap ({"begin", "plan"} \cup HoldsBoth \cup HoldsDestination) = {}
      /\ "OTHER" \in ErrorCode
  BY DEF AtWork, HoldsSource, HoldsBoth, HoldsDestination, Point, OperationStep, ErrorCode
<1>2. copy \in [ReceiptId -> Copy] /\ {"none", "part", "doc"} = Copy
      /\ thread \in [Thread -> State] /\ faults \in Nat
  BY DEF HInv, Types, Copy
<1>3. CASE copy_new_locked(t)
  <2>1. At(t, "copy") /\ UNCHANGED <<storeVars, disk, detail, approved, others>>
        /\ thread[t].pc \in AtWork /\ thread[t].pc \in HoldsSource
    BY <1>1, <1>3 DEF copy_new_locked, At
  <2>2. copy' \in [ReceiptId -> Copy]
    BY <1>2, <1>3 DEF copy_new_locked
  <2>3. IInv' /\ ReceiptsStand
    BY <2>1, NextIInv DEF HInv, ReceiptsStand, storeVars
  <2>4. CASE copy' = [copy EXCEPT ![r] = "part"] /\ UNCHANGED thread /\ NoFault
    <3>1. Turned(t, "copy") /\ "copy" \in Point /\ "copy" \notin {"begin", "plan"}
          /\ "copy" \notin HoldsBoth \cup HoldsDestination
      BY <1>2, <2>1, <2>4 DEF Turned, At, Point, OperationStep, HoldsBoth, HoldsDestination
    <3>2. faults' \in Nat
      BY <1>2, <2>4 DEF NoFault
    <3> QED BY <2>1, <2>2, <2>3, <3>1, <3>2, GoHolds
  <2>5. CASE Goto(t, "copied") /\ NoFault
    <3>1. Turned(t, "copied")
      BY <1>1, <1>2, <2>5, Turning
    <3>2. faults' \in Nat
      BY <1>2, <2>5 DEF NoFault
    <3> QED BY <1>1, <2>1, <2>2, <2>3, <3>1, <3>2, GoHolds
  <2>6. CASE Goto(t, "copyFailed") /\ Fault
    BY <1>1, <2>1, <2>2, <2>6, FailHolds
  <2> QED BY <1>3, <2>4, <2>5, <2>6 DEF copy_new_locked
<1>4. CASE temp_failure(t, s)
  <2>1. At(t, "dropCopy") /\ UNCHANGED <<disk, detail, approved, others>>
        /\ thread[t].pc \in AtWork /\ thread[t].pc \in HoldsSource
    BY <1>1, <1>4 DEF temp_failure, At
  <2>2. CASE /\ renew_operation_lease(s, D, r, receipts[r].stage)
             /\ \/ copy' = [copy EXCEPT ![r] = "none"] /\ NoFault
                \/ UNCHANGED copy /\ Fault
             /\ Goto(t, "droppedCopy")
    <3>1. copy' \in [ReceiptId -> Copy]
      BY <1>2, <2>2
    <3>2. IInv' /\ ReceiptsStand
      BY <1>1, <2>1, <2>2, Statements, PathsInHand, Columns DEF HInv, Stage, Terminal
    <3>3. faults' \in Nat
      BY <1>2, <2>2, FaultTypes
    <3>4. Turned(t, "droppedCopy")
      BY <1>1, <1>2, <2>2, Turning
    <3> QED BY <1>1, <2>1, <3>1, <3>2, <3>3, <3>4, GoHolds
  <2>3. CASE /\ Fails(Holds(s, D, r))
             /\ FailWith(t, "OTHER")
             /\ UNCHANGED <<storeVars, copy>>
    BY <1>1, <1>2, <2>1, <2>3, FailHolds DEF FailWith
  <2> QED BY <1>4, <2>2, <2>3 DEF temp_failure
<1> QED BY <1>3, <1>4

\* publish writes to a path that is free, so to none that is held.
LEMMA publishHolds ==
  ASSUME HInv, NEW t \in Thread, publish(t)
  PROVE  HInv'
<1> DEFINE r == thread[t].r
           possible == copy[r] = "doc" /\ ~ Exists(detail[r].dst)
<1>1. /\ {"publish", "publishedCopy", "publishFailed", "dropCopy"} \subseteq HoldsSource
      /\ HoldsSource \subseteq AtWork
      /\ {"publishedCopy", "publishFailed"} \subseteq Point
      /\ {"publishedCopy", "publishFailed"} \cap {"begin", "plan"} = {}
      /\ "OTHER" \in ErrorCode
  BY DEF AtWork, HoldsSource, Point, OperationStep, ErrorCode
<1>2. /\ thread[t].pc = "publish" /\ thread[t].pc \in AtWork
      /\ UNCHANGED <<storeVars, detail, approved, others>>
      /\ IInv' /\ JournalStands
  BY <1>1, NextIInv DEF publish, At, HInv, JournalStands, storeVars
<1>3. /\ copy \in [ReceiptId -> Copy] /\ disk \in [Place -> Content]
      /\ thread \in [Thread -> State] /\ faults \in Nat
  BY DEF HInv, Types
<1>4. CASE /\ possible
           /\ disk' = [disk EXCEPT ![detail[r].dst] = copy[r]]
           /\ copy' = [copy EXCEPT ![r] = "none"]
           /\ \/ Goto(t, "publishedCopy") /\ NoFault
              \/ Goto(t, "publishFailed") /\ Fault
  <2>1. PICK pc \in {"publishedCopy", "publishFailed"} : Turned(t, pc)
    BY <1>1, <1>3, <1>4, Turning
  <2>2. /\ detail[r].dst \in Place /\ detail[r].src \in Place /\ disk[detail[r].dst] = "none"
        /\ detail[r].src # detail[r].dst
    BY <1>2, <1>4, PathsInHand DEF Exists
  <2>3. /\ disk'[detail[r].dst] = "doc"
        /\ \A x \in Place \ {detail[r].dst} : disk'[x] = disk[x]
        /\ disk' \in [Place -> Content]
    BY <1>3, <1>4, <2>2 DEF Content
  <2>4. copy' \in [ReceiptId -> Copy] /\ faults' \in Nat
    BY <1>3, <1>4, FaultTypes DEF Copy
  <2>5. Types'
    BY <1>2, <2>1, <2>3, <2>4 DEF HInv, Types, Turned
  <2>6. Held(t)' = {detail[r].src} /\ Held(t) = {detail[r].src}
        /\ thread'[t].r \in ReceiptId /\ Written(thread'[t].r)
    BY <1>1, <1>2, <2>1, HandlesAfter, HeldIs
  <2>7. disk[detail[r].src] = "doc"
    BY <2>6 DEF HInv, HeldIsDocument
  <2>8. \A u \in Thread \ {t} : \A p \in Held(u) : disk'[p] = disk[p]
    <3> SUFFICES ASSUME NEW u \in Thread \ {t}, NEW p \in Held(u) PROVE disk'[p] = disk[p]
      OBVIOUS
    <3>1. p \in Place /\ disk[p] = "doc"
      BY HeldInPlace DEF HInv, HeldIsDocument
    <3> QED BY <2>2, <2>3, <3>1
  <2>9. DocumentIsKept'
    BY <2>2, <2>3 DEF DocumentIsKept, Document
  <2>10. \A p \in Held(t)' : disk'[p] = "doc" /\ (p \in Held(t) \/ ~ Locked(p))
    BY <2>2, <2>3, <2>6, <2>7
  <2>11. thread'[t].pc \notin {"begin", "plan"} /\ \A u \in Thread \ {t} : thread'[u] = thread[u]
    BY <1>1, <2>1 DEF Turned
  <2> QED BY <1>2, <2>5, <2>6, <2>8, <2>9, <2>10, <2>11, ThreadStep
<1>5. CASE /\ Fails(possible)
           /\ Goto(t, "publishFailed")
           /\ UNCHANGED <<disk, copy>>
  BY <1>1, <1>2, <1>3, <1>5, FailHolds
<1>6. CASE /\ Goto(t, "dropCopy")
           /\ Fault
           /\ UNCHANGED <<disk, copy>>
  BY <1>1, <1>2, <1>3, <1>6, FailHolds
<1> QED BY <1>4, <1>5, <1>6 DEF publish

\* The source is deleted with the published copy in hand: nobody else holds
\* either, and a document is left.
LEMMA delete_sourceHolds ==
  ASSUME HInv, NEW t \in Thread, NEW s \in Session,
         NEW fence, NEW delete, NEW then, delete_source(t, s, fence, delete, then),
         \/ fence = "fence" /\ delete = "delete" /\ then = "deleted"
         \/ fence = "refence" /\ delete = "deleteSource" /\ then = "confirm"
  PROVE  HInv'
<1> DEFINE r == thread[t].r
           d == detail[r]
           e == IF delete = "delete" THEN "fail" ELSE "park"
<1>1. /\ fence \in HoldsBoth /\ delete \in HoldsBoth /\ HoldsBoth \subseteq AtWork
      /\ delete \in Point /\ then \in Point /\ delete \notin {"begin", "plan"}
      /\ delete \notin HoldsSource \cup HoldsDestination
      /\ then \notin {"begin", "plan"} \cup HoldsSource \cup HoldsBoth
      /\ e \in {"fail", "park"}
      /\ {"OTHER", "SOURCE_DELETE_FAILED"} \subseteq ErrorCode
      /\ "published" \in Stage
  BY DEF AtWork, HoldsSource, HoldsBoth, HoldsDestination, Point, OperationStep, ReconcileStep,
         ErrorCode, Stage, Unfinished
<1>2. /\ copy \in [ReceiptId -> Copy] /\ disk \in [Place -> Content]
      /\ thread \in [Thread -> State] /\ faults \in Nat
  BY DEF HInv, Types
<1>3. CASE /\ At(t, fence)
           /\ renew_operation_lease(s, D, r, "published") /\ Goto(t, delete) /\ NoFault
           /\ UNCHANGED <<disk, copy, detail, approved, others>>
  <2>1. thread[t].pc \in AtWork /\ thread[t].pc \in HoldsBoth
    BY <1>1, <1>3 DEF At
  <2>2. IInv' /\ ReceiptsStand
    BY <1>1, <1>3, <2>1, Statements, PathsInHand DEF HInv
  <2>3. Turned(t, delete)
    BY <1>1, <1>2, <1>3, Turning
  <2>4. copy' \in [ReceiptId -> Copy] /\ faults' \in Nat
    BY <1>2, <1>3 DEF NoFault
  <2> QED BY <1>1, <1>3, <2>1, <2>2, <2>3, <2>4, GoHolds
<1>4. CASE /\ At(t, fence)
           /\ Fails(Journaled(s, r, "published"))
           /\ UNCHANGED storeVars
           /\ thread' = [thread EXCEPT ![t].pc = e, ![t].err = "OTHER"]
           /\ UNCHANGED <<disk, copy, detail, approved, others>>
  <2>1. thread[t].pc \in AtWork
    BY <1>1, <1>4 DEF At
  <2> HIDE DEF e
  <2> QED BY <1>1, <1>2, <1>4, <2>1, FailHolds
<1>5. CASE /\ At(t, delete)
           /\ Fault
           /\ UNCHANGED disk
           /\ thread' = [thread EXCEPT ![t].pc = e, ![t].err = "SOURCE_DELETE_FAILED"]
           /\ UNCHANGED <<storeVars, copy, detail, approved, others>>
  <2>1. thread[t].pc \in AtWork
    BY <1>1, <1>5 DEF At
  <2> HIDE DEF e
  <2> QED BY <1>1, <1>2, <1>5, <2>1, FailHolds
<1>6. CASE /\ At(t, delete)
           /\ disk' = [disk EXCEPT ![d.src] = "none"] /\ Goto(t, then) /\ NoFault
           /\ UNCHANGED <<storeVars, copy, detail, approved, others>>
  <2>1. thread[t].pc \in AtWork /\ thread[t].pc \in HoldsBoth
    BY <1>1, <1>6 DEF At
  <2>2. Held(t) = {d.src, d.dst} /\ d.src \in Place /\ d.dst \in Place /\ d.src # d.dst
    BY <2>1, HeldIs, PathsInHand
  <2>3. disk[d.src] = "doc" /\ disk[d.dst] = "doc"
    BY <2>2 DEF HInv, HeldIsDocument
  <2>4. /\ disk' \in [Place -> Content] /\ disk'[d.dst] = "doc"
        /\ \A x \in Place \ {d.src} : disk'[x] = disk[x]
    BY <1>2, <1>6, <2>2, <2>3 DEF Content
  <2>5. Turned(t, then)
    BY <1>1, <1>2, <1>6, Turning
  <2>6. IInv' /\ JournalStands
    BY <1>6, NextIInv DEF HInv, JournalStands, storeVars
  <2>7. Types'
    BY <1>2, <1>6, <2>4, <2>5 DEF HInv, Types, Turned, NoFault
  <2>8. Held(t)' \subseteq {d.dst} /\ thread'[t].r \in ReceiptId /\ Written(thread'[t].r)
    BY <1>1, <2>1, <2>5, <2>6, HandlesAfter
  <2>9. \A p \in Held(t)' : disk'[p] = "doc" /\ (p \in Held(t) \/ ~ Locked(p))
    BY <2>2, <2>4, <2>8
  <2>10. \A u \in Thread \ {t} : \A p \in Held(u) : disk'[p] = disk[p]
    <3> SUFFICES ASSUME NEW u \in Thread \ {t}, NEW p \in Held(u) PROVE disk'[p] = disk[p]
      OBVIOUS
    <3>1. p \in Place /\ p # d.src
      BY <2>2, HeldInPlace DEF HInv, HeldByOne
    <3> QED BY <2>4, <3>1
  <2>11. DocumentIsKept'
    BY <2>2, <2>4 DEF DocumentIsKept, Document
  <2>12. thread'[t].pc \notin {"begin", "plan"} /\ \A u \in Thread \ {t} : thread'[u] = thread[u]
    BY <1>1, <2>5 DEF Turned
  <2> QED BY <2>6, <2>7, <2>8, <2>9, <2>10, <2>11, <2>12, ThreadStep
<1> QED
  BY <1>3, <1>4, <1>5, <1>6 DEF delete_source

\* The two values of a column that says whether there is a temporary.
LEMMA TemporaryColumn ==
  ASSUME NEW t, NEW s, NEW expected, NEW next, NEW then,
         Write(t, s, expected, next, copy[thread[t].r] # "none", FALSE, then)
  PROVE  \/ Write(t, s, expected, next, TRUE, FALSE, then)
         \/ Write(t, s, expected, next, FALSE, FALSE, then)
<1>1. CASE copy[thread[t].r] = "none"
  <2>1. (copy[thread[t].r] # "none") = FALSE
    BY <1>1, Zenon
  <2> QED BY <2>1, Zenon
<1>2. CASE copy[thread[t].r] # "none"
  <2>1. (copy[thread[t].r] # "none") = TRUE
    BY <1>2, Zenon
  <2> QED BY <2>1, Zenon
<1> QED BY <1>1, <1>2

\* A receipt in hand has a stage.
LEMMA StageInHand ==
  ASSUME HInv, NEW r \in ReceiptId, Written(r)
  PROVE  receipts[r].stage \in Stage
<1>1. receipts[r] \in Receipt
  BY DEF HInv, IInv, TypeOK
<1>2. receipts[r].stage \notin NoRow
  BY OneDocument, SMT DEF HInv, IInv, ReceiptsAreNumbered, Written, D
<1>3. receipts[r].stage \in Stage \cup NoRow
  BY <1>1 DEF Receipt
<1> QED BY <1>2, <1>3

\* cross_volume_transfer: what it takes hold of besides its source is the
\* destination, once that has been proven.
LEMMA cross_volume_transferHolds ==
  ASSUME HInv, NEW t \in Thread, NEW s \in Session, cross_volume_transfer(t, s)
  PROVE  HInv'
<1> DEFINE r == thread[t].r
           d == detail[r]
<1>1. /\ {"copyFailed", "copied", "prove", "droppedCopy", "publishFailed", "publishedCopy",
          "proveDestination", "dropCopy", "publish"} \subseteq HoldsSource
      /\ "fence" \in HoldsBoth
      /\ HoldsSource \cup HoldsBoth \cup {"deleted", "finish", "fail"} \subseteq AtWork
      /\ {"finish", "fail", "fence"} \cap HoldsSource = {}
      /\ {"finish", "fail", "fence", "prove", "publish", "proveDestination"} \cap HoldsDestination = {}
      /\ {"finish", "fail", "prove", "publish", "proveDestination"} \cap HoldsBoth = {}
      /\ {"planned", "copied", "verified", "published", "complete"} \subseteq Stage
      /\ "OTHER" \in ErrorCode
  BY DEF AtWork, HoldsSource, HoldsBoth, HoldsDestination, Stage, Terminal, Unfinished, ErrorCode
<1>2. copy \in [ReceiptId -> Copy]
  BY DEF HInv, Types
<1>3. CASE copy_new_locked(t) \/ temp_failure(t, s)
  BY <1>3, TemporaryHolds
<1>4. CASE publish(t)
  BY <1>4, publishHolds
<1>5. CASE delete_source(t, s, "fence", "delete", "deleted")
  BY <1>5, delete_sourceHolds
<1>6. CASE /\ At(t, "copyFailed")
           /\ Write(t, s, "planned", "planned", copy[r] # "none", FALSE, "fail")
           /\ UNCHANGED <<disk, copy, approved, others>>
  <2>1. \/ Write(t, s, "planned", "planned", TRUE, FALSE, "fail")
        \/ Write(t, s, "planned", "planned", FALSE, FALSE, "fail")
    BY <1>6, TemporaryColumn, Zenon
  <2>2. thread[t].pc = "copyFailed" /\ UNCHANGED <<disk, copy, approved, others>>
    BY <1>6 DEF At
  <2> QED BY <1>1, <2>1, <2>2, WriteHolds
<1>7. CASE /\ At(t, "copied")
           /\ Write(t, s, "planned", "copied", TRUE, FALSE, "prove")
           /\ UNCHANGED <<disk, copy, approved, others>>
  BY <1>1, <1>7, WriteHolds DEF At
<1>8. CASE /\ At(t, "prove")
           /\ Write(t, s, "copied", "verified", TRUE, FALSE, "publish")
           /\ UNCHANGED <<disk, copy, approved, others>>
  BY <1>1, <1>8, WriteHolds DEF At
<1>9. CASE /\ At(t, "prove")
           /\ Goto(t, "dropCopy") /\ Fault
           /\ UNCHANGED <<storeVars, disk, copy, detail, approved, others>>
  BY <1>1, <1>2, <1>9, FailHolds DEF At
<1>10. CASE /\ At(t, "droppedCopy")
            /\ Write(t, s, receipts[r].stage, receipts[r].stage, copy[r] # "none", FALSE, "fail")
            /\ UNCHANGED <<disk, copy, approved, others>>
  <2>1. \/ Write(t, s, receipts[r].stage, receipts[r].stage, TRUE, FALSE, "fail")
        \/ Write(t, s, receipts[r].stage, receipts[r].stage, FALSE, FALSE, "fail")
    BY <1>10, TemporaryColumn, Zenon
  <2>2. thread[t].pc = "droppedCopy" /\ UNCHANGED <<disk, copy, approved, others>>
    BY <1>10 DEF At
  <2>3. receipts[r].stage \in Stage
    BY <1>1, <2>2, PathsInHand, StageInHand
  <2> QED BY <1>1, <2>1, <2>2, <2>3, WriteHolds
<1>11. CASE /\ At(t, "publishFailed")
            /\ Write(t, s, "verified", "verified", copy[r] # "none", FALSE, "fail")
            /\ UNCHANGED <<disk, copy, approved, others>>
  <2>1. \/ Write(t, s, "verified", "verified", TRUE, FALSE, "fail")
        \/ Write(t, s, "verified", "verified", FALSE, FALSE, "fail")
    BY <1>11, TemporaryColumn, Zenon
  <2>2. thread[t].pc = "publishFailed" /\ UNCHANGED <<disk, copy, approved, others>>
    BY <1>11 DEF At
  <2> QED BY <1>1, <2>1, <2>2, WriteHolds
<1>12. CASE /\ At(t, "publishedCopy")
            /\ Write(t, s, "verified", "published", FALSE, FALSE, "proveDestination")
            /\ UNCHANGED <<disk, copy, approved, others>>
  BY <1>1, <1>12, WriteHolds DEF At
<1>13. CASE /\ At(t, "proveDestination")
            /\ disk[d.dst] = "doc" /\ ~ Locked(d.dst)
            /\ Write(t, s, "published", "published", FALSE, FALSE, "fence")
            /\ UNCHANGED <<disk, copy, approved, others>>
  BY <1>1, <1>13, WriteHolds DEF At
<1>14. CASE /\ At(t, "proveDestination")
            /\ disk[d.dst] \notin {"none", "doc"} /\ ~ Locked(d.dst)
            /\ Write(t, s, "published", "published", FALSE, TRUE, "fail")
            /\ UNCHANGED <<disk, copy, approved, others>>
  BY <1>1, <1>14, WriteHolds DEF At
<1>15. CASE /\ At(t, "proveDestination")
            /\ Fails(Exists(d.dst) /\ ~ Locked(d.dst))
            /\ FailWith(t, "OTHER")
            /\ UNCHANGED <<storeVars, disk, copy, detail, approved, others>>
  BY <1>1, <1>2, <1>15, FailHolds DEF At, FailWith
<1>16. CASE /\ At(t, "deleted")
            /\ Write(t, s, "published", "complete", FALSE, FALSE, "finish")
            /\ UNCHANGED <<disk, copy, approved, others>>
  BY <1>1, <1>16, WriteHolds DEF At
<1> QED
  BY <1>3, <1>4, <1>5, <1>6, <1>7, <1>8, <1>9, <1>10, <1>11, <1>12, <1>13, <1>14, <1>15, <1>16
     DEF cross_volume_transfer

\* A step after which the thread has nothing in hand, and that leaves the
\* files alone.
LEMMA LeaveHolds ==
  ASSUME HInv, IInv', ReceiptsStand, NEW t \in Thread, thread' \in [Thread -> State],
         \A u \in Thread \ {t} : thread'[u] = thread[u],
         thread'[t].pc \notin AtWork,
         thread'[t].pc \in {"begin", "plan"} => thread'[t].job \in Direction,
         UNCHANGED <<disk, copy, detail, others>>, approved' \in BOOLEAN, faults' \in Nat
  PROVE  HInv'
<1>1. JournalStands
  BY DEF JournalStands, ReceiptsStand
<1>2. Types'
  BY DEF HInv, Types
<1>3. Held(t)' = {}
  BY DEF Held, AtWork, HoldsSource, HoldsBoth, HoldsDestination
<1>4. DocumentIsKept'
  BY DEF HInv, DocumentIsKept
<1> QED BY <1>1, <1>2, <1>3, <1>4, ThreadStep

\* Where a thread goes after a reconciliation or a failure, and when it stops.
LEMMA Leaving ==
  ASSUME thread \in [Thread -> State], NEW t \in Thread
  PROVE  /\ Reconciled(t, TRUE) => \E pc \in {"review", "report"} : Turned(t, pc)
         /\ Reconciled(t, FALSE) => \E pc \in {"claim", "review", "report"} : Turned(t, pc)
         /\ GaveUp(t) => \E pc \in {"examine", "report"} : Turned(t, pc)
         /\ Stop(t) => /\ thread' \in [Thread -> State]
                       /\ \A u \in Thread \ {t} : thread'[u] = thread[u]
                       /\ thread'[t] = Idle
<1>1. {"claim", "review", "report", "examine"} \subseteq Point /\ "none" \in ErrorCode
  BY DEF Point, OperationStep, ReconcileStep, ErrorCode
<1>2. \A pc \in {"claim", "review", "report", "examine"} : Goto(t, pc) => Turned(t, pc)
  BY <1>1, Turning
<1>3. ASSUME Reconciled(t, TRUE) PROVE \E pc \in {"review", "report"} : Turned(t, pc)
  <2>1. Goto(t, "review") \/ Goto(t, "report")
    BY <1>3 DEF Reconciled
  <2> QED BY <1>2, <2>1
<1>4. ASSUME Reconciled(t, FALSE) PROVE \E pc \in {"claim", "review", "report"} : Turned(t, pc)
  <2>1. Goto(t, "review") \/ Goto(t, "report") \/ Goto(t, "claim")
    BY <1>4 DEF Reconciled
  <2> QED BY <1>2, <2>1
<1>5. ASSUME GaveUp(t) PROVE \E pc \in {"examine", "report"} : Turned(t, pc)
  <2>1. Goto(t, "examine") \/ Goto(t, "report")
    BY <1>5 DEF GaveUp
  <2> QED BY <1>2, <2>1
<1>6. ASSUME Stop(t)
      PROVE  /\ thread' \in [Thread -> State]
             /\ \A u \in Thread \ {t} : thread'[u] = thread[u]
             /\ thread'[t] = Idle
  <2>1. Idle \in State
    BY DEF Idle, State, Point, Job, ErrorCode
  <2> QED BY <1>6, <2>1 DEF Stop
<1> QED BY <1>3, <1>4, <1>5, <1>6

\* A thread that goes to report, to review, to examine again or to claim.
LEMMA TurnAwayHolds ==
  ASSUME HInv, IInv', ReceiptsStand, NEW t \in Thread,
         NEW pc \in {"idle", "claim", "review", "report", "examine"}, Turned(t, pc),
         UNCHANGED <<disk, copy, detail, others>>, approved' \in BOOLEAN, faults' \in Nat
  PROVE  HInv'
<1>1. pc \notin AtWork /\ pc \notin {"begin", "plan"}
  BY Points
<1> QED BY <1>1, LeaveHolds DEF Turned

\* A thread that stops.
LEMMA StopHolds ==
  ASSUME HInv, IInv', ReceiptsStand, NEW t \in Thread, Stop(t),
         UNCHANGED <<disk, copy, detail, others>>, approved' \in BOOLEAN, faults' \in Nat
  PROVE  HInv'
<1>1. Idle.pc = "idle" /\ "idle" \notin AtWork /\ "idle" \notin {"begin", "plan"}
  BY Points DEF Idle
<1> QED BY <1>1, Leaving, LeaveHolds DEF HInv, Types

\* A thread's error code and the stage it has seen are of their types.
LEMMA StateTypes ==
  ASSUME HInv, NEW t \in Thread
  PROVE  /\ thread \in [Thread -> State] /\ thread[t].err \in ErrorCode
         /\ thread[t].job \in Job /\ approved \in BOOLEAN /\ faults \in Nat
         /\ copy \in [ReceiptId -> Copy] /\ disk \in [Place -> Content]
         /\ detail \in [ReceiptId -> Detail] /\ IInv
<1>1. thread[t] \in State
  BY DEF HInv, Types
<1> QED BY <1>1 DEF State, HInv, Types

\* resolve settles the row, or leaves it.
LEMMA resolveHolds ==
  ASSUME HInv, NEW t \in Thread, NEW s \in Session, resolve(t, s)
  PROVE  HInv'
<1> DEFINE r == thread[t].r
           seen == thread[t].seen
<1>1. r \in ReceiptId
  BY PathsInHand DEF resolve, At, AtWork, HoldsSource, HoldsDestination
<1>2. IInv' /\ ReceiptsStand
  <2>1. CASE resolve_reconciled_rollback(s, D, r, seen) \/ resolve_verified_operation(s, D, r, seen)
    BY <1>1, <2>1, Statements, StateTypes DEF Stage, Terminal
  <2>2. CASE UNCHANGED storeVars
    BY <2>2, NextIInv, StateTypes DEF ReceiptsStand, storeVars
  <2> QED BY <2>1, <2>2 DEF resolve
<1>3. \E pc \in {"claim", "review", "report"} : Turned(t, pc)
  <2>1. Reconciled(t, TRUE) \/ Reconciled(t, FALSE)
    BY DEF resolve
  <2> QED BY <2>1, Leaving, StateTypes
<1>4. faults' \in Nat
  <2>1. \/ Fails(Journaled(s, r, seen) /\ (At(t, "rollBack") \/ seen # "rollback_required"))
        \/ NoFault
    BY DEF resolve
  <2> QED BY <2>1, FaultTypes, StateTypes
<1>5. UNCHANGED <<disk, copy, detail, approved, others>>
  BY DEF resolve
<1> QED BY <1>2, <1>3, <1>4, <1>5, TurnAwayHolds, StateTypes

\* park_unsettled leaves the row to a person, or the row has moved.
LEMMA park_unsettledHolds ==
  ASSUME HInv, NEW t \in Thread, NEW s \in Session, park_unsettled(t, s)
  PROVE  HInv'
<1> DEFINE r == thread[t].r
<1>1. r \in ReceiptId
  BY PathsInHand DEF park_unsettled, At, AtWork
<1>2. IInv' /\ ReceiptsStand
  <2>1. CASE park_applying_for_review(s, D, r, thread[t].err)
    BY <1>1, <2>1, Statements, StateTypes DEF Stage, Terminal
  <2>2. CASE UNCHANGED storeVars
    BY <2>2, NextIInv, StateTypes DEF ReceiptsStand, storeVars
  <2> QED BY <2>1, <2>2 DEF park_unsettled
<1>3. \E pc \in {"claim", "review", "report"} : Turned(t, pc)
  BY Leaving, StateTypes DEF park_unsettled
<1>4. faults' \in Nat
  <2>1. Fails(OwnsApplying(s, D) /\ items[D].active = r) \/ NoFault
    BY DEF park_unsettled
  <2> QED BY <2>1, FaultTypes, StateTypes
<1>5. UNCHANGED <<disk, copy, detail, approved, others>>
  BY DEF park_unsettled
<1> QED BY <1>2, <1>3, <1>4, <1>5, TurnAwayHolds, StateTypes

\* reconciliation_error notes the failure, or the row was taken.
LEMMA reconciliation_errorHolds ==
  ASSUME HInv, NEW t \in Thread, NEW s \in Session, reconciliation_error(t, s)
  PROVE  HInv'
<1> DEFINE r == thread[t].r
           deferred == thread[t].err = "SOURCE_DELETE_FAILED" /\ receipts[r].dir = "apply"
<1>1. r \in ReceiptId
  BY PathsInHand DEF reconciliation_error, At, AtWork
<1>2. IInv' /\ ReceiptsStand
  <2>1. CASE defer_published_reconciliation(s, D, r) \/ record_applying_rollback(s, D, r, thread[t].err)
    BY <1>1, <2>1, Statements, StateTypes DEF Stage, Terminal
  <2>2. CASE UNCHANGED storeVars
    BY <2>2, NextIInv, StateTypes DEF ReceiptsStand, storeVars
  <2> QED BY <2>1, <2>2 DEF reconciliation_error
<1>3. \E pc \in {"examine", "report"} : Turned(t, pc)
  BY Leaving, StateTypes DEF reconciliation_error
<1>4. faults' \in Nat
  <2>1. \/ Fails(IF deferred THEN Journaled(s, r, "published")
                             ELSE OwnsApplying(s, D) /\ items[D].active = r)
        \/ NoFault
    BY DEF reconciliation_error
  <2> QED BY <2>1, FaultTypes, StateTypes
<1>5. UNCHANGED <<disk, copy, detail, approved, others>>
  BY DEF reconciliation_error
<1> QED BY <1>2, <1>3, <1>4, <1>5, TurnAwayHolds, StateTypes

\* complete_apply and complete_undo, or the row was taken.
LEMMA finishHolds ==
  ASSUME HInv, NEW t \in Thread, NEW s \in Session, finish(t, s)
  PROVE  HInv'
<1> DEFINE r == thread[t].r
<1>1. r \in ReceiptId
  BY PathsInHand DEF finish, At, AtWork
<1>2. IInv' /\ ReceiptsStand
  <2>1. CASE finish_applying(s, D, r, receipts[r].dir)
    BY <1>1, <2>1, Statements, StateTypes DEF Stage, Terminal
  <2>2. CASE UNCHANGED storeVars
    BY <2>2, NextIInv, StateTypes DEF ReceiptsStand, storeVars
  <2> QED BY <2>1, <2>2 DEF finish
<1>3. \E pc \in {"examine", "report"} : Turned(t, pc)
  <2>1. Goto(t, "report") \/ GaveUp(t)
    BY DEF finish
  <2> QED BY <2>1, Leaving, Turning, Points, StateTypes
<1>4. faults' \in Nat
  <2>1. Fails(Journaled(s, r, "complete")) \/ NoFault
    BY DEF finish
  <2> QED BY <2>1, FaultTypes, StateTypes
<1>5. UNCHANGED <<disk, copy, detail, approved, others>>
  BY DEF finish
<1> QED BY <1>2, <1>3, <1>4, <1>5, TurnAwayHolds, StateTypes

\* claim takes the row over from a dead session, or there is nothing to take.
LEMMA claimHolds ==
  ASSUME HInv, NEW t \in Thread, NEW s \in Session, claim(t, s)
  PROVE  HInv'
<1>1. CASE /\ claim_applying_reconciliation(s, D)
           /\ thread' = [thread EXCEPT ![t].pc = "examine", ![t].job = "reclaimed"]
  <2>1. IInv' /\ receipts' = receipts
    BY <1>1, RowStatements, StateTypes
  <2>2. thread[t] \in State
    BY DEF HInv, Types
  <2>3. [thread[t] EXCEPT !.pc = "examine", !.job = "reclaimed"] \in State
    BY <2>2 DEF State, Point, ReconcileStep, Job
  <2>4. /\ thread' = [thread EXCEPT ![t] = [thread[t] EXCEPT !.pc = "examine", !.job = "reclaimed"]]
        /\ [thread[t] EXCEPT !.pc = "examine", !.job = "reclaimed"].pc = "examine"
    BY <1>1, <2>2 DEF State
  <2>5. /\ thread' \in [Thread -> State] /\ thread'[t].pc = "examine"
        /\ \A u \in Thread \ {t} : thread'[u] = thread[u]
    BY <2>3, <2>4 DEF HInv, Types
  <2>6. UNCHANGED <<disk, copy, detail, others>> /\ approved' \in BOOLEAN /\ faults' \in Nat
    BY StateTypes DEF claim
  <2> QED BY <2>1, <2>5, <2>6, LeaveHolds, Points DEF ReceiptsStand
<1>2. CASE Goto(t, "report") /\ UNCHANGED storeVars
  <2>1. IInv' /\ ReceiptsStand
    BY <1>2, NextIInv, StateTypes DEF ReceiptsStand, storeVars
  <2>2. Turned(t, "report")
    BY <1>2, Turning, StateTypes, Points
  <2>3. UNCHANGED <<disk, copy, detail, others>> /\ approved' \in BOOLEAN /\ faults' \in Nat
    BY StateTypes DEF claim
  <2> QED BY <2>1, <2>2, <2>3, TurnAwayHolds
<1> QED BY <1>1, <1>2 DEF claim

\* review and report_settled send a ready document to a person, or stop.
LEMMA reviewHolds ==
  ASSUME HInv, NEW t \in Thread, NEW s \in Session, review(t, s) \/ report_settled(t, s)
  PROVE  HInv'
<1>1. IInv' /\ ReceiptsStand
  <2>1. CASE mark_needs_review(s, D)
    BY <2>1, RowStatements, StateTypes DEF ReceiptsStand
  <2>2. CASE UNCHANGED storeVars
    BY <2>2, NextIInv, StateTypes DEF ReceiptsStand, storeVars
  <2> QED BY <2>1, <2>2 DEF review, report_settled
<1>2. UNCHANGED <<disk, copy, detail, others>> /\ approved' \in BOOLEAN
  BY StateTypes DEF review, report_settled
<1>3. faults' \in Nat
  <2>1. Fault \/ NoFault
    BY DEF review, report_settled, NoFault
  <2> QED BY <2>1, FaultTypes, StateTypes
<1>4. CASE Stop(t)
  BY <1>1, <1>2, <1>3, <1>4, StopHolds
<1>5. CASE Goto(t, "report")
  BY <1>1, <1>2, <1>3, <1>5, TurnAwayHolds, Turning, Points, StateTypes
<1> QED BY <1>4, <1>5 DEF review, report_settled

\* apply_if_unchanged: the operation begins, or the row is left.
LEMMA apply_if_unchangedHolds ==
  ASSUME HInv, NEW t \in Thread, NEW s \in Session, apply_if_unchanged(t, s)
  PROVE  HInv'
<1>1. IInv' /\ ReceiptsStand
  <2>1. CASE mark_needs_review(s, D) \/ begin_applying(s, D, "ready")
    BY <2>1, RowStatements, StateTypes DEF ReceiptsStand
  <2>2. CASE UNCHANGED storeVars
    BY <2>2, NextIInv, StateTypes DEF ReceiptsStand, storeVars
  <2> QED BY <2>1, <2>2 DEF apply_if_unchanged, Review
<1>2. UNCHANGED <<disk, copy, detail, others>> /\ approved' \in BOOLEAN
  BY StateTypes DEF apply_if_unchanged, Review
<1>3. faults' \in Nat
  <2>1. Fails(disk["orig"] = "doc") \/ NoFault
    BY DEF apply_if_unchanged, NoFault
  <2> QED BY <2>1, FaultTypes, StateTypes
<1>4. CASE Stop(t)
  BY <1>1, <1>2, <1>3, <1>4, StopHolds
<1>5. CASE Goto(t, "plan")
  <2>1. Turned(t, "plan") /\ "plan" \notin AtWork
    BY <1>5, Turning, Points, StateTypes
  <2>2. thread[t].job \in Direction
    BY DEF apply_if_unchanged, At, HInv, InHand
  <2> QED BY <1>1, <1>2, <1>3, <2>1, <2>2, LeaveHolds DEF Turned
<1> QED BY <1>4, <1>5 DEF apply_if_unchanged

\* A step of the store alone.
LEMMA StoreHolds ==
  ASSUME HInv, IInv', ReceiptsStand, UNCHANGED <<disk, copy, detail, thread, approved, faults>>,
         others' \in Nat
  PROVE  HInv'
<1>1. \A t \in Thread : Held(t)' = Held(t)
  BY DEF Held
<1>2. \A r \in ReceiptId : Written(r)' <=> Written(r)
  BY DEF ReceiptsStand, Written
<1>3. Types'
  BY DEF HInv, Types
<1>4. Paths' /\ InHand'
  BY <1>2 DEF HInv, Paths, InHand, ReceiptsStand
<1>5. HeldIsDocument' /\ HeldByOne' /\ DocumentIsKept'
  BY <1>1 DEF HInv, HeldIsDocument, HeldByOne, DocumentIsKept
<1> QED BY <1>3, <1>4, <1>5 DEF HInv

\* A thread takes work up with nothing in hand.
LEMMA BeginHolds ==
  ASSUME HInv, IInv', ReceiptsStand, NEW t \in Thread,
         NEW job \in Job, NEW pc \in {"begin", "plan", "examine"}, Begin(t, job, pc),
         pc \in {"begin", "plan"} => job \in Direction,
         UNCHANGED <<disk, copy, detail, faults, others>>, approved' \in BOOLEAN
  PROVE  HInv'
<1>1. pc \in Point /\ pc \notin AtWork
  BY Points
<1>2. Idle \in State
  BY DEF Idle, State, Point, Job, ErrorCode
<1>3. /\ [Idle EXCEPT !.job = job, !.pc = pc] \in State
      /\ [Idle EXCEPT !.job = job, !.pc = pc].pc = pc
      /\ [Idle EXCEPT !.job = job, !.pc = pc].job = job
  BY <1>1, <1>2 DEF State
<1>4. /\ thread' \in [Thread -> State]
      /\ \A u \in Thread \ {t} : thread'[u] = thread[u]
      /\ thread'[t].pc = pc /\ thread'[t].job = job
  BY <1>3, StateTypes DEF Begin
<1>5. faults' \in Nat
  BY StateTypes
<1> QED BY <1>1, <1>4, <1>5, LeaveHolds

\* A thread takes up work: approve, undo, retry, apply_pending_ready and
\* recover; keep_original is done at once.
LEMMA TakeUpHolds ==
  ASSUME HInv, NEW t \in Thread, NEW s \in Session, TakeUp(t, s) \/ recover(t, s)
  PROVE  HInv'
<1>1. {"apply", "undo", "retry", "recover"} \subseteq Job /\ {"apply", "undo"} = Direction
  BY DEF Job, Direction
<1>2. approved \in BOOLEAN /\ TRUE \in BOOLEAN /\ IInv /\ others \in Nat
  BY DEF HInv, Types
<1>3. CASE approve(t, s)
  <2>1. IInv' /\ ReceiptsStand
    BY <1>2, <1>3, RowStatements DEF approve, ReceiptsStand
  <2> QED BY <1>1, <1>2, <1>3, <2>1, BeginHolds DEF approve
<1>4. CASE undo(t, s)
  <2>1. IInv' /\ ReceiptsStand
    BY <1>2, <1>4, RowStatements DEF undo, ReceiptsStand
  <2> QED BY <1>1, <1>2, <1>4, <2>1, BeginHolds DEF undo
<1>5. CASE retry(t, s)
  <2>1. IInv' /\ ReceiptsStand
    BY <1>2, <1>5, RowStatements DEF retry, ReceiptsStand
  <2> QED BY <1>1, <1>2, <1>5, <2>1, BeginHolds DEF retry
<1>6. CASE keep_original(t, s)
  <2>1. IInv' /\ ReceiptsStand
    BY <1>2, <1>6, RowStatements DEF keep_original, ReceiptsStand
  <2> QED BY <1>2, <1>6, <2>1, StoreHolds DEF keep_original, fileVars
<1>7. CASE apply_pending_ready(t, s)
  <2>1. IInv' /\ ReceiptsStand
    BY <1>2, <1>7, NextIInv DEF apply_pending_ready, ReceiptsStand, storeVars
  <2> QED BY <1>1, <1>2, <1>7, <2>1, BeginHolds DEF apply_pending_ready
<1>8. CASE recover(t, s)
  <2>1. IInv' /\ ReceiptsStand
    BY <1>2, <1>8, NextIInv DEF recover, ReceiptsStand, storeVars
  <2> QED BY <1>1, <1>2, <1>8, <2>1, BeginHolds DEF recover
<1> QED BY <1>3, <1>4, <1>5, <1>6, <1>7, <1>8 DEF TakeUp

\* Some receipt of a set of receipts is the newest: there are finitely many.
LEMMA Greatest ==
  ASSUME NEW S \in SUBSET ReceiptId, S # {}
  PROVE  \E r \in S : \A q \in S : q <= r
<1> DEFINE Less == {p \in Nat \X Nat : p[1] < p[2]}
           T == {MaxReceipts - r : r \in S}
<1>1. IsWellFoundedOn(Less, Nat)
  BY NatLessThanWellFounded DEF OpToRel
<1>2. T \subseteq Nat /\ T # {} /\ MaxReceipts \in Nat /\ S \subseteq Nat
  <2>1. MaxReceipts \in Nat
    BY BoundsAssumption
  <2>2. \A r \in S : r \in Nat /\ MaxReceipts - r \in Nat
    BY <2>1 DEF ReceiptId
  <2> QED BY <2>1, <2>2
<1>3. PICK x \in T : \A y \in T : ~ (<<y, x>> \in Less)
  <2> HIDE DEF T, Less
  <2> QED BY <1>1, <1>2, WFMin
<1>4. PICK r \in S : x = MaxReceipts - r
  BY <1>3
<1>5. ASSUME NEW q \in S PROVE q <= r
  <2>1. MaxReceipts - q \in T /\ MaxReceipts - q \in Nat /\ MaxReceipts - r \in Nat
    BY <1>2, <1>4
  <2>2. ~ (<<MaxReceipts - q, MaxReceipts - r>> \in Less)
    BY <1>3, <1>4, <2>1
  <2> QED BY <1>2, <2>1, <2>2
<1> QED BY <1>5

\* load_receipt finds the newest receipt, and none only if there is none.
LEMMA NewestIs ==
  /\ Newest = NULL <=> \A r \in ReceiptId : ~ Written(r)
  /\ Newest # NULL => Newest \in ReceiptId /\ IsNewest(Newest, D)
  /\ \A r \in ReceiptId : IsNewest(r, D) => Newest = r
<1> DEFINE mine == {r \in ReceiptId : receipts[r].item = D}
           IsIt(r) == \A q \in mine : q <= r
<1>1. CASE mine = {}
  <2>1. Newest = NULL
    BY <1>1 DEF Newest
  <2> QED BY <1>1, <2>1 DEF Written, IsNewest
<1>2. CASE mine # {}
  <2>1. \E r \in mine : IsIt(r)
    BY <1>2, Greatest
  <2>2. Newest = CHOOSE r \in mine : IsIt(r)
    BY <1>2 DEF Newest
  <2>3. Newest \in mine /\ IsIt(Newest)
    <3> HIDE DEF mine, IsIt
    <3> QED BY <2>1, <2>2
  <2>4. Newest \in ReceiptId /\ Newest # NULL /\ Written(Newest) /\ IsNewest(Newest, D)
    BY <2>3, OneDocument DEF Written, IsNewest
  <2>5. ASSUME NEW r \in ReceiptId, IsNewest(r, D) PROVE Newest = r
    <3>1. Newest <= r /\ r <= Newest
      BY <2>4, <2>5 DEF IsNewest
    <3> QED BY <2>4, <3>1, OneDocument, SMT
  <2> QED BY <2>4, <2>5
<1> QED BY <1>1, <1>2

\* An apply goes from the document's own path to a name, an undo back.
LEMMA PlannedPaths ==
  ASSUME HInv, NEW s, NEW kind, NEW job \in Direction, Ready(s, job, kind)
  PROVE  \/ job = "apply" /\ From(job) = "orig" /\ To(job) \in Name
         \/ job = "undo" /\ From(job) \in Name /\ To(job) = "orig"
<1>1. CASE job = "apply"
  BY <1>1 DEF From, To, Destination, Name
<1>2. CASE job = "undo"
  <2>1. Newest # NULL /\ receipts[Newest].dir = "apply"
    BY <1>2 DEF Ready, Undoable
  <2>2. Newest \in ReceiptId /\ Written(Newest)
    BY <2>1, NewestIs DEF IsNewest, Written
  <2>3. detail[Newest].src = "orig" /\ detail[Newest].dst \in Name
    BY <2>1, <2>2 DEF HInv, Paths
  <2> QED BY <1>2, <2>3 DEF From, To
<1> QED BY <1>1, <1>2 DEF Direction

\* What create_receipt does to the journal.
LEMMA Creating ==
  ASSUME HInv, NEW s \in Session, NEW r \in ReceiptId, NEW job \in Direction,
         create_receipt(s, D, r, job)
  PROVE  /\ IInv' /\ ~ Written(r) /\ Written(r)'
         /\ receipts'[r].item = D /\ receipts'[r].dir = job /\ receipts'[r].stage = "planned"
         /\ \A q \in ReceiptId \ {r} : receipts'[q] = receipts[q]
<1>1. receipts' = [receipts EXCEPT ![r] = [item |-> D, dir |-> job, stage |-> "planned"]]
      /\ receipts[r].stage = "absent"
  BY DEF create_receipt, BindReceipt, NextReceiptId
<1>2. receipts \in [ReceiptId -> Receipt]
  BY DEF HInv, IInv, TypeOK
<1>3. IInv'
  BY create_receiptStep, OneDocument DEF HInv
<1>4. receipts[r].item = 0
  BY <1>1 DEF HInv, IInv, ReceiptsAreNumbered, NoRow
<1>5. ~ Written(r)
  BY <1>4, SMT DEF Written, D
<1> QED BY <1>1, <1>2, <1>3, <1>5 DEF Written

\* plan writes the receipt of an operation between two paths; across volumes
\* it keeps the source open from then on.
LEMMA planHolds ==
  ASSUME HInv, NEW t \in Thread, NEW s \in Session, plan(t, s)
  PROVE  HInv'
<1> DEFINE job == thread[t].job
<1>1. /\ thread[t].pc = "plan" /\ job \in Direction
      /\ UNCHANGED <<disk, copy, approved, others>>
  BY DEF plan, At, HInv, InHand
<1>2. ASSUME NEW kind \in Kinds, NEW r \in ReceiptId, Ready(s, job, kind),
             create_receipt(s, D, r, job),
             detail' = [detail EXCEPT ![r] = [kind |-> kind, src |-> From(job), dst |-> To(job),
                                              temp |-> FALSE, differs |-> FALSE]],
             thread' = [thread EXCEPT ![t].r = r, ![t].pc = kind], NoFault
      PROVE  HInv'
  <2>1. /\ IInv' /\ ~ Written(r) /\ Written(r)'
        /\ receipts'[r].dir = job
        /\ \A q \in ReceiptId \ {r} : receipts'[q] = receipts[q]
    BY <1>1, <1>2, Creating
  <2>2. kind \in {"rename", "copy"}
    BY FileAssumption
  <2>3. \/ job = "apply" /\ From(job) = "orig" /\ To(job) \in Name
        \/ job = "undo" /\ From(job) \in Name /\ To(job) = "orig"
    BY <1>1, <1>2, PlannedPaths
  <2>4. [kind |-> kind, src |-> From(job), dst |-> To(job), temp |-> FALSE, differs |-> FALSE] \in Detail
    BY <2>2, <2>3 DEF Detail, Place
  <2>5. /\ detail' \in [ReceiptId -> Detail]
        /\ detail'[r].kind = kind /\ detail'[r].src = From(job) /\ detail'[r].dst = To(job)
        /\ \A q \in ReceiptId \ {r} : detail'[q] = detail[q]
    BY <1>2, <2>4, StateTypes
  <2>6. thread[t] \in State
    BY DEF HInv, Types
  <2>7. [thread[t] EXCEPT !.r = r, !.pc = kind] \in State
    BY <2>2, <2>6 DEF State, Point, OperationStep
  <2>8. /\ [thread[t] EXCEPT !.r = r, !.pc = kind].r = r
        /\ [thread[t] EXCEPT !.r = r, !.pc = kind].pc = kind
    BY <2>6 DEF State
  <2>9. /\ thread' \in [Thread -> State] /\ thread'[t].r = r /\ thread'[t].pc = kind
        /\ \A u \in Thread \ {t} : thread'[u] = thread[u]
    BY <1>2, <2>7, <2>8, StateTypes
  <2>10. Types'
    BY <1>1, <1>2, <2>5, <2>9 DEF HInv, Types, NoFault
  <2>11. Paths'
    BY <2>1, <2>3, <2>5 DEF HInv, Paths, Written
  <2>12. InHand'
    <3>1. \A q \in ReceiptId : Written(q) => Written(q)'
      BY <2>1 DEF Written
    <3>2. kind \notin {"begin", "plan"}
      BY <2>2
    <3> QED BY <2>1, <2>9, <3>1, <3>2 DEF HInv, InHand
  <2>13. ASSUME NEW u \in Thread \ {t} PROVE Held(u)' = Held(u)
    <3>1. CASE thread[u].pc \in AtWork
      <4>1. thread[u].r \in ReceiptId \ {r}
        BY <2>1, <3>1 DEF HInv, InHand
      <4> QED BY <2>5, <2>9, <4>1 DEF Held
    <3>2. CASE thread[u].pc \notin AtWork
      <4>1. thread[u].pc \notin HoldsSource \cup HoldsBoth \cup HoldsDestination
        BY <3>2 DEF AtWork
      <4> QED BY <2>9, <4>1 DEF Held, HoldsSource, HoldsBoth, HoldsDestination
    <3> QED BY <3>1, <3>2
  <2>14. \A p \in Held(t)' : disk[p] = "doc" /\ ~ Locked(p)
    <3>1. kind = "rename" => Held(t)' = {}
      BY <2>9 DEF Held
    <3>2. kind = "copy" => Held(t)' = {From(job)}
      BY <2>5, <2>9 DEF Held
    <3>3. disk[From(job)] = "doc" /\ (kind = "copy" => ~ Locked(From(job)))
      BY <1>2 DEF Ready
    <3> QED BY <2>2, <3>1, <3>2, <3>3
  <2>15. HeldIsDocument'
    BY <1>1, <2>13, <2>14 DEF HInv, HeldIsDocument
  <2>16. HeldByOne'
    BY <2>13, <2>14 DEF HInv, HeldByOne, Locked
  <2>17. DocumentIsKept'
    BY <1>1 DEF HInv, DocumentIsKept
  <2> QED BY <2>1, <2>10, <2>11, <2>12, <2>15, <2>16, <2>17 DEF HInv
<1>3. ASSUME NEW possible, Fails(possible), Goto(t, "examine"), UNCHANGED <<storeVars, detail>>
      PROVE  HInv'
  <2>1. Turned(t, "examine")
    BY <1>3, Turning, Points, StateTypes
  <2>2. IInv' /\ ReceiptsStand
    BY <1>3, NextIInv, StateTypes DEF ReceiptsStand, storeVars
  <2>3. faults' \in Nat /\ approved' \in BOOLEAN
    BY <1>1, <1>3, FaultTypes, StateTypes
  <2> QED BY <1>1, <1>3, <2>1, <2>2, <2>3, TurnAwayHolds
<1> QED BY <1>2, <1>3 DEF plan

\* Where a verdict leads, and what was proven of the files for it.
LEMMA VerdictIs ==
  ASSUME NEW r \in ReceiptId, NEW verdict \in {Verdict(r)} \cup Spoilt(Verdict(r))
  PROVE  /\ verdict.pc \in {"cleanUp", "confirm", "catchUp", "refence", "park"}
         /\ verdict.err \in ErrorCode
         /\ verdict.pc = "cleanUp" => SourceIsIntact(detail[r])
         /\ verdict.pc \in {"confirm", "refence", "catchUp"} => DestinationIsIntact(detail[r])
         /\ verdict.pc = "refence" => SourceIsIntact(detail[r])
<1> DEFINE Good(v) ==
             /\ v.pc \in {"cleanUp", "confirm", "catchUp", "refence", "park"}
             /\ v.err \in ErrorCode
             /\ v.pc = "cleanUp" => SourceIsIntact(detail[r])
             /\ v.pc \in {"confirm", "refence", "catchUp"} => DestinationIsIntact(detail[r])
             /\ v.pc = "refence" => SourceIsIntact(detail[r])
<1>1. {"OTHER", "SOURCE_DELETE_FAILED", "RECONCILIATION_REQUIRED", "none"} \subseteq ErrorCode
  BY DEF ErrorCode
<1>2. \A e \in {"OTHER", "SOURCE_DELETE_FAILED", "RECONCILIATION_REQUIRED"} : Good(Park(e))
  BY <1>1 DEF Park
<1>3. SourceIsIntact(detail[r]) => Good(To_("cleanUp"))
  BY <1>1 DEF To_
<1>4. DestinationIsIntact(detail[r]) => Good(To_("confirm")) /\ Good(To_("catchUp"))
  BY <1>1 DEF To_
<1>5. SourceIsIntact(detail[r]) /\ DestinationIsIntact(detail[r]) => Good(To_("refence"))
  BY <1>1 DEF To_
<1>6. Good(reconcile_rolled_back(detail[r])) /\ Good(reconcile_complete(detail[r]))
  <2> HIDE DEF Good
  <2> QED BY <1>2, <1>3, <1>4 DEF reconcile_rolled_back, reconcile_complete, BackIf, DoneIf
<1>7. Good(reconcile_published(detail[r]))
  <2>1. ~ Locked(detail[r].src) /\ disk[detail[r].src] = "doc" => SourceIsIntact(detail[r])
    BY DEF SourceIsIntact
  <2> HIDE DEF Good
  <2> QED BY <1>2, <1>4, <1>5, <2>1 DEF reconcile_published
<1>8. Good(reconcile_incomplete(detail[r], receipts[r].stage, copy[r]))
  <2> HIDE DEF Good
  <2> QED BY <1>2, <1>3, <1>4 DEF reconcile_incomplete, BackIf, DoneIf
<1>9. Good(Verdict(r))
  <2> HIDE DEF Good
  <2> QED BY <1>6, <1>7, <1>8 DEF Verdict
<1>10. verdict = Verdict(r) \/ verdict \in {Park("OTHER"), Park("SOURCE_DELETE_FAILED")}
  BY DEF Spoilt
<1>11. Good(verdict)
  <2> HIDE DEF Good
  <2> QED BY <1>2, <1>9, <1>10
<1> QED BY <1>11

\* The receipt a row points at is the newest of the document.
LEMMA ActiveIs ==
  ASSUME IInv, items[D].active # NULL
  PROVE  /\ items[D].active \in ReceiptId /\ IsNewest(items[D].active, D)
         /\ Written(items[D].active) /\ items[D].status = "applying"
<1>1. D \in Item /\ items[D] \in Row
  BY OneDocument DEF IInv, TypeOK
<1>2. items[D].active \in ReceiptId
  BY <1>1 DEF Row
<1>3. items[D].status = "applying" /\ IsNewest(items[D].active, D)
  BY <1>1 DEF IInv, ActiveReceiptIsTheOperation
<1> QED BY <1>2, <1>3 DEF IsNewest, Written

\* examine takes hold of the file it has proven, for what it proved of it.
LEMMA examineHolds ==
  ASSUME HInv, NEW t \in Thread, NEW s \in Session, examine(t, s)
  PROVE  HInv'
<1> DEFINE r == items[D].active
           d == detail[r]
<1>1. At(t, "examine") /\ UNCHANGED <<disk, copy, detail, approved, others>>
  BY DEF examine
<1>2. ASSUME resolve_empty_applying(s, D), Reconciled(t, TRUE), NoFault PROVE HInv'
  <2>1. IInv' /\ ReceiptsStand
    BY <1>2, RowStatements, StateTypes DEF ReceiptsStand
  <2>2. PICK pc \in {"review", "report"} : Turned(t, pc)
    BY <1>2, Leaving, StateTypes
  <2>3. faults' \in Nat /\ approved' \in BOOLEAN
    BY <1>1, <1>2, StateTypes DEF NoFault
  <2> QED BY <1>1, <2>1, <2>2, <2>3, TurnAwayHolds
<1>3. ASSUME NEW possible, Fails(possible), Reconciled(t, FALSE), UNCHANGED storeVars PROVE HInv'
  <2>1. IInv' /\ ReceiptsStand
    BY <1>3, NextIInv, StateTypes DEF ReceiptsStand, storeVars
  <2>2. PICK pc \in {"claim", "review", "report"} : Turned(t, pc)
    BY <1>3, Leaving, StateTypes
  <2>3. faults' \in Nat /\ approved' \in BOOLEAN
    BY <1>1, <1>3, FaultTypes, StateTypes
  <2> QED BY <1>1, <2>1, <2>2, <2>3, TurnAwayHolds
<1>4. ASSUME r # NULL, NEW verdict \in {Verdict(r)} \cup Spoilt(Verdict(r)),
             thread' = [thread EXCEPT ![t].pc = verdict.pc, ![t].err = verdict.err,
                                      ![t].r = r, ![t].seen = receipts[r].stage],
             Fault \/ NoFault, UNCHANGED storeVars
      PROVE  HInv'
  <2>1. r \in ReceiptId /\ Written(r)
    BY <1>4, ActiveIs, StateTypes
  <2>2. /\ verdict.pc \in {"cleanUp", "confirm", "catchUp", "refence", "park"}
        /\ verdict.err \in ErrorCode
        /\ verdict.pc = "cleanUp" => SourceIsIntact(d)
        /\ verdict.pc \in {"confirm", "refence", "catchUp"} => DestinationIsIntact(d)
        /\ verdict.pc = "refence" => SourceIsIntact(d)
    BY <1>4, <2>1, VerdictIs
  <2>3. receipts[r].stage \in Stage \cup {"none"}
    BY <2>1, StageInHand
  <2>4. thread[t] \in State
    BY DEF HInv, Types
  <2>5. verdict.pc \in Point
    BY <2>2, Points DEF Point, ReconcileStep
  <2> DEFINE stage == receipts[r].stage
             pc == verdict.pc
             e == verdict.err
             next == [thread[t] EXCEPT !.pc = pc, !.err = e, !.r = r, !.seen = stage]
  <2>6. next \in State /\ next.pc = pc /\ next.r = r
    <3>1. pc \in Point /\ e \in ErrorCode /\ r \in ReceiptId \cup {NULL} /\ stage \in Stage \cup {"none"}
      BY <2>1, <2>2, <2>3, <2>5
    <3> HIDE DEF pc, e, stage, r
    <3> QED BY <2>4, <3>1 DEF State
  <2>7. thread' = [thread EXCEPT ![t] = next]
    BY <1>4
  <2>8. /\ thread' \in [Thread -> State] /\ thread'[t].pc = pc /\ thread'[t].r = r
        /\ \A u \in Thread \ {t} : thread'[u] = thread[u]
    <3> HIDE DEF next
    <3> QED BY <2>6, <2>7, StateTypes
  <2>9. IInv' /\ JournalStands
    BY <1>1, <1>4, NextIInv, StateTypes DEF JournalStands, storeVars
  <2>10. faults' \in Nat
    BY <1>4, FaultTypes, StateTypes
  <2>11. Types'
    BY <1>1, <2>8, <2>10 DEF HInv, Types
  <2>12. \A p \in Held(t)' : disk[p] = "doc" /\ ~ Locked(p)
    <3>1. /\ pc = "cleanUp" => Held(t)' = {d.src}
          /\ pc = "confirm" => Held(t)' = {d.dst}
          /\ pc = "refence" => Held(t)' = {d.src, d.dst}
          /\ pc \in {"catchUp", "park"} => Held(t)' = {}
      BY <1>1, <2>8 DEF Held
    <3> QED BY <2>2, <3>1 DEF SourceIsIntact, DestinationIsIntact
  <2>13. DocumentIsKept'
    BY <1>1 DEF HInv, DocumentIsKept
  <2>14. pc \notin {"begin", "plan"}
    BY <2>2
  <2> HIDE DEF r, pc
  <2> QED BY <1>1, <2>1, <2>8, <2>9, <2>11, <2>12, <2>13, <2>14, ThreadStep
<1>5. CASE r = NULL
  BY <1>2, <1>3, <1>5 DEF examine
<1>6. CASE r # NULL
  <2>1. PICK verdict \in {Verdict(r)} \cup Spoilt(Verdict(r)) :
             /\ thread' = [thread EXCEPT ![t].pc = verdict.pc, ![t].err = verdict.err,
                                         ![t].r = r, ![t].seen = receipts[r].stage]
             /\ IF verdict = Verdict(r) THEN NoFault ELSE Fault
    BY <1>6 DEF examine
  <2>2. Fault \/ NoFault
    BY <2>1
  <2>3. UNCHANGED storeVars
    BY <1>6 DEF examine
  <2> QED BY <1>4, <1>6, <2>1, <2>2, <2>3
<1> QED BY <1>5, <1>6

\* cleanup_reconciled_temporary keeps the source open and touches only the
\* temporary.
LEMMA cleanupHolds ==
  ASSUME HInv, NEW t \in Thread, NEW s \in Session, cleanup_reconciled_temporary(t, s)
  PROVE  HInv'
<1> DEFINE r == thread[t].r
           seen == thread[t].seen
<1>1. /\ thread[t].pc = "cleanUp" /\ thread[t].pc \in AtWork /\ thread[t].pc \in HoldsSource
      /\ UNCHANGED <<disk, detail, approved, others>>
  BY DEF cleanup_reconciled_temporary, At, AtWork, HoldsSource
<1>2. r \in ReceiptId
  BY <1>1, PathsInHand
<1>3. "rollBack" \in Point \cap HoldsSource /\ "park" \in Point \ HoldsSource
      /\ {"rollBack", "park"} \cap (HoldsBoth \cup HoldsDestination \cup {"begin", "plan"}) = {}
      /\ {"OTHER", "SOURCE_DELETE_FAILED"} \subseteq ErrorCode
  BY DEF Point, OperationStep, ReconcileStep, HoldsSource, HoldsBoth, HoldsDestination, ErrorCode
<1>4. IInv' /\ ReceiptsStand
  <2>1. CASE renew_operation_lease(s, D, r, seen)
    BY <1>2, <2>1, Statements, StateTypes DEF Stage, Terminal
  <2>2. CASE UNCHANGED storeVars
    BY <2>2, NextIInv, StateTypes DEF ReceiptsStand, storeVars
  <2> QED BY <2>1, <2>2 DEF cleanup_reconciled_temporary
<1>5. copy' \in [ReceiptId -> Copy]
  BY <1>2, StateTypes DEF cleanup_reconciled_temporary, Copy
<1>6. faults' \in Nat
  <2>1. Fault \/ NoFault \/ Fails(TemporaryIsOurs(t) /\ Journaled(s, r, seen))
    BY DEF cleanup_reconciled_temporary, NoFault
  <2> QED BY <2>1, FaultTypes, StateTypes
<1>7. Turned(t, "rollBack") \/ Turned(t, "park")
  <2>1. \/ Goto(t, "rollBack")
        \/ ParkWith(t, "OTHER")
        \/ ParkWith(t, "SOURCE_DELETE_FAILED")
    BY DEF cleanup_reconciled_temporary
  <2> QED BY <1>3, <2>1, Turning, StateTypes DEF ParkWith
<1> QED BY <1>1, <1>3, <1>4, <1>5, <1>6, <1>7, GoHolds

\* catch_up holds nothing: it writes the journal and examines again.
LEMMA catch_upHolds ==
  ASSUME HInv, NEW t \in Thread, NEW s \in Session, catch_up(t, s)
  PROVE  HInv'
<1> DEFINE r == thread[t].r
<1>1. /\ thread[t].pc \in AtWork /\ UNCHANGED <<disk, copy, approved, others>>
      /\ "published" \in Stage /\ "OTHER" \in ErrorCode
  BY DEF catch_up, At, AtWork, Stage, Unfinished, ErrorCode
<1>2. r \in ReceiptId
  BY <1>1, PathsInHand
<1>3. CASE /\ update_receipt(s, D, r, "verified", "published")
           /\ detail' = [detail EXCEPT ![r].temp = FALSE]
           /\ Goto(t, "examine")
           /\ NoFault
  <2>1. IInv' /\ ReceiptsStand
    BY <1>1, <1>2, <1>3, Statements, StateTypes
  <2>2. detail[r] \in Detail
    BY <1>2, StateTypes
  <2>3. /\ [detail[r] EXCEPT !.temp = FALSE] \in Detail
        /\ [detail[r] EXCEPT !.temp = FALSE].kind = detail[r].kind
        /\ [detail[r] EXCEPT !.temp = FALSE].src = detail[r].src
        /\ [detail[r] EXCEPT !.temp = FALSE].dst = detail[r].dst
    BY <2>2 DEF Detail
  <2>4. detail' = [detail EXCEPT ![r] = [detail[r] EXCEPT !.temp = FALSE]]
    BY <1>3
  <2>5. detail' \in [ReceiptId -> Detail] /\ JournalStands
    BY <1>2, <2>1, <2>3, <2>4, StateTypes DEF JournalStands, ReceiptsStand
  <2>6. Turned(t, "examine")
    BY <1>3, Turning, Points, StateTypes
  <2>7. Types'
    BY <1>1, <1>3, <2>5, <2>6 DEF HInv, Types, Turned, NoFault
  <2>8. Held(t)' = {} /\ thread'[t].pc \notin AtWork
    BY <2>6, Points DEF Held, Turned
  <2>9. DocumentIsKept' /\ thread'[t].pc \notin {"begin", "plan"}
        /\ \A u \in Thread \ {t} : thread'[u] = thread[u]
    BY <1>1, <2>6 DEF HInv, DocumentIsKept, Turned
  <2> QED BY <1>1, <2>1, <2>5, <2>7, <2>8, <2>9, ThreadStep
<1>4. CASE /\ Fails(Journaled(s, r, "verified"))
           /\ ParkWith(t, "OTHER")
           /\ UNCHANGED <<storeVars, detail>>
  BY <1>1, <1>4, FailHolds, StateTypes DEF ParkWith
<1> QED BY <1>3, <1>4 DEF catch_up

\* A thread's step, whatever the others are doing.
LEMMA GoOnHolds ==
  ASSUME HInv, NEW t \in Thread, NEW s \in Session, GoOn(t, s)
  PROVE  HInv'
<1>1. CASE reconcile(t, s)
  BY <1>1, examineHolds, cleanupHolds, resolveHolds, catch_upHolds, delete_sourceHolds,
     park_unsettledHolds, claimHolds
     DEF reconcile
<1> QED
  BY <1>1, apply_if_unchangedHolds, planHolds, same_volume_transferHolds,
     cross_volume_transferHolds, reconciliation_errorHolds, finishHolds, reviewHolds
     DEF GoOn

\* Sessions open and close, the process dies, and time passes.
LEMMA ProcessHolds ==
  ASSUME HInv, (\E s \in Session : Start(s) \/ Quit(s) \/ Die(s)) \/ Pass
  PROVE  HInv'
<1>1. ASSUME NEW s \in Session, Die(s) PROVE HInv'
  <2>1. IInv' /\ receipts' = receipts
    BY <1>1, CrashStep DEF Die, Crash, HInv
  <2>2. thread' = [t \in Thread |-> Idle] /\ UNCHANGED <<disk, copy, detail, approved, faults, others>>
    BY <1>1 DEF Die
  <2>3. Idle \in State /\ Idle.pc = "idle" /\ "idle" \notin AtWork
    BY Points DEF Idle, State, Point, Job, ErrorCode
  <2>4. Types'
    BY <2>2, <2>3 DEF HInv, Types
  <2>5. \A t \in Thread : Held(t)' = {}
    BY <2>2, <2>3 DEF Held
  <2>6. Paths' /\ InHand' /\ HeldIsDocument' /\ HeldByOne' /\ DocumentIsKept'
    BY <2>1, <2>2, <2>3, <2>5
       DEF HInv, Paths, InHand, Written, HeldIsDocument, HeldByOne, DocumentIsKept
  <2> QED BY <2>1, <2>4, <2>6 DEF HInv
<1>2. ASSUME UNCHANGED fileVars, IInv', receipts' = receipts PROVE HInv'
  BY <1>2, StoreHolds DEF fileVars, ReceiptsStand, HInv, Types
<1>3. ASSUME NEW s \in Session, Start(s) PROVE HInv'
  BY <1>2, <1>3, openStep DEF Start, open, HInv
<1>4. ASSUME NEW s \in Session, Quit(s) PROVE HInv'
  BY <1>2, <1>4, dropStep DEF Quit, drop, HInv
<1>5. ASSUME Pass PROVE HInv'
  BY <1>2, <1>5, TickStep DEF Pass, Tick, HInv
<1> QED BY <1>1, <1>3, <1>4, <1>5

\* Other programs write only to files that nobody holds open; a person
\* deletes a copy only while there is another.
LEMMA OthersHold ==
  ASSUME HInv, NEW p \in Place, Occupy(p) \/ Edit(p) \/ Discard(p)
  PROVE  HInv'
<1>1. /\ UNCHANGED <<storeVars, copy, detail, thread, approved, faults>>
      /\ disk \in [Place -> Content] /\ others' \in Nat
      /\ \/ disk[p] = "none" /\ disk' = [disk EXCEPT ![p] = "other"]
         \/ disk[p] = "doc" /\ ~ Locked(p) /\ disk' = [disk EXCEPT ![p] = "edited"]
         \/ /\ ~ Locked(p) /\ disk' = [disk EXCEPT ![p] = "none"]
            /\ \E q \in Place \ {p} : disk[q] \in Document
  <2>1. others' \in Nat
    BY SMT DEF HInv, Types, Occupy, Edit, Discard, Interfere
  <2> QED BY <2>1 DEF HInv, Types, Occupy, Edit, Discard, Exists
<1>2. disk' \in [Place -> Content] /\ \A q \in Place \ {p} : disk'[q] = disk[q]
  BY <1>1 DEF Content
<1>3. IInv' /\ receipts' = receipts
  BY <1>1, NextIInv, StateTypes DEF HInv, storeVars
<1>4. Types'
  BY <1>1, <1>2 DEF HInv, Types
<1>5. \A t \in Thread : Held(t)' = Held(t)
  BY <1>1 DEF Held
<1>6. \A t \in Thread : p \notin Held(t)
  BY <1>1 DEF Locked, HInv, HeldIsDocument
<1>7. HeldIsDocument' /\ HeldByOne'
  BY <1>2, <1>5, <1>6, HeldInPlace DEF HInv, HeldIsDocument, HeldByOne
<1>8. DocumentIsKept'
  <2>1. CASE disk[p] = "none" \/ \E q \in Place \ {p} : disk[q] \in Document
    <3>1. PICK q \in Place \ {p} : disk[q] \in Document
      BY <2>1 DEF HInv, DocumentIsKept, Document
    <3> QED BY <1>2, <3>1 DEF DocumentIsKept
  <2>2. CASE disk' = [disk EXCEPT ![p] = "edited"]
    BY <1>1, <2>2 DEF DocumentIsKept, Document
  <2> QED BY <1>1, <2>1, <2>2
<1>9. Paths' /\ InHand'
  BY <1>1, <1>3 DEF HInv, Paths, InHand, Written
<1> QED BY <1>3, <1>4, <1>7, <1>8, <1>9 DEF HInv

\* The document starts ready, unfiled, at its own path.
LEMMA InitHolds == FileInit => HInv
<1> SUFFICES ASSUME FileInit PROVE HInv
  OBVIOUS
<1> USE DEF FileInit
<1> DEFINE ready == [EmptyRow EXCEPT !.status = "ready"]
<1>1. EmptyRow \in Row
  BY SMT, Columns DEF EmptyRow, Row
<1>2. /\ ready \in Row /\ ready.status = "ready"
      /\ ready.owner = EmptyRow.owner /\ ready.active = EmptyRow.active
  BY <1>1, Columns DEF Row
<1>3. EmptyRow.owner = NoSession /\ EmptyRow.active = NULL
  BY DEF EmptyRow
<1>4. EmptyReceipt \in Receipt /\ EmptyReceipt.item = 0 /\ EmptyReceipt.stage = "absent"
  BY DEF EmptyReceipt, Receipt, Direction, NoRow
<1>5. \A i \in Item : items[i] = ready
  BY DEF FileInit
<1>6. \A r \in ReceiptId : receipts[r].item = 0 /\ receipts[r].stage = "absent"
  BY <1>4
<1>7. TypeOK
  <2>1. \A s \in Session : quiet[s] \in 0..LEASE_SECONDS
    BY Columns
  <2> HIDE DEF ready
  <2> QED BY <1>2, <1>4, <1>5, <2>1 DEF TypeOK
<1>8. 0 \notin Item
  BY OneDocument, SMT DEF D
<1>9. IInv
  <2> HIDE DEF FileInit, ready
  <2>1. OneDocumentAtATime /\ OwnedRowsAreActive /\ ActiveReceiptIsTheOperation
        /\ EmptyApplyingCanBeResolved /\ NoThirdAttempt
    BY <1>2, <1>3, <1>5
       DEF OneDocumentAtATime, OwnedRowsAreActive, ActiveReceiptIsTheOperation,
           EmptyApplyingCanBeResolved, NoThirdAttempt, Active, Processing
  <2>2. ReceiptsAreNumbered /\ ReceiptsHaveBegun /\ UnfinishedReceiptIsNewest
    BY <1>6, <1>8 DEF ReceiptsAreNumbered, ReceiptsHaveBegun, UnfinishedReceiptIsNewest, NoRow
  <2> QED BY <1>7, <2>1, <2>2 DEF IInv
<1>10. /\ NoDetail \in Detail
       /\ Idle \in State /\ Idle.pc = "idle" /\ "idle" \notin AtWork
  BY Points DEF NoDetail, Detail, Place, Idle, State, Point, Job, ErrorCode
<1>11. Types
  BY <1>10 DEF Types, Content, Copy
<1>12. \A t \in Thread : Held(t) = {} /\ thread[t].pc = "idle"
  BY <1>10 DEF Held
<1>13. Paths /\ InHand /\ HeldIsDocument /\ HeldByOne
  <2>1. \A r \in ReceiptId : ~ Written(r)
    BY <1>6, SMT DEF Written, D
  <2> QED BY <1>10, <1>12, <2>1 DEF Paths, InHand, HeldIsDocument, HeldByOne
<1>14. DocumentIsKept
  BY DEF DocumentIsKept, Document, Place
<1> QED BY <1>9, <1>11, <1>13, <1>14 DEF HInv

\* Every step of every thread, and of everybody else, preserves it.
LEMMA NextHolds == HInv /\ [FileNext]_vars => HInv'
<1> SUFFICES ASSUME HInv, [FileNext]_vars PROVE HInv'
  OBVIOUS
<1>1. CASE UNCHANGED vars
  <2>1. IInv' /\ ReceiptsStand
    BY <1>1, NextIInv, StateTypes DEF HInv, vars, storeVars, ReceiptsStand
  <2> QED BY <1>1, <2>1, StoreHolds DEF vars, fileVars, HInv, Types
<1>2. CASE FileNext
  BY <1>2, TakeUpHolds, GoOnHolds, ProcessHolds, OthersHold DEF FileNext, Recover
<1> QED BY <1>1, <1>2

\* Whatever the threads do at once, whatever fails and whoever dies, nothing
\* but the document is held open, and by one thread.
THEOREM HandlesInvariance == FileSpec => []HInv
  BY InitHolds, NextHolds, PTL DEF FileSpec

\* The person's document is never lost: the last step of a filing across
\* volumes deletes a source only with the published copy open in the other
\* hand, and every other step moves a file whole, to a path that is free.
THEOREM DocumentIsNeverLost == FileSpec => []DocumentIsKept
  BY HandlesInvariance, PTL DEF HInv

\* The store's promises hold of the app's one document too, although it
\* starts in the middle of its life, ready to be filed.
THEOREM FiledJournalIsSound == FileSpec => []IInv
  BY HandlesInvariance, PTL DEF HInv

-----------------------------------------------------------------------------
(* Threads are of a process that runs *)

\* No statement of a thread opens or closes a session.
LEMMA SessionsStay ==
  ASSUME NEW t \in Thread, NEW s \in Session, TakeUp(t, s) \/ GoOn(t, s) \/ Recover(t, s)
  PROVE  session' = session
<1>1. UNCHANGED storeVars => session' = session
  BY DEF storeVars
<1>2. ASSUME NEW r, NEW stage, renew_operation_lease(s, D, r, stage) PROVE session' = session
  BY <1>2 DEF renew_operation_lease
<1>3. mark_needs_review(s, D) => session' = session
  BY DEF mark_needs_review
<1>4. CASE TakeUp(t, s) \/ Recover(t, s)
  BY <1>1, <1>4
     DEF TakeUp, Recover, approve, undo, retry, keep_original, apply_pending_ready, recover,
         approve_user_edit, begin_applying, claim_deferred_reconciliation,
         complete_keep_original, cas_status
<1>5. CASE apply_if_unchanged(t, s) \/ review(t, s) \/ report_settled(t, s)
  BY <1>1, <1>3, <1>5
     DEF apply_if_unchanged, review, report_settled, Review, begin_applying
<1>6. CASE plan(t, s) \/ finish(t, s) \/ reconciliation_error(t, s)
  <2>1. plan(t, s) => session' = session
    BY <1>1, Zenon DEF plan, create_receipt, BindReceipt
  <2>2. finish(t, s) => session' = session
    BY <1>1 DEF finish, finish_applying
  <2>3. ASSUME NEW r, NEW e,
               \/ record_applying_rollback(s, D, r, e)
               \/ defer_published_reconciliation(s, D, r)
               \/ UNCHANGED storeVars
        PROVE  session' = session
    BY <1>1, <2>3 DEF record_applying_rollback, defer_published_reconciliation
  <2>4. reconciliation_error(t, s) => session' = session
    BY <2>3, Zenon DEF reconciliation_error
  <2> QED BY <1>6, <2>1, <2>2, <2>4
<1>7. ASSUME NEW expected, NEW next, NEW temp, NEW differs, NEW then,
             Write(t, s, expected, next, temp, differs, then)
      PROVE  session' = session
  BY <1>1, <1>7 DEF Write, update_receipt
<1>8. ASSUME NEW fence, NEW delete, NEW then, delete_source(t, s, fence, delete, then)
      PROVE  session' = session
  BY <1>1, <1>2, <1>8 DEF delete_source
<1>9. CASE same_volume_transfer(t, s)
  BY <1>1, <1>7, <1>9 DEF same_volume_transfer
<1>10. CASE cross_volume_transfer(t, s)
  <2>1. temp_failure(t, s) => session' = session
    BY <1>1, <1>2 DEF temp_failure
  <2>2. copy_new_locked(t) \/ publish(t) => session' = session
    BY <1>1 DEF copy_new_locked, publish
  <2> QED BY <1>1, <1>7, <1>8, <1>10, <2>1, <2>2 DEF cross_volume_transfer
<1>11. CASE reconcile(t, s)
  <2>1. examine(t, s) \/ claim(t, s) => session' = session
    BY <1>1 DEF examine, claim, resolve_empty_applying, claim_applying_reconciliation
  <2>2. cleanup_reconciled_temporary(t, s) => session' = session
    BY <1>1, <1>2 DEF cleanup_reconciled_temporary
  <2>3. resolve(t, s) \/ catch_up(t, s) \/ park_unsettled(t, s) => session' = session
    BY <1>1 DEF resolve, catch_up, park_unsettled, resolve_reconciled_rollback,
                resolve_verified_operation, update_receipt, park_applying_for_review
  <2> QED BY <1>8, <1>11, <2>1, <2>2, <2>3 DEF reconcile
<1> QED BY <1>4, <1>5, <1>6, <1>9, <1>10, <1>11 DEF GoOn

\* A thread that is not idle belongs to a process that runs.
Manned == (\E t \in Thread : ~ At(t, "idle")) => \E s \in Session : Live(s)

\* A thread works under a session that is live, and a process that ends takes
\* its threads with it.
LEMMA NextManned ==
  ASSUME HInv, Manned, [FileNext]_vars
  PROVE  Manned'
<1>1. CASE UNCHANGED vars
  BY <1>1 DEF vars, storeVars, fileVars, Manned, At, Live
<1>2. ASSUME NEW t \in Thread, NEW s \in Session,
             (Live(s) /\ TakeUp(t, s)) \/ GoOn(t, s) \/ Recover(t, s)
      PROVE  Manned'
  <2>1. Live(s)
    BY <1>2 DEF GoOn, Recover
  <2>2. session' = session
    BY <1>2, SessionsStay
  <2> QED BY <2>1, <2>2 DEF Manned, Live
<1>3. ASSUME NEW s \in Session, Start(s) PROVE Manned'
  <2>1. /\ session' = [session EXCEPT ![s] = "open"]
        /\ session \in [Session -> {"unopened", "open", "closed", "crashed"}]
    BY <1>3 DEF Start, open, HInv, IInv, TypeOK
  <2> QED BY <2>1 DEF Manned, Live
<1>4. ASSUME NEW s \in Session, Quit(s) PROVE Manned'
  <2>1. \A t \in Thread : At(t, "idle")'
    BY <1>4 DEF Quit, fileVars, At
  <2> QED BY <2>1 DEF Manned
<1>5. ASSUME NEW s \in Session, Die(s) PROVE Manned'
  <2>1. \A t \in Thread : At(t, "idle")'
    BY <1>5 DEF Die, At, Idle
  <2> QED BY <2>1 DEF Manned
<1>6. CASE Pass
  BY <1>6 DEF Pass, Tick, fileVars, Manned, At, Live
<1>7. ASSUME NEW p \in Place, Occupy(p) \/ Edit(p) \/ Discard(p) PROVE Manned'
  BY <1>7 DEF Occupy, Edit, Discard, storeVars, Manned, At, Live
<1> QED BY <1>1, <1>2, <1>3, <1>4, <1>5, <1>6, <1>7 DEF FileNext

\* Every variable keeps its type and every thread at work is of a process
\* that runs (approve, undo, retry, recover and what they call), with both
\* threads at once, whatever fails, dies or interferes.
THEOREM FilingTypes == FileSpec => []FileTypeOK
<1>1. FileInit => Manned
  BY DEF FileInit, Manned, At, Idle
<1>2. HInv /\ Manned /\ [FileNext]_vars => Manned'
  BY NextManned
<1>3. HInv /\ Manned => FileTypeOK
  BY DEF HInv, IInv, Types, Manned, FileTypeOK
<1> QED BY <1>1, <1>2, <1>3, HandlesInvariance, PTL DEF FileSpec

-----------------------------------------------------------------------------
(* One thread at a time: where the document is *)

\* The document is at p and nowhere else; at one of r's two paths, or both.
OnlyAt(p) == \A q \in Place : disk[q] \in Document <=> q = p
Between(r) == \A q \in Place : disk[q] \in Document => q \in {detail[r].src, detail[r].dst}

Unmoved(r) == OnlyAt(detail[r].src)
Moved(r) == OnlyAt(detail[r].dst)

\* What a stage of the journal says of the disk, by how the operation moves
\* the file.
RenameSays(r, stage) ==
  /\ copy[r] = "none"
  /\ stage \notin {"copied", "verified"}
  /\ stage \in {"planned", "rollback_required"} => Unmoved(r) \/ Moved(r)
  /\ stage \in {"published", "complete"} => Moved(r)
  /\ stage = "rolled_back" => Unmoved(r)

CopySays(r, stage) ==
  /\ stage # "rollback_required"
  /\ stage \in {"planned", "copied"} => Unmoved(r)
  /\ stage = "verified" => Unmoved(r) \/ (copy[r] = "none" /\ Between(r))
  /\ stage = "published" => copy[r] = "none" /\ Between(r)
  /\ stage = "complete" => copy[r] = "none" /\ Moved(r)
  /\ stage = "rolled_back" => copy[r] = "none" /\ Unmoved(r)

JournalSays(r, stage) ==
  IF detail[r].kind = "rename" THEN RenameSays(r, stage) ELSE CopySays(r, stage)

\* The newest receipt says what is so.
JournalIsSo ==
  /\ \A r \in ReceiptId : IsNewest(r, D) => JournalSays(r, receipts[r].stage)
  /\ (\A r \in ReceiptId : ~ Written(r)) => OnlyAt("orig")

\* A receipt that is not begun, or over, has no temporary copy.
NoCopyLeft == \A r \in ReceiptId : receipts[r].stage \in Terminal \cup NoRow => copy[r] = "none"

\* What a thread at each point knows besides.
Knows(pc, r, stage, seen) ==
  LET kind == detail[r].kind
  IN  /\ pc \in {"rename", "renamed"} => kind = "rename" /\ stage = "planned"
      /\ pc \in {"check", "checked"} => kind = "rename" /\ stage = "published"
      /\ pc \in {"moveBack", "movedBack"} => kind = "rename" /\ stage = "rollback_required"
      /\ pc \in {"copy", "copyFailed", "copied"} => kind = "copy" /\ stage = "planned"
      /\ pc = "prove" => kind = "copy" /\ stage = "copied"
      /\ pc \in {"dropCopy", "droppedCopy"} => kind = "copy" /\ stage \in {"copied", "verified"}
      /\ pc \in {"publish", "publishFailed", "publishedCopy", "catchUp"} =>
           kind = "copy" /\ stage = "verified"
      /\ pc \in {"proveDestination", "deleted"} \cup HoldsBoth =>
           kind = "copy" /\ stage = "published"
      /\ pc \in {"rename", "movedBack", "dropCopy", "droppedCopy", "publish", "cleanUp",
                 "rollBack"} => Unmoved(r)
      /\ pc \in {"renamed", "moveBack", "deleted", "confirm"} => Moved(r)
      /\ pc \in {"publishedCopy", "catchUp", "rollBack", "confirm"} => copy[r] = "none"
      /\ pc = "publishedCopy" => Between(r)
      /\ pc \in {"cleanUp", "rollBack"} =>
           stage \in {"planned", "copied", "verified", "rollback_required", "rolled_back"}
      /\ pc \in {"cleanUp", "rollBack", "confirm"} => stage = seen
      /\ pc \in {"refence", "deleteSource"} => seen = "published"

\* A thread at work has the newest receipt in hand.
Reached(t) ==
  /\ thread[t].pc \in AtWork => IsNewest(thread[t].r, D)
  /\ Knows(thread[t].pc, thread[t].r, receipts[thread[t].r].stage, thread[t].seen)

OneWorks == \A t, u \in Thread : ~ At(t, "idle") /\ ~ At(u, "idle") => t = u

FInv == HInv /\ OneWorks /\ JournalIsSo /\ NoCopyLeft /\ \A t \in Thread : Reached(t)

-----------------------------------------------------------------------------
(* What a step of the one thread must respect *)

\* A thread with nothing in hand need not know anything.
LEMMA NothingToKnow ==
  ASSUME NEW pc, NEW r, NEW stage, NEW seen, pc \notin AtWork
  PROVE  Knows(pc, r, stage, seen) /\ Knows(pc, r, stage, seen)'
BY DEF Knows, AtWork, HoldsSource, HoldsBoth, HoldsDestination

\* A thread that is not idle is the only one.
LEMMA IsAlone ==
  ASSUME FInv, NEW t \in Thread, ~ At(t, "idle")
  PROVE  \A u \in Thread \ {t} : At(u, "idle")
BY DEF FInv, OneWorks

\* The others, who are idle, stay so.
LEMMA AloneStep ==
  ASSUME HInv', NEW t \in Thread, \A u \in Thread \ {t} : At(u, "idle"),
         \A u \in Thread \ {t} : thread'[u] = thread[u],
         JournalIsSo', NoCopyLeft', Reached(t)'
  PROVE  FInv'
<1>1. \A u \in Thread \ {t} : thread'[u].pc = "idle"
  BY DEF At
<1>2. OneWorks'
  BY <1>1 DEF OneWorks, At
<1>3. ASSUME NEW u \in Thread PROVE Reached(u)'
  <2>1. CASE u = t
    BY <2>1
  <2>2. CASE u # t
    <3>1. thread'[u].pc = "idle" /\ "idle" \notin AtWork
      BY <1>1, <2>2, Points
    <3>2. Knows(thread[u].pc, thread[u].r, receipts[thread[u].r].stage, thread[u].seen)'
      BY <3>1 DEF Knows, HoldsBoth
    <3> QED BY <3>1, <3>2 DEF Reached
  <2> QED BY <2>1, <2>2
<1> QED BY <1>2, <1>3 DEF FInv

\* The document and the copies are where they were.
LEMMA SameFiles ==
  ASSUME JournalStands, NEW r \in ReceiptId, NEW stage, disk' = disk, copy'[r] = copy[r]
  PROVE  /\ JournalSays(r, stage)' <=> JournalSays(r, stage)
         /\ \A pc : \A seen : Knows(pc, r, stage, seen)' <=> Knows(pc, r, stage, seen)
<1>1. /\ detail'[r].kind = detail[r].kind /\ detail'[r].src = detail[r].src
      /\ detail'[r].dst = detail[r].dst
  BY DEF JournalStands
<1>2. \A p : OnlyAt(p)' <=> OnlyAt(p)
  BY DEF OnlyAt
<1>3. (Unmoved(r)' <=> Unmoved(r)) /\ (Moved(r)' <=> Moved(r)) /\ (Between(r)' <=> Between(r))
  BY <1>1, <1>2 DEF Unmoved, Moved, Between
<1>4. JournalSays(r, stage)' <=> JournalSays(r, stage)
  BY <1>1, <1>3 DEF JournalSays, RenameSays, CopySays
<1>5. ASSUME NEW pc, NEW seen PROVE Knows(pc, r, stage, seen)' <=> Knows(pc, r, stage, seen)
  BY <1>1, <1>3 DEF Knows
<1> QED BY <1>4, <1>5

\* Whether a receipt is the newest depends on the documents of receipts.
LEMMA SameNewest ==
  ASSUME JournalStands, NEW r \in ReceiptId
  PROVE  (IsNewest(r, D)' <=> IsNewest(r, D)) /\ (Written(r)' <=> Written(r))
BY DEF JournalStands, IsNewest, Written

\* Two receipts are not both the newest.
LEMMA OneNewest ==
  ASSUME NEW q \in ReceiptId, NEW r \in ReceiptId, IsNewest(q, D), IsNewest(r, D)
  PROVE  q = r
BY NewestIs

\* A step that changes the stage and the copy of the newest receipt only.
LEMMA NewestStep ==
  ASSUME FInv, HInv', JournalStands, NEW r \in ReceiptId, IsNewest(r, D),
         NEW stage \in Stage, receipts'[r].stage = stage,
         \A q \in ReceiptId \ {r} : receipts'[q].stage = receipts[q].stage /\ copy'[q] = copy[q],
         JournalSays(r, stage)', stage \in Terminal => copy'[r] = "none"
  PROVE  JournalIsSo' /\ NoCopyLeft'
<1>1. ASSUME NEW q \in ReceiptId, IsNewest(q, D)' PROVE JournalSays(q, receipts[q].stage)'
  <2>1. q = r
    BY <1>1, OneNewest, SameNewest
  <2> QED BY <2>1
<1>2. Written(r)'
  BY SameNewest DEF IsNewest, Written
<1>3. JournalIsSo'
  BY <1>1, <1>2 DEF JournalIsSo
<1>4. stage \notin NoRow
  BY DEF Stage, Terminal, Unfinished, NoRow
<1>5. NoCopyLeft'
  BY <1>4 DEF FInv, NoCopyLeft
<1> QED BY <1>3, <1>5

\* What a thread at work can rely on.
LEMMA InWork ==
  ASSUME FInv, NEW t \in Thread, thread[t].pc \in AtWork
  PROVE  /\ thread[t].r \in ReceiptId /\ IsNewest(thread[t].r, D)
         /\ receipts[thread[t].r].stage \in Stage
         /\ JournalSays(thread[t].r, receipts[thread[t].r].stage)
         /\ Knows(thread[t].pc, thread[t].r, receipts[thread[t].r].stage, thread[t].seen)
         /\ detail[thread[t].r].kind \in {"rename", "copy"}
         /\ detail[thread[t].r].src \in Place /\ detail[thread[t].r].dst \in Place
         /\ detail[thread[t].r].src # detail[thread[t].r].dst
         /\ \A u \in Thread \ {t} : At(u, "idle") /\ Held(u) = {}
<1>1. /\ thread[t].r \in ReceiptId /\ Written(thread[t].r)
      /\ detail[thread[t].r].src \in Place /\ detail[thread[t].r].dst \in Place
      /\ detail[thread[t].r].src # detail[thread[t].r].dst
  BY PathsInHand DEF FInv
<1>2. receipts[thread[t].r].stage \in Stage
  BY <1>1, StageInHand DEF FInv
<1>3. /\ IsNewest(thread[t].r, D)
      /\ Knows(thread[t].pc, thread[t].r, receipts[thread[t].r].stage, thread[t].seen)
  BY DEF FInv, Reached
<1>4. JournalSays(thread[t].r, receipts[thread[t].r].stage)
  BY <1>1, <1>3 DEF FInv, JournalIsSo
<1>5. detail[thread[t].r] \in Detail
  BY <1>1, StateTypes DEF FInv
<1>6. ~ At(t, "idle")
  BY Points DEF At
<1>7. \A u \in Thread \ {t} : At(u, "idle")
  BY <1>6, IsAlone
<1>8. \A u \in Thread \ {t} : Held(u) = {}
  BY <1>7 DEF At, Held
<1> QED BY <1>1, <1>2, <1>3, <1>4, <1>5, <1>7, <1>8 DEF Detail

\* A step of a thread that stays at work.
LEMMA WorkStep ==
  ASSUME FInv, HInv', JournalStands, NEW t \in Thread, thread[t].pc \in AtWork,
         NEW pc \in AtWork, Turned(t, pc), NEW r, thread[t].r = r, NEW seen, thread[t].seen = seen,
         NEW stage \in Stage, receipts'[r].stage = stage,
         \A q \in ReceiptId \ {r} : receipts'[q].stage = receipts[q].stage /\ copy'[q] = copy[q],
         JournalSays(r, stage)', stage \in Terminal => copy'[r] = "none",
         Knows(pc, r, stage, seen)'
  PROVE  FInv'
<1>1. /\ r \in ReceiptId /\ IsNewest(r, D)
      /\ \A u \in Thread \ {t} : At(u, "idle")
  BY InWork
<1>2. JournalIsSo' /\ NoCopyLeft'
  BY <1>1, NewestStep
<1>3. /\ thread'[t].pc = pc /\ thread'[t].r = r /\ thread'[t].seen = seen
      /\ \A u \in Thread \ {t} : thread'[u] = thread[u]
  BY DEF Turned
<1>4. IsNewest(r, D)'
  BY <1>1, SameNewest
<1>5. Reached(t)'
  BY <1>3, <1>4 DEF Reached
<1> QED BY <1>1, <1>2, <1>3, <1>5, AloneStep

\* One that leaves the document and the copies where they are.
LEMMA StillStep ==
  ASSUME FInv, HInv', JournalStands, NEW t \in Thread, thread[t].pc \in AtWork,
         NEW pc \in AtWork, Turned(t, pc), NEW r, thread[t].r = r, NEW seen, thread[t].seen = seen,
         NEW stage \in Stage, receipts'[r].stage = stage, UNCHANGED <<disk, copy>>,
         \A q \in ReceiptId \ {r} : receipts'[q].stage = receipts[q].stage,
         JournalSays(r, stage), stage \in Terminal => copy[r] = "none",
         Knows(pc, r, stage, seen)
  PROVE  FInv'
<1>1. r \in ReceiptId
  BY InWork
<1>2. JournalSays(r, stage)' /\ Knows(pc, r, stage, seen)'
  BY <1>1, SameFiles
<1> QED BY <1>2, WorkStep

\* A failure is a step that only turns the thread.
LEMMA FailStep ==
  ASSUME FInv, HInv', NEW t \in Thread, thread[t].pc \in AtWork,
         NEW pc \in {"fail", "park", "finish"}, Turned(t, pc),
         UNCHANGED <<receipts, disk, copy, detail>>
  PROVE  FInv'
<1> DEFINE r == thread[t].r
           stage == receipts[r].stage
           seen == thread[t].seen
<1>1. pc \in AtWork /\ Knows(pc, r, stage, seen)
  BY DEF AtWork, Knows, HoldsBoth
<1>2. r \in ReceiptId /\ stage \in Stage /\ JournalSays(r, stage)
  BY InWork
<1>3. stage \in Terminal => copy[r] = "none"
  BY <1>2 DEF FInv, NoCopyLeft
<1>4. JournalStands
  BY DEF JournalStands
<1>5. receipts'[r].stage = stage /\ \A q \in ReceiptId \ {r} : receipts'[q].stage = receipts[q].stage
  OBVIOUS
<1> HIDE DEF r, stage, seen
<1>6. thread[t].r = r /\ thread[t].seen = seen
  BY DEF r, seen
<1> QED BY <1>1, <1>2, <1>3, <1>4, <1>5, <1>6, StillStep

\* A journal write of a thread that stays at work.
LEMMA WriteStep ==
  ASSUME FInv, HInv', NEW t \in Thread, NEW s \in Session, thread[t].pc \in AtWork,
         NEW expected, NEW next \in Stage, NEW temp \in BOOLEAN, NEW differs \in BOOLEAN,
         NEW then \in AtWork, Write(t, s, expected, next, temp, differs, then),
         UNCHANGED <<disk, copy>>,
         JournalSays(thread[t].r, next), next \in Terminal => copy[thread[t].r] = "none",
         Knows(then, thread[t].r, next, thread[t].seen)
  PROVE  FInv'
<1>1. /\ JournalStands
      /\ \/ Landed(t, expected, next, then)
         \/ Turned(t, "fail") /\ UNCHANGED <<receipts, detail>>
  BY Writing, Points DEF FInv
<1>2. CASE Turned(t, "fail") /\ UNCHANGED <<receipts, detail>>
  BY <1>2, FailStep
<1>3. CASE Landed(t, expected, next, then)
  <2>1. PICK r : r = thread[t].r
    OBVIOUS
  <2>2. PICK seen : seen = thread[t].seen
    OBVIOUS
  <2>3. r \in ReceiptId /\ receipts \in [ReceiptId -> Receipt]
    BY <2>1, InWork DEF FInv, HInv, IInv, TypeOK
  <2>4. Turned(t, then) /\ receipts' = [receipts EXCEPT ![r].stage = next]
    BY <1>3, <2>1 DEF Landed, SetStage
  <2>5. /\ receipts'[r].stage = next
        /\ \A q \in ReceiptId \ {r} : receipts'[q].stage = receipts[q].stage
    BY <2>3, <2>4 DEF Receipt
  <2>6. JournalSays(r, next) /\ Knows(then, r, next, seen) /\ (next \in Terminal => copy[r] = "none")
    BY <2>1, <2>2
  <2> QED BY <1>1, <2>1, <2>2, <2>4, <2>5, <2>6, StillStep
<1> QED BY <1>1, <1>2, <1>3

\* The journal and the disk are as they were.
LEMMA SameJournal ==
  ASSUME FInv, JournalStands, UNCHANGED <<disk, copy>>,
         \A r \in ReceiptId : receipts'[r].stage = receipts[r].stage
  PROVE  JournalIsSo' /\ NoCopyLeft'
<1>1. ASSUME NEW r \in ReceiptId, IsNewest(r, D)' PROVE JournalSays(r, receipts[r].stage)'
  <2>1. PICK stage : stage = receipts[r].stage
    OBVIOUS
  <2>2. JournalSays(r, stage)
    BY <1>1, <2>1, SameNewest DEF FInv, JournalIsSo
  <2>3. JournalSays(r, stage)'
    BY <2>2, SameFiles
  <2> QED BY <2>1, <2>3
<1>2. ASSUME \A r \in ReceiptId : ~ Written(r)' PROVE OnlyAt("orig")'
  <2>1. \A r \in ReceiptId : ~ Written(r)
    BY <1>2, SameNewest
  <2>2. OnlyAt("orig")
    BY <2>1 DEF FInv, JournalIsSo
  <2> QED BY <2>2 DEF OnlyAt
<1>3. JournalIsSo'
  BY <1>1, <1>2 DEF JournalIsSo
<1>4. NoCopyLeft'
  BY DEF FInv, NoCopyLeft
<1> QED BY <1>3, <1>4

\* A step after which the thread has nothing in hand.
LEMMA AsideStep ==
  ASSUME FInv, HInv', NEW t \in Thread, \A u \in Thread \ {t} : At(u, "idle"),
         \A u \in Thread \ {t} : thread'[u] = thread[u],
         thread'[t].pc \notin AtWork, JournalIsSo', NoCopyLeft'
  PROVE  FInv'
<1>1. Knows(thread[t].pc, thread[t].r, receipts[thread[t].r].stage, thread[t].seen)'
  BY DEF Knows, AtWork, HoldsSource, HoldsBoth, HoldsDestination
<1>2. Reached(t)'
  BY <1>1 DEF Reached
<1> QED BY <1>2, AloneStep

\* A rename takes the document where it goes, and nothing replaces anything.
LEMMA MoveAt ==
  ASSUME HInv, NEW t \in Thread, NEW p \in Place, NEW q \in Place,
         CanMove(t, p, q), Move(p, q), OnlyAt(p)
  PROVE  OnlyAt(q)'
<1>1. disk \in [Place -> Content] /\ p # q /\ disk[p] \in Document
  BY DEF HInv, Types, CanMove, Exists, OnlyAt
<1>2. /\ disk'[q] = disk[p] /\ disk'[p] = "none"
      /\ \A x \in Place \ {p, q} : disk'[x] = disk[x]
  BY <1>1 DEF Move
<1>3. "none" \notin Document
  BY DEF Document
<1> QED BY <1>1, <1>2, <1>3 DEF OnlyAt

\* The renames of same_volume_transfer: the document is at one path or the
\* other, which is all that the journal says of it.
LEMMA RenameStep ==
  ASSUME FInv, HInv', NEW t \in Thread, NEW p \in Place, NEW q \in Place,
         NEW then \in AtWork, Rename(t, p, q, then), UNCHANGED <<storeVars, copy, detail>>,
         \/ /\ thread[t].pc = "rename" /\ then = "renamed"
            /\ p = detail[thread[t].r].src /\ q = detail[thread[t].r].dst
         \/ /\ thread[t].pc = "moveBack" /\ then = "movedBack"
            /\ p = detail[thread[t].r].dst /\ q = detail[thread[t].r].src
  PROVE  FInv'
<1>1. thread[t].pc \in AtWork /\ then \in Point
  BY Points DEF AtWork
<1>2. PICK r : r = thread[t].r
  OBVIOUS
<1>3. PICK seen : seen = thread[t].seen
  OBVIOUS
<1>4. PICK stage : stage = receipts[r].stage
  OBVIOUS
<1>5. /\ r \in ReceiptId /\ stage \in Stage
      /\ JournalSays(r, stage) /\ Knows(thread[t].pc, r, stage, seen)
  BY <1>1, <1>2, <1>3, <1>4, InWork
<1>6. /\ detail[r].kind = "rename" /\ copy[r] = "none" /\ OnlyAt(p)
      /\ stage \in {"planned", "rollback_required"}
      /\ thread[t].pc = "rename" => stage = "planned"
      /\ thread[t].pc = "moveBack" => stage = "rollback_required"
  BY <1>2, <1>5 DEF Knows, JournalSays, RenameSays, Unmoved, Moved
<1>7. JournalStands /\ receipts'[r].stage = stage
      /\ \A x \in ReceiptId \ {r} : receipts'[x].stage = receipts[x].stage /\ copy'[x] = copy[x]
  BY <1>4 DEF JournalStands, storeVars
<1>8. \/ CanMove(t, p, q) /\ Move(p, q) /\ (Turned(t, then) \/ Turned(t, "fail"))
      \/ disk' = disk /\ Turned(t, "fail")
  BY <1>1, Renaming DEF FInv
<1>9. CASE CanMove(t, p, q) /\ Move(p, q) /\ (Turned(t, then) \/ Turned(t, "fail"))
  <2>1. OnlyAt(q)'
    BY <1>6, <1>9, MoveAt DEF FInv
  <2>2. detail'[r] = detail[r] /\ copy'[r] = "none"
    BY <1>6
  <2>3. Unmoved(r)' \/ Moved(r)'
    BY <1>2, <2>1, <2>2 DEF Unmoved, Moved
  <2>4. JournalSays(r, stage)'
    BY <1>6, <2>2, <2>3 DEF JournalSays, RenameSays
  <2>5. (q = detail[r].dst => Moved(r)') /\ (q = detail[r].src => Unmoved(r)')
    BY <2>1, <2>2 DEF Moved, Unmoved
  <2>6. Knows(then, r, stage, seen)'
    BY <1>2, <1>6, <2>2, <2>5 DEF Knows, HoldsBoth
  <2>7. Knows("fail", r, stage, seen)' /\ "fail" \in AtWork
    BY DEF Knows, HoldsBoth, AtWork
  <2>8. stage \notin Terminal
    BY <1>6 DEF Terminal
  <2> QED BY <1>1, <1>2, <1>3, <1>5, <1>7, <1>9, <2>4, <2>6, <2>7, <2>8, WorkStep
<1>10. CASE disk' = disk /\ Turned(t, "fail")
  BY <1>1, <1>10, FailStep DEF storeVars
<1> QED BY <1>8, <1>9, <1>10

\* same_volume_transfer: the journal is never wrong about the file.
LEMMA same_volume_transferKeeps ==
  ASSUME FInv, HInv', NEW t \in Thread, NEW s \in Session, same_volume_transfer(t, s)
  PROVE  FInv'
<1> DEFINE r == thread[t].r
           d == detail[r]
           stage == receipts[r].stage
           seen == thread[t].seen
<1>1. /\ {"rename", "renamed", "check", "checked", "moveBack", "movedBack", "finish", "fail"} \subseteq AtWork
      /\ {"planned", "published", "rollback_required", "complete", "rolled_back"} \subseteq Stage
      /\ AtWork \subseteq Point /\ "OTHER" \in ErrorCode
  <2>1. {"rename", "renamed", "check", "checked", "moveBack", "movedBack", "finish", "fail"} \subseteq AtWork
    BY DEF AtWork, HoldsDestination
  <2>2. {"planned", "published", "rollback_required", "complete", "rolled_back"} \subseteq Stage
    BY DEF Stage, Terminal, Unfinished
  <2> QED BY <2>1, <2>2, Points DEF ErrorCode
<1>2. thread[t].pc \in AtWork
  BY <1>1 DEF same_volume_transfer, At
<1>3. /\ r \in ReceiptId /\ stage \in Stage /\ JournalSays(r, stage)
      /\ Knows(thread[t].pc, r, stage, seen) /\ d.src \in Place /\ d.dst \in Place
  BY <1>2, InWork
<1>4. CASE /\ At(t, "rename")
           /\ Rename(t, d.src, d.dst, "renamed")
           /\ UNCHANGED <<storeVars, copy, detail, approved, others>>
  BY <1>1, <1>3, <1>4, RenameStep DEF At
<1>5. CASE /\ At(t, "moveBack")
           /\ Rename(t, d.dst, d.src, "movedBack")
           /\ UNCHANGED <<storeVars, copy, detail, approved, others>>
  BY <1>1, <1>3, <1>5, RenameStep DEF At
<1>6. CASE /\ At(t, "renamed")
           /\ Write(t, s, "planned", "published", FALSE, FALSE, "check")
           /\ UNCHANGED <<disk, copy, approved, others>>
  <2>1. d.kind = "rename" /\ copy[r] = "none" /\ Moved(r)
    BY <1>3, <1>6 DEF At, Knows, JournalSays, RenameSays
  <2>2. JournalSays(r, "published") /\ Knows("check", r, "published", seen)
    BY <2>1 DEF JournalSays, RenameSays, Knows, HoldsBoth
  <2>3. "published" \notin Terminal
    BY DEF Terminal
  <2> QED BY <1>1, <1>2, <1>6, <2>2, <2>3, WriteStep
<1>7. CASE /\ At(t, "check")
           /\ disk[d.dst] = "doc" /\ ~ Locked(d.dst)
           /\ Goto(t, "checked")
           /\ UNCHANGED <<storeVars, disk, copy, detail, approved, faults, others>>
  <2>1. Turned(t, "checked")
    BY <1>1, <1>7, Turning, StateTypes DEF FInv
  <2>2. Knows("checked", r, stage, seen)
    BY <1>3, <1>7 DEF At, Knows, HoldsBoth
  <2>3. stage \in Terminal => copy[r] = "none"
    BY <1>3 DEF FInv, NoCopyLeft
  <2>4. JournalStands /\ receipts' = receipts
    BY <1>7 DEF JournalStands, storeVars
  <2>5. PICK x : x = r
    OBVIOUS
  <2>6. PICK y : y = seen
    OBVIOUS
  <2>7. PICK z : z = stage
    OBVIOUS
  <2>8. /\ receipts'[x].stage = z /\ \A q \in ReceiptId \ {x} : receipts'[q].stage = receipts[q].stage
        /\ JournalSays(x, z) /\ Knows("checked", x, z, y) /\ (z \in Terminal => copy[x] = "none")
        /\ z \in Stage
    BY <1>3, <2>2, <2>3, <2>4, <2>5, <2>6, <2>7
  <2> QED BY <1>1, <1>2, <1>7, <2>1, <2>4, <2>5, <2>6, <2>8, StillStep
<1>8. CASE /\ At(t, "check")
           /\ Fails(Exists(d.dst) /\ ~ Locked(d.dst))
           /\ FailWith(t, "OTHER")
           /\ UNCHANGED <<storeVars, disk, copy, detail, approved, others>>
  <2>1. Turned(t, "fail")
    BY <1>1, <1>8, Turning, StateTypes DEF FInv, FailWith
  <2> QED BY <1>2, <1>8, <2>1, FailStep DEF storeVars
<1>9. CASE /\ At(t, "check")
           /\ Exists(d.dst) /\ ~ Locked(d.dst)
           /\ \E differs \in {disk[d.dst] # "doc", FALSE} :
                Write(t, s, "published", "rollback_required", FALSE, differs, "moveBack")
           /\ UNCHANGED <<disk, copy, approved, others>>
  <2>0. PICK differs \in BOOLEAN :
          Write(t, s, "published", "rollback_required", FALSE, differs, "moveBack")
    BY <1>9
  <2>1. d.kind = "rename" /\ copy[r] = "none" /\ Moved(r)
    BY <1>3, <1>9 DEF At, Knows, JournalSays, RenameSays
  <2>2. JournalSays(r, "rollback_required") /\ Knows("moveBack", r, "rollback_required", seen)
    BY <2>1 DEF JournalSays, RenameSays, Knows, HoldsBoth
  <2>3. "rollback_required" \notin Terminal
    BY DEF Terminal
  <2> QED BY <1>1, <1>2, <1>9, <2>0, <2>2, <2>3, WriteStep
<1>10. CASE /\ At(t, "checked")
            /\ Write(t, s, "published", "complete", FALSE, FALSE, "finish")
            /\ UNCHANGED <<disk, copy, approved, others>>
  <2>1. d.kind = "rename" /\ copy[r] = "none" /\ Moved(r)
    BY <1>3, <1>10 DEF At, Knows, JournalSays, RenameSays
  <2>2. JournalSays(r, "complete") /\ Knows("finish", r, "complete", seen)
    BY <2>1 DEF JournalSays, RenameSays, Knows, HoldsBoth
  <2> QED BY <1>1, <1>2, <1>10, <2>1, <2>2, WriteStep
<1>11. CASE /\ At(t, "movedBack")
            /\ Write(t, s, "rollback_required", "rolled_back", FALSE, d.differs, "fail")
            /\ UNCHANGED <<disk, copy, approved, others>>
  <2>1. d.kind = "rename" /\ copy[r] = "none" /\ Unmoved(r)
    BY <1>3, <1>11 DEF At, Knows, JournalSays, RenameSays
  <2>2. JournalSays(r, "rolled_back") /\ Knows("fail", r, "rolled_back", seen)
    BY <2>1 DEF JournalSays, RenameSays, Knows, HoldsBoth
  <2>3. d \in Detail
    BY <1>3, StateTypes DEF FInv
  <2>4. d.differs \in BOOLEAN
    BY <2>3, Zenon DEF Detail
  <2>5. \/ Write(t, s, "rollback_required", "rolled_back", FALSE, TRUE, "fail")
        \/ Write(t, s, "rollback_required", "rolled_back", FALSE, FALSE, "fail")
    BY <1>11, <2>4, Zenon
  <2> QED BY <1>1, <1>2, <1>11, <2>1, <2>2, <2>5, WriteStep
<1> QED
  BY <1>4, <1>5, <1>6, <1>7, <1>8, <1>9, <1>10, <1>11 DEF same_volume_transfer

\* A step that only turns the thread.
LEMMA TurnStep ==
  ASSUME FInv, HInv', NEW t \in Thread, thread[t].pc \in AtWork,
         NEW pc \in AtWork, Turned(t, pc), UNCHANGED <<receipts, disk, copy, detail>>,
         Knows(pc, thread[t].r, receipts[thread[t].r].stage, thread[t].seen)
  PROVE  FInv'
<1>1. PICK r : r = thread[t].r
  OBVIOUS
<1>2. PICK seen : seen = thread[t].seen
  OBVIOUS
<1>3. PICK stage : stage = receipts[r].stage
  OBVIOUS
<1>4. r \in ReceiptId /\ stage \in Stage /\ JournalSays(r, stage) /\ Knows(pc, r, stage, seen)
  BY <1>1, <1>2, <1>3, InWork
<1>5. stage \in Terminal => copy[r] = "none"
  BY <1>3, <1>4 DEF FInv, NoCopyLeft
<1>6. JournalStands /\ receipts'[r].stage = stage
      /\ \A q \in ReceiptId \ {r} : receipts'[q].stage = receipts[q].stage
  BY <1>3 DEF JournalStands
<1> QED BY <1>1, <1>2, <1>4, <1>5, <1>6, StillStep

\* A step that changes a temporary copy, while the document has not moved.
LEMMA CopyStep ==
  ASSUME FInv, HInv', NEW t \in Thread, thread[t].pc \in AtWork,
         NEW pc \in AtWork, Turned(t, pc), UNCHANGED <<receipts, disk, detail>>,
         NEW r, thread[t].r = r, NEW seen, thread[t].seen = seen,
         NEW stage \in {"planned", "copied", "verified"}, receipts[r].stage = stage,
         \A q \in ReceiptId \ {r} : copy'[q] = copy[q],
         detail[r].kind = "copy", Unmoved(r), Knows(pc, r, stage, seen),
         pc \notin {"publishedCopy", "catchUp", "confirm"}, pc # "rollBack" \/ copy'[r] = "none"
  PROVE  FInv'
<1>1. r \in ReceiptId
  BY InWork
<1>2. /\ JournalStands /\ receipts'[r].stage = stage /\ detail'[r] = detail[r]
      /\ \A q \in ReceiptId \ {r} : receipts'[q].stage = receipts[q].stage
  BY <1>1 DEF JournalStands
<1>3. Unmoved(r)' /\ (Moved(r)' <=> Moved(r)) /\ (Between(r)' <=> Between(r))
  BY DEF Unmoved, Moved, Between, OnlyAt
<1>4. JournalSays(r, stage)'
  BY <1>2, <1>3 DEF JournalSays, CopySays
<1>5. Knows(pc, r, stage, seen)'
  BY <1>2, <1>3 DEF Knows
<1>6. stage \in Stage /\ stage \notin Terminal
  BY DEF Stage, Unfinished, Terminal
<1> QED BY <1>2, <1>4, <1>5, <1>6, WorkStep

\* copy_new_locked and temp_failure.
LEMMA TemporaryKeeps ==
  ASSUME FInv, HInv', NEW t \in Thread, NEW s \in Session, copy_new_locked(t) \/ temp_failure(t, s)
  PROVE  FInv'
<1>1. /\ {"copy", "dropCopy", "copied", "copyFailed", "droppedCopy", "fail"} \subseteq AtWork
      /\ AtWork \subseteq Point /\ "OTHER" \in ErrorCode
  <2>1. {"copy", "dropCopy", "copied", "copyFailed", "droppedCopy", "fail"} \subseteq AtWork
    BY DEF AtWork, HoldsSource
  <2> QED BY <2>1, Points DEF ErrorCode
<1>2. PICK r : r = thread[t].r
  OBVIOUS
<1>3. PICK seen : seen = thread[t].seen
  OBVIOUS
<1>4. PICK stage : stage = receipts[r].stage
  OBVIOUS
<1>5. thread[t].pc \in AtWork /\ UNCHANGED <<disk, detail>>
  BY <1>1 DEF copy_new_locked, temp_failure, At
<1>6. /\ r \in ReceiptId /\ JournalSays(r, stage) /\ Knows(thread[t].pc, r, stage, seen)
      /\ thread \in [Thread -> State] /\ copy \in [ReceiptId -> Copy]
  BY <1>2, <1>3, <1>4, <1>5, InWork, StateTypes DEF FInv
<1>7. CASE copy_new_locked(t)
  <2>1. thread[t].pc = "copy" /\ UNCHANGED receipts
    BY <1>7 DEF copy_new_locked, At, storeVars
  <2>2. detail[r].kind = "copy" /\ stage = "planned" /\ Unmoved(r)
    BY <1>6, <2>1 DEF Knows, JournalSays, CopySays
  <2>3. \A pc \in {"copy", "copied", "copyFailed"} : Knows(pc, r, stage, seen)
    BY <2>2 DEF Knows, HoldsBoth
  <2>4. PICK pc \in {"copy", "copied", "copyFailed"} : Turned(t, pc)
    <3>1. CASE UNCHANGED thread
      BY <1>6, <2>1, <3>1 DEF Turned
    <3>2. CASE Goto(t, "copied") \/ Goto(t, "copyFailed")
      BY <1>1, <1>6, <3>2, Turning
    <3> QED BY <1>7, <3>1, <3>2 DEF copy_new_locked
  <2>5. \A q \in ReceiptId \ {r} : copy'[q] = copy[q]
    BY <1>2, <1>6, <1>7 DEF copy_new_locked
  <2>6. /\ pc \in AtWork /\ stage \in {"planned", "copied", "verified"}
        /\ pc \notin {"publishedCopy", "catchUp", "confirm"} /\ pc # "rollBack"
        /\ thread[t].r = r /\ thread[t].seen = seen /\ receipts[r].stage = stage
        /\ UNCHANGED <<receipts, disk, detail>> /\ Knows(pc, r, stage, seen)
    BY <1>1, <1>2, <1>3, <1>4, <1>5, <2>1, <2>2, <2>3
  <2> QED BY <1>5, <2>2, <2>4, <2>5, <2>6, CopyStep
<1>8. CASE temp_failure(t, s)
  <2>1. thread[t].pc = "dropCopy" /\ UNCHANGED receipts
    BY <1>8 DEF temp_failure, At, renew_operation_lease, storeVars
  <2>2. detail[r].kind = "copy" /\ stage \in {"copied", "verified"} /\ Unmoved(r)
    BY <1>6, <2>1 DEF Knows
  <2>3. CASE Goto(t, "droppedCopy") /\ (copy' = [copy EXCEPT ![r] = "none"] \/ UNCHANGED copy)
    <3>1. Knows("droppedCopy", r, stage, seen)
      BY <2>2 DEF Knows, HoldsBoth
    <3>2. Turned(t, "droppedCopy")
      BY <1>1, <1>6, <2>3, Turning
    <3>3. \A q \in ReceiptId \ {r} : copy'[q] = copy[q]
      BY <1>6, <2>3
    <3>4. /\ "droppedCopy" \in AtWork /\ stage \in {"planned", "copied", "verified"}
          /\ thread[t].r = r /\ thread[t].seen = seen /\ receipts[r].stage = stage
          /\ UNCHANGED <<receipts, disk, detail>>
      BY <1>1, <1>2, <1>3, <1>4, <1>5, <2>1, <2>2
    <3> QED BY <1>5, <2>2, <3>1, <3>2, <3>3, <3>4, CopyStep
  <2>4. CASE FailWith(t, "OTHER") /\ UNCHANGED <<storeVars, copy>>
    <3>1. Turned(t, "fail")
      BY <1>1, <1>6, <2>4, Turning DEF FailWith
    <3> QED BY <1>5, <2>1, <2>4, <3>1, FailStep
  <2> QED BY <1>2, <1>8, <2>3, <2>4 DEF temp_failure
<1> QED BY <1>7, <1>8

\* publish: the copy is at its name, so the document may be at both paths.
LEMMA publishKeeps ==
  ASSUME FInv, HInv', NEW t \in Thread, publish(t)
  PROVE  FInv'
<1>1. /\ {"publish", "publishedCopy", "publishFailed", "dropCopy"} \subseteq AtWork
      /\ AtWork \subseteq Point /\ "OTHER" \in ErrorCode
  <2>1. {"publish", "publishedCopy", "publishFailed", "dropCopy"} \subseteq AtWork
    BY DEF AtWork, HoldsSource
  <2> QED BY <2>1, Points DEF ErrorCode
<1>2. PICK r : r = thread[t].r
  OBVIOUS
<1>3. PICK seen : seen = thread[t].seen
  OBVIOUS
<1>4. PICK stage : stage = receipts[r].stage
  OBVIOUS
<1>5. thread[t].pc = "publish" /\ thread[t].pc \in AtWork /\ UNCHANGED <<receipts, detail>>
  BY <1>1 DEF publish, At, storeVars
<1>6. /\ r \in ReceiptId /\ detail[r].src \in Place /\ detail[r].dst \in Place
      /\ Knows("publish", r, stage, seen)
      /\ thread \in [Thread -> State] /\ copy \in [ReceiptId -> Copy] /\ disk \in [Place -> Content]
  BY <1>2, <1>3, <1>4, <1>5, InWork, StateTypes DEF FInv
<1>7. detail[r].kind = "copy" /\ stage = "verified" /\ Unmoved(r)
  BY <1>6 DEF Knows
<1>8. CASE /\ disk' = [disk EXCEPT ![detail[r].dst] = copy[r]]
           /\ copy' = [copy EXCEPT ![r] = "none"]
           /\ Goto(t, "publishedCopy") \/ Goto(t, "publishFailed")
  <2>1. \A q \in Place \ {detail[r].dst} : disk'[q] = disk[q]
    BY <1>6, <1>8
  <2>2. detail'[r] = detail[r] /\ copy'[r] = "none" /\ \A q \in ReceiptId \ {r} : copy'[q] = copy[q]
    BY <1>5, <1>6, <1>8
  <2>3. Between(r)'
    BY <1>7, <2>1, <2>2 DEF Between, Unmoved, OnlyAt
  <2>4. JournalSays(r, stage)'
    BY <1>7, <2>2, <2>3 DEF JournalSays, CopySays
  <2>5. Knows("publishedCopy", r, stage, seen)' /\ Knows("publishFailed", r, stage, seen)'
    BY <1>7, <2>2, <2>3 DEF Knows, HoldsBoth
  <2>6. Turned(t, "publishedCopy") \/ Turned(t, "publishFailed")
    BY <1>1, <1>6, <1>8, Turning
  <2>7. JournalStands /\ receipts'[r].stage = stage
        /\ \A q \in ReceiptId \ {r} : receipts'[q].stage = receipts[q].stage
    BY <1>4, <1>5 DEF JournalStands
  <2>8. stage \in Stage /\ stage \notin Terminal
    BY <1>7 DEF Stage, Unfinished, Terminal
  <2> QED BY <1>1, <1>2, <1>3, <1>5, <2>2, <2>4, <2>5, <2>6, <2>7, <2>8, WorkStep
<1>9. CASE (Goto(t, "publishFailed") \/ Goto(t, "dropCopy")) /\ UNCHANGED <<disk, copy>>
  <2>1. Turned(t, "publishFailed") \/ Turned(t, "dropCopy")
    BY <1>1, <1>6, <1>9, Turning
  <2>2. Knows("publishFailed", r, stage, seen) /\ Knows("dropCopy", r, stage, seen)
    BY <1>7 DEF Knows, HoldsBoth
  <2> QED BY <1>1, <1>2, <1>3, <1>4, <1>5, <1>9, <2>1, <2>2, TurnStep
<1> QED BY <1>2, <1>8, <1>9 DEF publish

\* delete_source: between the fence and the deletion the document is at both
\* paths, and then at its destination.
LEMMA delete_sourceKeeps ==
  ASSUME FInv, HInv', NEW t \in Thread, NEW s \in Session,
         NEW fence, NEW delete, NEW then, delete_source(t, s, fence, delete, then),
         \/ fence = "fence" /\ delete = "delete" /\ then = "deleted"
         \/ fence = "refence" /\ delete = "deleteSource" /\ then = "confirm"
  PROVE  FInv'
<1> DEFINE e == IF delete = "delete" THEN "fail" ELSE "park"
<1>1. /\ fence \in AtWork /\ delete \in AtWork /\ then \in AtWork /\ AtWork \subseteq Point
      /\ fence \in HoldsBoth /\ delete \in HoldsBoth
      /\ e \in {"fail", "park"} /\ e \in AtWork
      /\ {"OTHER", "SOURCE_DELETE_FAILED"} \subseteq ErrorCode
  <2>1. /\ fence \in AtWork /\ delete \in AtWork /\ then \in AtWork
        /\ fence \in HoldsBoth /\ delete \in HoldsBoth
        /\ e \in {"fail", "park"} /\ e \in AtWork
    BY DEF AtWork, HoldsBoth, HoldsDestination
  <2> QED BY <2>1, Points DEF ErrorCode
<1>2. PICK r : r = thread[t].r
  OBVIOUS
<1>3. PICK seen : seen = thread[t].seen
  OBVIOUS
<1>4. PICK stage : stage = receipts[r].stage
  OBVIOUS
<1>5. /\ thread[t].pc \in {fence, delete} /\ thread[t].pc \in AtWork /\ thread[t].pc \in HoldsBoth
      /\ UNCHANGED <<receipts, copy, detail>>
  BY <1>1 DEF delete_source, At, renew_operation_lease, storeVars
<1>6. /\ r \in ReceiptId /\ detail[r].src \in Place /\ detail[r].dst \in Place
      /\ detail[r].src # detail[r].dst
      /\ JournalSays(r, stage) /\ Knows(thread[t].pc, r, stage, seen)
      /\ thread \in [Thread -> State] /\ disk \in [Place -> Content]
  BY <1>2, <1>3, <1>4, <1>5, InWork, StateTypes DEF FInv
<1>7. detail[r].kind = "copy" /\ stage = "published" /\ copy[r] = "none" /\ Between(r)
  BY <1>5, <1>6 DEF Knows, JournalSays, CopySays
<1>8. fence = "refence" => seen = "published"
  BY <1>5, <1>6 DEF Knows
<1>9. CASE UNCHANGED disk /\ Goto(t, delete)
  <2>1. Turned(t, delete)
    BY <1>1, <1>6, <1>9, Turning
  <2>2. Knows(delete, r, stage, seen)
    BY <1>7, <1>8 DEF Knows, HoldsBoth
  <2> QED BY <1>1, <1>2, <1>3, <1>4, <1>5, <1>9, <2>1, <2>2, TurnStep
<1>10. CASE /\ UNCHANGED disk
            /\ \/ thread' = [thread EXCEPT ![t].pc = e, ![t].err = "OTHER"]
               \/ thread' = [thread EXCEPT ![t].pc = e, ![t].err = "SOURCE_DELETE_FAILED"]
  <2> HIDE DEF e
  <2>1. Turned(t, e)
    BY <1>1, <1>6, <1>10, Turning
  <2> QED BY <1>1, <1>5, <1>10, <2>1, FailStep
<1>11. CASE /\ thread[t].pc = delete
            /\ disk' = [disk EXCEPT ![detail[r].src] = "none"] /\ Goto(t, then)
  <2>1. Held(t) = {detail[r].src, detail[r].dst}
    BY <1>1, <1>2, <1>11, HeldIs
  <2>2. disk[detail[r].dst] = "doc" /\ "doc" \in Document /\ "none" \notin Document
    BY <2>1 DEF FInv, HInv, HeldIsDocument, Document
  <2>3. /\ disk'[detail[r].src] = "none"
        /\ \A q \in Place \ {detail[r].src} : disk'[q] = disk[q]
    BY <1>6, <1>11
  <2>4. detail'[r] = detail[r] /\ copy'[r] = "none"
        /\ \A q \in ReceiptId \ {r} : copy'[q] = copy[q]
    BY <1>5, <1>7
  <2>5. Moved(r)' /\ Between(r)'
    BY <1>6, <1>7, <2>2, <2>3, <2>4 DEF Moved, Between, OnlyAt
  <2>6. JournalSays(r, stage)'
    BY <1>7, <2>4, <2>5 DEF JournalSays, CopySays
  <2>7. Knows(then, r, stage, seen)'
    BY <1>7, <1>8, <2>4, <2>5 DEF Knows, HoldsBoth
  <2>8. Turned(t, then)
    BY <1>1, <1>6, <1>11, Turning
  <2>9. JournalStands /\ receipts'[r].stage = stage
        /\ \A q \in ReceiptId \ {r} : receipts'[q].stage = receipts[q].stage
    BY <1>4, <1>5 DEF JournalStands
  <2>10. stage \in Stage /\ stage \notin Terminal
    BY <1>7 DEF Stage, Unfinished, Terminal
  <2> QED BY <1>1, <1>2, <1>3, <1>5, <2>4, <2>6, <2>7, <2>8, <2>9, <2>10, WorkStep
<1>12. \/ UNCHANGED disk /\ Goto(t, delete)
       \/ /\ UNCHANGED disk
          /\ \/ thread' = [thread EXCEPT ![t].pc = e, ![t].err = "OTHER"]
             \/ thread' = [thread EXCEPT ![t].pc = e, ![t].err = "SOURCE_DELETE_FAILED"]
       \/ /\ thread[t].pc = delete
          /\ disk' = [disk EXCEPT ![detail[r].src] = "none"] /\ Goto(t, then)
  BY <1>2 DEF delete_source, At
<1> QED BY <1>9, <1>10, <1>11, <1>12

\* cross_volume_transfer: the document has not moved until the copy is
\* published, may be at both paths from then until the source is deleted, and
\* the copy is gone by the time the journal says so.
LEMMA cross_volume_transferKeeps ==
  ASSUME FInv, HInv', NEW t \in Thread, NEW s \in Session, cross_volume_transfer(t, s)
  PROVE  FInv'
<1> DEFINE r == thread[t].r
           d == detail[r]
           stage == receipts[r].stage
           seen == thread[t].seen
<1>1. /\ {"copyFailed", "copied", "prove", "droppedCopy", "publishFailed", "publishedCopy",
          "proveDestination", "dropCopy", "publish", "fence", "deleted", "finish", "fail"}
            \subseteq AtWork
      /\ {"planned", "copied", "verified", "published", "complete"} \subseteq Stage
      /\ {"planned", "copied", "verified", "published"} \cap Terminal = {}
      /\ AtWork \subseteq Point /\ "OTHER" \in ErrorCode
  <2>1. {"copyFailed", "copied", "prove", "droppedCopy", "publishFailed", "publishedCopy",
         "proveDestination", "dropCopy", "publish", "fence", "deleted", "finish", "fail"}
           \subseteq AtWork
    BY DEF AtWork, HoldsSource, HoldsBoth
  <2>2. /\ {"planned", "copied", "verified", "published", "complete"} \subseteq Stage
        /\ {"planned", "copied", "verified", "published"} \cap Terminal = {}
    BY DEF Stage, Terminal, Unfinished
  <2> QED BY <2>1, <2>2, Points DEF ErrorCode
<1>2. CASE copy_new_locked(t) \/ temp_failure(t, s)
  BY <1>2, TemporaryKeeps
<1>3. CASE publish(t)
  BY <1>3, publishKeeps
<1>4. CASE delete_source(t, s, "fence", "delete", "deleted")
  BY <1>4, delete_sourceKeeps
<1>5. ASSUME thread[t].pc \in AtWork
      PROVE  /\ r \in ReceiptId /\ stage \in Stage /\ JournalSays(r, stage)
             /\ Knows(thread[t].pc, r, stage, seen)
             /\ thread \in [Thread -> State]
  BY <1>5, InWork, StateTypes DEF FInv
<1>6. CASE /\ At(t, "copyFailed")
           /\ Write(t, s, "planned", "planned", copy[r] # "none", FALSE, "fail")
           /\ UNCHANGED <<disk, copy, approved, others>>
  <2>1. \/ Write(t, s, "planned", "planned", TRUE, FALSE, "fail")
        \/ Write(t, s, "planned", "planned", FALSE, FALSE, "fail")
    BY <1>6, TemporaryColumn, Zenon
  <2>2. thread[t].pc = "copyFailed" /\ thread[t].pc \in AtWork /\ UNCHANGED <<disk, copy>>
    BY <1>1, <1>6 DEF At
  <2>3. JournalSays(r, "planned") /\ Knows("fail", r, "planned", seen)
    BY <1>5, <2>2 DEF Knows, HoldsBoth
  <2> QED BY <1>1, <2>1, <2>2, <2>3, WriteStep
<1>7. CASE /\ At(t, "copied")
           /\ Write(t, s, "planned", "copied", TRUE, FALSE, "prove")
           /\ UNCHANGED <<disk, copy, approved, others>>
  <2>1. thread[t].pc = "copied" /\ thread[t].pc \in AtWork /\ UNCHANGED <<disk, copy>>
    BY <1>1, <1>7 DEF At
  <2>2. JournalSays(r, "copied") /\ Knows("prove", r, "copied", seen)
    BY <1>5, <2>1 DEF Knows, HoldsBoth, JournalSays, CopySays
  <2> QED BY <1>1, <1>7, <2>1, <2>2, WriteStep
<1>8. CASE /\ At(t, "prove")
           /\ Write(t, s, "copied", "verified", TRUE, FALSE, "publish")
           /\ UNCHANGED <<disk, copy, approved, others>>
  <2>1. thread[t].pc = "prove" /\ thread[t].pc \in AtWork /\ UNCHANGED <<disk, copy>>
    BY <1>1, <1>8 DEF At
  <2>2. JournalSays(r, "verified") /\ Knows("publish", r, "verified", seen)
    BY <1>5, <2>1 DEF Knows, HoldsBoth, JournalSays, CopySays
  <2> QED BY <1>1, <1>8, <2>1, <2>2, WriteStep
<1>9. CASE /\ At(t, "prove")
           /\ Goto(t, "dropCopy") /\ Fault
           /\ UNCHANGED <<storeVars, disk, copy, detail, approved, others>>
  <2>1. thread[t].pc = "prove" /\ thread[t].pc \in AtWork /\ UNCHANGED <<receipts, disk, copy, detail>>
    BY <1>1, <1>9 DEF At, storeVars
  <2>2. Knows("dropCopy", r, stage, seen)
    BY <1>5, <2>1 DEF Knows, HoldsBoth, JournalSays, CopySays
  <2>3. Turned(t, "dropCopy")
    BY <1>1, <1>5, <1>9, <2>1, Turning
  <2> QED BY <1>1, <2>1, <2>2, <2>3, TurnStep
<1>10. CASE /\ At(t, "droppedCopy")
            /\ Write(t, s, receipts[r].stage, receipts[r].stage, copy[r] # "none", FALSE, "fail")
            /\ UNCHANGED <<disk, copy, approved, others>>
  <2>1. \/ Write(t, s, receipts[r].stage, receipts[r].stage, TRUE, FALSE, "fail")
        \/ Write(t, s, receipts[r].stage, receipts[r].stage, FALSE, FALSE, "fail")
    BY <1>10, TemporaryColumn, Zenon
  <2>2. thread[t].pc = "droppedCopy" /\ thread[t].pc \in AtWork /\ UNCHANGED <<disk, copy>>
    BY <1>1, <1>10 DEF At
  <2>3. /\ JournalSays(r, stage) /\ Knows("fail", r, stage, seen) /\ stage \in Stage
        /\ stage \notin Terminal
    BY <1>1, <1>5, <2>2 DEF Knows, HoldsBoth
  <2> QED BY <1>1, <2>1, <2>2, <2>3, WriteStep
<1>11. CASE /\ At(t, "publishFailed")
            /\ Write(t, s, "verified", "verified", copy[r] # "none", FALSE, "fail")
            /\ UNCHANGED <<disk, copy, approved, others>>
  <2>1. \/ Write(t, s, "verified", "verified", TRUE, FALSE, "fail")
        \/ Write(t, s, "verified", "verified", FALSE, FALSE, "fail")
    BY <1>11, TemporaryColumn, Zenon
  <2>2. thread[t].pc = "publishFailed" /\ thread[t].pc \in AtWork /\ UNCHANGED <<disk, copy>>
    BY <1>1, <1>11 DEF At
  <2>3. JournalSays(r, "verified") /\ Knows("fail", r, "verified", seen)
    BY <1>5, <2>2 DEF Knows, HoldsBoth
  <2> QED BY <1>1, <2>1, <2>2, <2>3, WriteStep
<1>12. CASE /\ At(t, "publishedCopy")
            /\ Write(t, s, "verified", "published", FALSE, FALSE, "proveDestination")
            /\ UNCHANGED <<disk, copy, approved, others>>
  <2>1. thread[t].pc = "publishedCopy" /\ thread[t].pc \in AtWork /\ UNCHANGED <<disk, copy>>
    BY <1>1, <1>12 DEF At
  <2>2. JournalSays(r, "published") /\ Knows("proveDestination", r, "published", seen)
    BY <1>5, <2>1 DEF Knows, HoldsBoth, JournalSays, CopySays
  <2> QED BY <1>1, <1>12, <2>1, <2>2, WriteStep
<1>13. CASE /\ At(t, "proveDestination")
            /\ disk[d.dst] = "doc" /\ ~ Locked(d.dst)
            /\ Write(t, s, "published", "published", FALSE, FALSE, "fence")
            /\ UNCHANGED <<disk, copy, approved, others>>
  <2>1. thread[t].pc = "proveDestination" /\ thread[t].pc \in AtWork /\ UNCHANGED <<disk, copy>>
    BY <1>1, <1>13 DEF At
  <2>2. JournalSays(r, "published") /\ Knows("fence", r, "published", seen)
    BY <1>5, <2>1 DEF Knows, HoldsBoth, JournalSays, CopySays
  <2> QED BY <1>1, <1>13, <2>1, <2>2, WriteStep
<1>14. CASE /\ At(t, "proveDestination")
            /\ disk[d.dst] \notin {"none", "doc"} /\ ~ Locked(d.dst)
            /\ Write(t, s, "published", "published", FALSE, TRUE, "fail")
            /\ UNCHANGED <<disk, copy, approved, others>>
  <2>1. thread[t].pc = "proveDestination" /\ thread[t].pc \in AtWork /\ UNCHANGED <<disk, copy>>
    BY <1>1, <1>14 DEF At
  <2>2. JournalSays(r, "published") /\ Knows("fail", r, "published", seen)
    BY <1>5, <2>1 DEF Knows, HoldsBoth
  <2> QED BY <1>1, <1>14, <2>1, <2>2, WriteStep
<1>15. CASE /\ At(t, "proveDestination")
            /\ Fails(Exists(d.dst) /\ ~ Locked(d.dst))
            /\ FailWith(t, "OTHER")
            /\ UNCHANGED <<storeVars, disk, copy, detail, approved, others>>
  <2>1. thread[t].pc \in AtWork /\ UNCHANGED <<receipts, disk, copy, detail>>
    BY <1>1, <1>15 DEF At, storeVars
  <2>2. Turned(t, "fail")
    BY <1>1, <1>5, <1>15, <2>1, Turning DEF FailWith
  <2> QED BY <2>1, <2>2, FailStep
<1>16. CASE /\ At(t, "deleted")
            /\ Write(t, s, "published", "complete", FALSE, FALSE, "finish")
            /\ UNCHANGED <<disk, copy, approved, others>>
  <2>1. thread[t].pc = "deleted" /\ thread[t].pc \in AtWork /\ UNCHANGED <<disk, copy>>
    BY <1>1, <1>16 DEF At
  <2>2. /\ JournalSays(r, "complete") /\ Knows("finish", r, "complete", seen)
        /\ copy[r] = "none"
    BY <1>5, <2>1 DEF Knows, HoldsBoth, JournalSays, CopySays
  <2> QED BY <1>1, <1>16, <2>1, <2>2, WriteStep
<1> QED
  BY <1>2, <1>3, <1>4, <1>6, <1>7, <1>8, <1>9, <1>10, <1>11, <1>12, <1>13, <1>14, <1>15, <1>16
     DEF cross_volume_transfer

\* A step that leaves the journal and the files as they are, and after which
\* the thread has nothing in hand.
LEMMA AwayStep ==
  ASSUME FInv, HInv', NEW t \in Thread, \A u \in Thread \ {t} : At(u, "idle"),
         \A u \in Thread \ {t} : thread'[u] = thread[u], thread'[t].pc \notin AtWork,
         UNCHANGED <<receipts, disk, copy, detail>>
  PROVE  FInv'
<1>1. JournalStands /\ \A r \in ReceiptId : receipts'[r].stage = receipts[r].stage
  BY DEF JournalStands
<1>2. JournalIsSo' /\ NoCopyLeft'
  BY <1>1, SameJournal
<1> QED BY <1>2, AsideStep

\* The stores of a failed, finished or parked operation change the row and
\* not the journal.
LEMMA AwayKeeps ==
  ASSUME FInv, HInv', NEW t \in Thread, NEW s \in Session,
         \/ park_unsettled(t, s) \/ claim(t, s) \/ finish(t, s) \/ reconciliation_error(t, s)
         \/ apply_if_unchanged(t, s) \/ review(t, s) \/ report_settled(t, s)
  PROVE  FInv'
<1>1. UNCHANGED <<receipts, disk, copy, detail>>
  BY DEF park_unsettled, claim, finish, reconciliation_error, apply_if_unchanged, review,
         report_settled, Review, park_applying_for_review, claim_applying_reconciliation,
         finish_applying, defer_published_reconciliation, record_applying_rollback,
         begin_applying, mark_needs_review, storeVars
<1>2. ~ At(t, "idle")
  BY DEF park_unsettled, claim, finish, reconciliation_error, apply_if_unchanged, review,
         report_settled, At
<1>3. thread \in [Thread -> State]
  BY StateTypes DEF FInv
<1>4. CASE \E pc \in {"claim", "review", "report", "examine", "plan"} : Turned(t, pc)
  <2>1. PICK pc \in {"claim", "review", "report", "examine", "plan"} : Turned(t, pc)
    BY <1>4
  <2>2. thread'[t].pc \notin AtWork /\ \A u \in Thread \ {t} : thread'[u] = thread[u]
    BY <2>1, Points DEF Turned
  <2> QED BY <1>1, <1>2, <2>2, IsAlone, AwayStep
<1>5. CASE Stop(t)
  <2>1. thread'[t].pc \notin AtWork /\ \A u \in Thread \ {t} : thread'[u] = thread[u]
    <3>1. Idle.pc = "idle" /\ "idle" \notin AtWork
      BY Points DEF Idle
    <3> QED BY <1>3, <1>5, <3>1, Leaving
  <2> QED BY <1>1, <1>2, <2>1, IsAlone, AwayStep
<1>6. CASE thread' = [thread EXCEPT ![t].pc = "examine", ![t].job = "reclaimed"]
  <2>1. thread[t] \in State
    BY <1>3
  <2>2. /\ thread' = [thread EXCEPT ![t] = [thread[t] EXCEPT !.pc = "examine", !.job = "reclaimed"]]
        /\ [thread[t] EXCEPT !.pc = "examine", !.job = "reclaimed"].pc = "examine"
    BY <1>6, <2>1 DEF State
  <2>3. thread'[t].pc \notin AtWork /\ \A u \in Thread \ {t} : thread'[u] = thread[u]
    BY <1>3, <2>2, Points
  <2> QED BY <1>1, <1>2, <2>3, IsAlone, AwayStep
<1>7. \/ Reconciled(t, FALSE) \/ GaveUp(t) \/ Stop(t)
      \/ Goto(t, "report") \/ Goto(t, "plan")
      \/ thread' = [thread EXCEPT ![t].pc = "examine", ![t].job = "reclaimed"]
  BY DEF park_unsettled, claim, finish, reconciliation_error, apply_if_unchanged, review,
         report_settled
<1>8. CASE Goto(t, "report") \/ Goto(t, "plan")
  BY <1>3, <1>4, <1>8, Turning, Points, StateTypes DEF FInv
<1> QED BY <1>3, <1>4, <1>5, <1>6, <1>7, <1>8, Leaving

\* What reconcile proves of the files, and what the journal said of them,
\* tell where the document is.
LEMMA VerdictKnows ==
  ASSUME FInv, NEW r \in ReceiptId, IsNewest(r, D),
         NEW verdict \in {Verdict(r)} \cup Spoilt(Verdict(r))
  PROVE  Knows(verdict.pc, r, receipts[r].stage, receipts[r].stage)
<1> DEFINE d == detail[r]
           stage == receipts[r].stage
           Good(v) == Knows(v.pc, r, stage, stage)
<1>1. Written(r) /\ JournalSays(r, stage)
  BY DEF FInv, JournalIsSo, IsNewest, Written
<1>2. /\ stage \in Stage /\ d \in Detail
      /\ d.src \in Place /\ d.dst \in Place /\ d.src # d.dst
  <2>1. stage \in Stage /\ d \in Detail
    BY <1>1, StageInHand DEF FInv, HInv, Types
  <2>2. d.src # d.dst
    BY <1>1 DEF FInv, HInv, Paths, Name
  <2> QED BY <2>1, <2>2 DEF Detail
<1>3. d.kind \in {"rename", "copy"}
  BY <1>2 DEF Detail
<1>4. /\ SourceIsIntact(d) => disk[d.src] \in Document
      /\ DestinationIsIntact(d) => disk[d.dst] \in Document
      /\ ~ Exists(d.src) => disk[d.src] \notin Document
      /\ ~ Exists(d.dst) => disk[d.dst] \notin Document
  BY DEF SourceIsIntact, DestinationIsIntact, Exists, Document
<1>5. /\ disk[d.src] \in Document /\ Moved(r) => FALSE
      /\ disk[d.dst] \in Document /\ Unmoved(r) => FALSE
      /\ disk[d.src] \in Document /\ disk[d.dst] \notin Document /\ Between(r) => Unmoved(r)
      /\ disk[d.dst] \in Document /\ disk[d.src] \notin Document /\ Between(r) => Moved(r)
  BY <1>2 DEF Moved, Unmoved, OnlyAt, Between
<1>6. \A e \in {"OTHER", "SOURCE_DELETE_FAILED", "RECONCILIATION_REQUIRED"} : Good(Park(e))
  BY DEF Park, Knows, HoldsBoth
<1>7. /\ stage \in {"planned", "copied", "verified", "rollback_required", "rolled_back"}
           /\ Unmoved(r) => Good(To_("cleanUp"))
      /\ Moved(r) /\ copy[r] = "none" => Good(To_("confirm"))
      /\ d.kind = "copy" /\ stage = "published" => Good(To_("refence"))
      /\ d.kind = "copy" /\ stage = "verified" /\ copy[r] = "none" => Good(To_("catchUp"))
  BY DEF To_, Knows, HoldsBoth
<1>8. ASSUME stage = "rolled_back" PROVE Good(Verdict(r))
  <2>1. Unmoved(r)
    BY <1>1, <1>8 DEF JournalSays, RenameSays, CopySays
  <2>2. Good(reconcile_rolled_back(d))
    <3> HIDE DEF Good, d, stage
    <3> QED BY <1>6, <1>7, <1>8, <2>1 DEF reconcile_rolled_back, BackIf
  <2> HIDE DEF Good
  <2> QED BY <1>8, <2>2 DEF Verdict
<1>9. ASSUME stage = "published" PROVE Good(Verdict(r))
  <2>1. copy[r] = "none" /\ (d.kind = "rename" => Moved(r)) /\ (d.kind = "copy" => Between(r))
    BY <1>1, <1>9 DEF JournalSays, RenameSays, CopySays
  <2>2. CASE DestinationIsIntact(d) /\ ~ Exists(d.src)
    <3>1. Moved(r)
      BY <1>3, <1>4, <1>5, <2>1, <2>2
    <3>2. reconcile_published(d) = To_("confirm")
      BY <2>2 DEF reconcile_published
    <3>3. Good(reconcile_published(d))
      BY <1>7, <2>1, <3>1, <3>2
    <3> HIDE DEF Good
    <3> QED BY <1>9, <3>3 DEF Verdict
  <2>3. CASE DestinationIsIntact(d) /\ disk[d.src] = "doc"
    <3>1. d.kind = "copy"
      BY <1>3, <1>5, <2>1, <2>3 DEF Document
    <3>2. reconcile_published(d) \in {To_("refence"), Park("SOURCE_DELETE_FAILED")}
      BY <2>3 DEF reconcile_published, Exists
    <3>3. Good(reconcile_published(d))
      <4> HIDE DEF Good, d, stage
      <4> QED BY <1>6, <1>7, <1>9, <3>1, <3>2
    <3> HIDE DEF Good
    <3> QED BY <1>9, <3>3 DEF Verdict
  <2>4. CASE ~ DestinationIsIntact(d) \/ (Exists(d.src) /\ disk[d.src] # "doc")
    <3>1. reconcile_published(d) \in {Park("OTHER"), Park("SOURCE_DELETE_FAILED")}
      BY <2>4 DEF reconcile_published
    <3>2. Good(reconcile_published(d))
      <4> HIDE DEF Good, d, stage
      <4> QED BY <1>6, <3>1
    <3> HIDE DEF Good
    <3> QED BY <1>9, <3>2 DEF Verdict
  <2> QED BY <2>2, <2>3, <2>4 DEF Exists
<1>10. ASSUME stage = "complete" PROVE Good(Verdict(r))
  <2>1. Moved(r) /\ copy[r] = "none"
    BY <1>1, <1>10 DEF JournalSays, RenameSays, CopySays
  <2>2. Good(reconcile_complete(d))
    <3> HIDE DEF Good, d, stage
    <3> QED BY <1>6, <1>7, <2>1 DEF reconcile_complete, DoneIf
  <2> HIDE DEF Good
  <2> QED BY <1>10, <2>2 DEF Verdict
<1>11. ASSUME stage \in {"planned", "copied", "verified", "rollback_required"} PROVE Good(Verdict(r))
  <2>1. Between(r)
    BY <1>1, <1>2, <1>3, <1>11
       DEF JournalSays, RenameSays, CopySays, Between, Unmoved, Moved, OnlyAt
  <2>2. SourceIsIntact(d) /\ ~ Exists(d.dst) => Unmoved(r)
    BY <1>4, <1>5, <2>1
  <2>3. DestinationIsIntact(d) /\ ~ Exists(d.src) => Moved(r)
    BY <1>4, <1>5, <2>1
  <2>4. Moved(r) => copy[r] = "none"
    <3>1. ~ (Moved(r) /\ Unmoved(r))
      BY <1>2 DEF Moved, Unmoved, OnlyAt
    <3> QED BY <1>1, <1>3, <1>11, <3>1 DEF JournalSays, RenameSays, CopySays
  <2>5. Good(reconcile_incomplete(d, stage, copy[r]))
    <3> HIDE DEF Good, d, stage
    <3> QED BY <1>6, <1>7, <1>11, <2>2, <2>3, <2>4 DEF reconcile_incomplete, BackIf, DoneIf
  <2> HIDE DEF Good
  <2> QED BY <1>11, <2>5 DEF Verdict
<1>12. Good(Verdict(r))
  <2> HIDE DEF Good
  <2> QED BY <1>2, <1>8, <1>9, <1>10, <1>11 DEF Stage, Terminal, Unfinished
<1>13. verdict = Verdict(r) \/ verdict \in {Park("OTHER"), Park("SOURCE_DELETE_FAILED")}
  BY DEF Spoilt
<1>14. Good(verdict)
  <2> HIDE DEF Good
  <2> QED BY <1>6, <1>12, <1>13
<1> QED BY <1>14

\* examine goes on from what it found, or has nothing to go on with.
LEMMA examineKeeps ==
  ASSUME FInv, HInv', NEW t \in Thread, NEW s \in Session, examine(t, s)
  PROVE  FInv'
<1> DEFINE r == items[D].active
<1>1. /\ thread[t].pc = "examine" /\ UNCHANGED <<receipts, disk, copy, detail>>
      /\ thread \in [Thread -> State] /\ thread[t] \in State
  BY StateTypes DEF examine, At, FInv, HInv, Types, resolve_empty_applying, storeVars
<1>2. \A u \in Thread \ {t} : At(u, "idle")
  BY <1>1, IsAlone DEF At
<1>3. ASSUME Reconciled(t, TRUE) \/ Reconciled(t, FALSE) PROVE FInv'
  <2>1. PICK pc \in {"claim", "review", "report"} : Turned(t, pc)
    BY <1>1, <1>3, Leaving
  <2>2. thread'[t].pc \notin AtWork /\ \A u \in Thread \ {t} : thread'[u] = thread[u]
    BY <2>1, Points DEF Turned
  <2> QED BY <1>1, <1>2, <2>2, AwayStep
<1>4. ASSUME r # NULL, NEW verdict \in {Verdict(r)} \cup Spoilt(Verdict(r)),
             thread' = [thread EXCEPT ![t].pc = verdict.pc, ![t].err = verdict.err,
                                      ![t].r = r, ![t].seen = receipts[r].stage]
      PROVE  FInv'
  <2>1. r \in ReceiptId /\ IsNewest(r, D)
    BY <1>4, ActiveIs DEF FInv, HInv
  <2>2. Knows(verdict.pc, r, receipts[r].stage, receipts[r].stage)
    BY <1>4, <2>1, VerdictKnows
  <2> DEFINE stage == receipts[r].stage
             pc == verdict.pc
             e == verdict.err
             next == [thread[t] EXCEPT !.pc = pc, !.err = e, !.r = r, !.seen = stage]
  <2>3. next.pc = pc /\ next.r = r /\ next.seen = stage
    <3> HIDE DEF pc, e, stage, r
    <3> QED BY <1>1 DEF State
  <2>4. thread' = [thread EXCEPT ![t] = next]
    BY <1>4
  <2>5. /\ thread'[t].pc = pc /\ thread'[t].r = r /\ thread'[t].seen = stage
        /\ \A u \in Thread \ {t} : thread'[u] = thread[u]
    <3> HIDE DEF next, pc, r, stage
    <3> QED BY <1>1, <2>3, <2>4
  <2>6. PICK q : q = r
    OBVIOUS
  <2>7. PICK x : x = stage
    OBVIOUS
  <2>8. PICK y : y = pc
    OBVIOUS
  <2>9. JournalStands /\ \A p \in ReceiptId : receipts'[p].stage = receipts[p].stage
    BY <1>1 DEF JournalStands
  <2>10. IsNewest(q, D)' /\ Knows(y, q, x, x)' /\ receipts'[q].stage = x
    <3>1. IsNewest(q, D) /\ Knows(y, q, x, x) /\ q \in ReceiptId /\ receipts'[q].stage = x
      BY <1>1, <2>1, <2>2, <2>6, <2>7, <2>8
    <3> QED BY <1>1, <2>9, <3>1, SameNewest, SameFiles
  <2>11. thread'[t].pc = y /\ thread'[t].r = q /\ thread'[t].seen = x
    BY <2>5, <2>6, <2>7, <2>8
  <2>12. Reached(t)'
    BY <2>10, <2>11 DEF Reached
  <2>13. JournalIsSo' /\ NoCopyLeft'
    BY <1>1, <2>9, SameJournal
  <2> QED BY <1>2, <2>5, <2>12, <2>13, AloneStep
<1>5. CASE r = NULL
  BY <1>3, <1>5 DEF examine
<1>6. CASE r # NULL
  <2>1. PICK verdict \in {Verdict(r)} \cup Spoilt(Verdict(r)) :
             thread' = [thread EXCEPT ![t].pc = verdict.pc, ![t].err = verdict.err,
                                      ![t].r = r, ![t].seen = receipts[r].stage]
    BY <1>6 DEF examine
  <2> QED BY <1>4, <1>6, <2>1
<1> QED BY <1>5, <1>6

\* cleanup_reconciled_temporary: the copy goes before the document is said to
\* be back where it was.
LEMMA cleanupKeeps ==
  ASSUME FInv, HInv', NEW t \in Thread, NEW s \in Session, cleanup_reconciled_temporary(t, s)
  PROVE  FInv'
<1>1. /\ {"cleanUp", "rollBack", "park"} \subseteq AtWork /\ AtWork \subseteq Point
      /\ {"OTHER", "SOURCE_DELETE_FAILED"} \subseteq ErrorCode
  <2>1. {"cleanUp", "rollBack", "park"} \subseteq AtWork
    BY DEF AtWork, HoldsSource
  <2> QED BY <2>1, Points DEF ErrorCode
<1>2. PICK r : r = thread[t].r
  OBVIOUS
<1>3. PICK seen : seen = thread[t].seen
  OBVIOUS
<1>4. PICK stage : stage = receipts[r].stage
  OBVIOUS
<1>5. /\ thread[t].pc = "cleanUp" /\ thread[t].pc \in AtWork
      /\ UNCHANGED <<receipts, disk, detail>>
  BY <1>1 DEF cleanup_reconciled_temporary, At, renew_operation_lease, storeVars
<1>6. /\ r \in ReceiptId /\ JournalSays(r, stage) /\ Knows("cleanUp", r, stage, seen)
      /\ detail[r].kind \in {"rename", "copy"}
      /\ thread \in [Thread -> State] /\ copy \in [ReceiptId -> Copy]
  BY <1>2, <1>3, <1>4, <1>5, InWork, StateTypes DEF FInv
<1>7. /\ Unmoved(r) /\ stage = seen
      /\ stage \in {"planned", "copied", "verified", "rollback_required", "rolled_back"}
  BY <1>6 DEF Knows
<1>8. /\ detail[r].kind = "rename" => copy[r] = "none"
      /\ copy[r] # "none" => stage \in {"planned", "copied", "verified"}
  BY <1>6, <1>7 DEF JournalSays, RenameSays, CopySays
<1>9. CASE copy[r] = "none" /\ Goto(t, "rollBack") /\ UNCHANGED copy
  <2>1. Turned(t, "rollBack")
    BY <1>1, <1>6, <1>9, Turning
  <2>2. Knows("rollBack", r, stage, seen)
    BY <1>7, <1>9 DEF Knows, HoldsBoth
  <2> QED BY <1>1, <1>2, <1>3, <1>4, <1>5, <1>9, <2>1, <2>2, TurnStep
<1>10. CASE (ParkWith(t, "OTHER") \/ ParkWith(t, "SOURCE_DELETE_FAILED")) /\ UNCHANGED copy
  <2>1. Turned(t, "park")
    BY <1>1, <1>6, <1>10, Turning DEF ParkWith
  <2> QED BY <1>5, <1>10, <2>1, FailStep
<1>11. CASE copy[r] # "none" /\ Goto(t, "rollBack") /\ copy' = [copy EXCEPT ![r] = "none"]
  <2>1. Turned(t, "rollBack")
    BY <1>1, <1>6, <1>11, Turning
  <2>2. detail[r].kind = "copy" /\ stage \in {"planned", "copied", "verified"}
    BY <1>6, <1>8, <1>11
  <2>3. copy'[r] = "none" /\ \A q \in ReceiptId \ {r} : copy'[q] = copy[q]
    BY <1>6, <1>11
  <2>4. JournalStands /\ receipts'[r].stage = stage /\ detail'[r] = detail[r]
        /\ \A q \in ReceiptId \ {r} : receipts'[q].stage = receipts[q].stage
    BY <1>4, <1>5 DEF JournalStands
  <2>5. Unmoved(r)'
    BY <1>5, <1>7 DEF Unmoved, OnlyAt
  <2>6. JournalSays(r, stage)' /\ Knows("rollBack", r, stage, seen)'
    BY <1>7, <2>2, <2>3, <2>4, <2>5 DEF JournalSays, CopySays, Knows, HoldsBoth
  <2>7. stage \in Stage
    BY <2>2 DEF Stage, Unfinished
  <2> QED BY <1>1, <1>2, <1>3, <1>5, <2>1, <2>3, <2>4, <2>6, <2>7, WorkStep
<1> QED
  BY <1>2, <1>8, <1>9, <1>10, <1>11 DEF cleanup_reconciled_temporary

\* The statement that settles a row, and the journal's catching up, say of
\* the disk what the thread has just seen of it.
LEMMA SettleKeeps ==
  ASSUME FInv, HInv', JournalStands, NEW t \in Thread, thread[t].pc \in AtWork,
         NEW pc \in {"claim", "review", "report", "examine"}, Turned(t, pc),
         NEW stage \in Stage, SetStage(thread[t].r, stage), UNCHANGED <<disk, copy>>,
         JournalSays(thread[t].r, stage), copy[thread[t].r] = "none"
  PROVE  FInv'
<1>1. PICK r : r = thread[t].r
  OBVIOUS
<1>2. /\ r \in ReceiptId /\ IsNewest(r, D) /\ receipts \in [ReceiptId -> Receipt]
      /\ \A u \in Thread \ {t} : At(u, "idle")
  BY <1>1, InWork DEF FInv, HInv, IInv, TypeOK
<1>3. /\ receipts'[r].stage = stage
      /\ \A q \in ReceiptId \ {r} : receipts'[q].stage = receipts[q].stage
  BY <1>1, <1>2 DEF SetStage, Receipt
<1>4. JournalSays(r, stage)'
  BY <1>1, <1>2, SameFiles
<1>5. JournalIsSo' /\ NoCopyLeft'
  BY <1>1, <1>2, <1>3, <1>4, NewestStep
<1>6. thread'[t].pc \notin AtWork /\ \A u \in Thread \ {t} : thread'[u] = thread[u]
  BY Points DEF Turned
<1> QED BY <1>2, <1>5, <1>6, AsideStep

\* resolve: the document is where the row is settled to say it is.
LEMMA resolveKeeps ==
  ASSUME FInv, HInv', NEW t \in Thread, NEW s \in Session, resolve(t, s)
  PROVE  FInv'
<1> DEFINE r == thread[t].r
           stage == receipts[r].stage
           seen == thread[t].seen
<1>1. {"rollBack", "confirm"} \subseteq AtWork /\ {"rolled_back", "complete"} \subseteq Stage
  BY DEF AtWork, HoldsSource, HoldsDestination, Stage, Terminal
<1>2. thread[t].pc \in {"rollBack", "confirm"} /\ thread[t].pc \in AtWork
      /\ UNCHANGED <<disk, copy, detail>>
  BY <1>1 DEF resolve, At
<1>3. /\ r \in ReceiptId /\ Knows(thread[t].pc, r, stage, seen)
      /\ detail[r].kind \in {"rename", "copy"}
      /\ thread \in [Thread -> State] /\ receipts \in [ReceiptId -> Receipt]
      /\ \A u \in Thread \ {t} : At(u, "idle")
  BY <1>2, InWork, StateTypes DEF FInv, HInv, IInv, TypeOK
<1>4. PICK pc \in {"claim", "review", "report", "examine"} : Turned(t, pc)
  <2>1. Reconciled(t, TRUE) \/ Reconciled(t, FALSE)
    BY DEF resolve
  <2> QED BY <1>3, <2>1, Leaving
<1>5. CASE At(t, "rollBack") /\ resolve_reconciled_rollback(s, D, r, seen)
  <2>1. Unmoved(r) /\ copy[r] = "none"
    BY <1>3, <1>5 DEF At, Knows
  <2>2. JournalSays(r, "rolled_back")
    BY <2>1 DEF JournalSays, RenameSays, CopySays
  <2>3. SetStage(r, "rolled_back")
    BY <1>5 DEF resolve_reconciled_rollback
  <2>4. JournalStands
    BY <1>2, <1>3, <2>3 DEF JournalStands, SetStage, Receipt
  <2> QED BY <1>1, <1>2, <1>4, <2>1, <2>2, <2>3, <2>4, SettleKeeps
<1>6. CASE At(t, "confirm") /\ resolve_verified_operation(s, D, r, seen)
  <2>1. Moved(r) /\ copy[r] = "none"
    BY <1>3, <1>6 DEF At, Knows
  <2>2. JournalSays(r, "complete")
    BY <2>1 DEF JournalSays, RenameSays, CopySays
  <2>3. SetStage(r, "complete")
    BY <1>6 DEF resolve_verified_operation
  <2>4. JournalStands
    BY <1>2, <1>3, <2>3 DEF JournalStands, SetStage, Receipt
  <2> QED BY <1>1, <1>2, <1>4, <2>1, <2>2, <2>3, <2>4, SettleKeeps
<1>7. CASE UNCHANGED storeVars
  <2>1. thread'[t].pc \notin AtWork /\ \A u \in Thread \ {t} : thread'[u] = thread[u]
    BY <1>4, Points DEF Turned
  <2> QED BY <1>2, <1>3, <1>7, <2>1, AwayStep DEF storeVars
<1> QED BY <1>5, <1>6, <1>7 DEF resolve

\* catch_up: a publication the journal is one write behind is written down.
LEMMA catch_upKeeps ==
  ASSUME FInv, HInv', NEW t \in Thread, NEW s \in Session, catch_up(t, s)
  PROVE  FInv'
<1> DEFINE r == thread[t].r
           stage == receipts[r].stage
           seen == thread[t].seen
<1>1. /\ {"catchUp", "park"} \subseteq AtWork /\ AtWork \subseteq Point
      /\ "published" \in Stage /\ "OTHER" \in ErrorCode
  <2>1. {"catchUp", "park"} \subseteq AtWork /\ "published" \in Stage
    BY DEF AtWork, Stage, Unfinished
  <2> QED BY <2>1, Points DEF ErrorCode
<1>2. thread[t].pc = "catchUp" /\ thread[t].pc \in AtWork /\ UNCHANGED <<disk, copy>>
  BY <1>1 DEF catch_up, At
<1>3. /\ r \in ReceiptId /\ Knows(thread[t].pc, r, stage, seen) /\ JournalSays(r, stage)
      /\ detail[r] \in Detail /\ detail \in [ReceiptId -> Detail]
      /\ thread \in [Thread -> State] /\ receipts \in [ReceiptId -> Receipt]
  BY <1>2, InWork, StateTypes DEF FInv, HInv, IInv, TypeOK
<1>4. CASE /\ update_receipt(s, D, r, "verified", "published")
           /\ detail' = [detail EXCEPT ![r].temp = FALSE]
           /\ Goto(t, "examine")
  <2>1. detail[r].kind = "copy" /\ copy[r] = "none" /\ stage = "verified"
    BY <1>2, <1>3 DEF Knows
  <2>2. Between(r)
    BY <1>3, <2>1 DEF JournalSays, CopySays, Unmoved, OnlyAt, Between
  <2>3. JournalSays(r, "published")
    BY <2>1, <2>2 DEF JournalSays, CopySays
  <2>4. SetStage(r, "published")
    BY <1>4 DEF update_receipt
  <2>5. detail' = [detail EXCEPT ![r] = [detail[r] EXCEPT !.temp = FALSE]]
    BY <1>4
  <2>6. /\ [detail[r] EXCEPT !.temp = FALSE].kind = detail[r].kind
        /\ [detail[r] EXCEPT !.temp = FALSE].src = detail[r].src
        /\ [detail[r] EXCEPT !.temp = FALSE].dst = detail[r].dst
    BY <1>3 DEF Detail
  <2>7. JournalStands
    <3>1. \A q \in ReceiptId : receipts'[q].item = receipts[q].item /\ receipts'[q].dir = receipts[q].dir
      BY <1>3, <2>4 DEF SetStage, Receipt
    <3> QED BY <1>3, <2>5, <2>6, <3>1 DEF JournalStands
  <2>8. Turned(t, "examine")
    BY <1>1, <1>3, <1>4, Turning, Points
  <2> QED BY <1>1, <1>2, <2>1, <2>3, <2>4, <2>7, <2>8, SettleKeeps
<1>5. CASE ParkWith(t, "OTHER") /\ UNCHANGED <<storeVars, detail>>
  <2>1. Turned(t, "park")
    BY <1>1, <1>3, <1>5, Turning DEF ParkWith
  <2> QED BY <1>2, <1>5, <2>1, FailStep DEF storeVars
<1> QED BY <1>4, <1>5 DEF catch_up

\* While nothing is under way the document is at one path.
LEMMA AtOnePath ==
  ASSUME FInv, ~ HasUnfinishedReceipt(D)
  PROVE  \E p \in Place : OnlyAt(p)
<1>1. CASE \A r \in ReceiptId : ~ Written(r)
  BY <1>1 DEF FInv, JournalIsSo, Place
<1>2. CASE ~ \A r \in ReceiptId : ~ Written(r)
  <2>1. PICK r \in ReceiptId : IsNewest(r, D)
    BY <1>2, NewestIs
  <2>2. Written(r)
    BY <2>1 DEF IsNewest, Written
  <2>3. receipts[r].stage \in Stage /\ detail[r] \in Detail
    BY <2>2, StageInHand DEF FInv, HInv, Types
  <2>4. receipts[r].stage \in Terminal
    BY <2>2, <2>3 DEF HasUnfinishedReceipt, Written, Stage
  <2>5. JournalSays(r, receipts[r].stage)
    BY <2>1 DEF FInv, JournalIsSo
  <2>6. Moved(r) \/ Unmoved(r)
    BY <2>4, <2>5 DEF JournalSays, RenameSays, CopySays, Terminal
  <2>7. detail[r].src \in Place /\ detail[r].dst \in Place
    BY <2>3 DEF Detail
  <2> QED BY <2>6, <2>7 DEF Moved, Unmoved
<1> QED BY <1>1, <1>2

\* plan writes an operation on the document where it is.
LEMMA planKeeps ==
  ASSUME FInv, HInv', NEW t \in Thread, NEW s \in Session, plan(t, s)
  PROVE  FInv'
<1> DEFINE job == thread[t].job
<1>1. /\ thread[t].pc = "plan" /\ job \in Direction /\ UNCHANGED <<disk, copy>>
      /\ thread \in [Thread -> State] /\ thread[t] \in State
      /\ detail \in [ReceiptId -> Detail]
  BY StateTypes DEF plan, At, FInv, HInv, InHand, Types
<1>2. \A u \in Thread \ {t} : At(u, "idle")
  BY <1>1, IsAlone DEF At
<1>3. ASSUME NEW kind \in Kinds, NEW r \in ReceiptId, Ready(s, job, kind),
             create_receipt(s, D, r, job),
             detail' = [detail EXCEPT ![r] = [kind |-> kind, src |-> From(job), dst |-> To(job),
                                              temp |-> FALSE, differs |-> FALSE]],
             thread' = [thread EXCEPT ![t].r = r, ![t].pc = kind]
      PROVE  FInv'
  <2>1. /\ ~ Written(r) /\ Written(r)'
        /\ receipts'[r].item = D /\ receipts'[r].stage = "planned"
        /\ \A q \in ReceiptId \ {r} : receipts'[q] = receipts[q]
    BY <1>1, <1>3, Creating DEF FInv
  <2>2. kind \in {"rename", "copy"}
    BY FileAssumption
  <2>3. From(job) \in Place
    BY <1>1, <1>3, PlannedPaths DEF FInv, Place
  <2>4. OnlyAt(From(job))
    <3>1. PICK p \in Place : OnlyAt(p)
      BY <1>3, AtOnePath DEF Ready
    <3>2. disk[From(job)] \in Document
      BY <1>3 DEF Ready, Document
    <3>3. From(job) = p
      BY <2>3, <3>1, <3>2 DEF OnlyAt
    <3> QED BY <3>1, <3>3
  <2>5. PICK p : p = From(job)
    OBVIOUS
  <2>6. detail'[r].kind = kind /\ detail'[r].src = p
        /\ \A q \in ReceiptId \ {r} : detail'[q] = detail[q]
    BY <1>1, <1>3, <2>5
  <2>7. Unmoved(r)'
    <3>1. OnlyAt(p)
      BY <2>4, <2>5
    <3>2. OnlyAt(p)'
      BY <1>1, <3>1 DEF OnlyAt
    <3> QED BY <2>6, <3>2 DEF Unmoved
  <2>8. copy'[r] = "none"
    <3>1. receipts[r].stage = "absent"
      BY <1>3 DEF create_receipt, BindReceipt, NextReceiptId
    <3> QED BY <1>1, <3>1 DEF FInv, NoCopyLeft, NoRow
  <2>9. JournalSays(r, "planned")'
    BY <2>7, <2>8 DEF JournalSays, RenameSays, CopySays
  <2>10. IsNewest(r, D)'
    BY <2>1, OneDocument DEF HInv, IInv, UnfinishedReceiptIsNewest, Unfinished
  <2>11. ASSUME NEW q \in ReceiptId, IsNewest(q, D)' PROVE q = r
    BY <2>10, <2>11, OneDocument, SMT DEF IsNewest
  <2>12. JournalIsSo'
    BY <2>1, <2>9, <2>11 DEF JournalIsSo
  <2>13. NoCopyLeft'
    BY <1>1, <2>1, <2>8 DEF FInv, NoCopyLeft
  <2>14. /\ [thread[t] EXCEPT !.r = r, !.pc = kind].r = r
         /\ [thread[t] EXCEPT !.r = r, !.pc = kind].pc = kind
    BY <1>1 DEF State
  <2>15. thread'[t].pc = kind /\ thread'[t].r = r /\ \A u \in Thread \ {t} : thread'[u] = thread[u]
    BY <1>1, <1>3, <2>14
  <2>16. \A seen : Knows(kind, r, "planned", seen)'
    BY <2>2, <2>6, <2>7 DEF Knows, HoldsBoth
  <2>17. Reached(t)'
    BY <2>1, <2>10, <2>15, <2>16 DEF Reached
  <2> QED BY <1>2, <2>12, <2>13, <2>15, <2>17, AloneStep
<1>4. ASSUME Goto(t, "examine"), UNCHANGED <<storeVars, detail>> PROVE FInv'
  <2>1. Turned(t, "examine")
    BY <1>1, <1>4, Turning, Points, StateTypes DEF FInv
  <2>2. thread'[t].pc \notin AtWork /\ \A u \in Thread \ {t} : thread'[u] = thread[u]
    BY <2>1, Points DEF Turned
  <2> QED BY <1>1, <1>2, <1>4, <2>2, AwayStep DEF storeVars
<1> QED BY <1>3, <1>4 DEF plan

\* A thread takes work up while no other is at it.
LEMMA TakeUpKeeps ==
  ASSUME ~ Overlap, FInv, HInv', NEW t \in Thread, NEW s \in Session, TakeUp(t, s) \/ recover(t, s)
  PROVE  FInv'
<1>1. \A u \in Thread \ {t} : At(u, "idle")
  BY DEF TakeUp, recover, approve, undo, retry, keep_original, apply_pending_ready, Free
<1>2. UNCHANGED <<receipts, disk, copy, detail>>
  BY DEF TakeUp, recover, approve, undo, retry, keep_original, apply_pending_ready, fileVars,
         storeVars, approve_user_edit, begin_applying, claim_deferred_reconciliation,
         complete_keep_original, cas_status
<1>3. thread \in [Thread -> State] /\ Idle \in State
  BY StateTypes DEF FInv, Idle, State, Point, Job, ErrorCode
<1>4. ASSUME NEW job, NEW pc \in {"begin", "plan", "examine"}, Begin(t, job, pc) PROVE FInv'
  <2>1. [Idle EXCEPT !.job = job, !.pc = pc].pc = pc
    BY <1>3 DEF State
  <2>2. thread'[t].pc \notin AtWork /\ \A u \in Thread \ {t} : thread'[u] = thread[u]
    BY <1>3, <1>4, <2>1, Points DEF Begin
  <2> QED BY <1>1, <1>2, <2>2, AwayStep
<1>5. CASE keep_original(t, s)
  <2>1. thread' = thread /\ thread[t].pc = "idle" /\ "idle" \notin AtWork
    BY <1>5, Points DEF keep_original, fileVars, Free, At
  <2> QED BY <1>1, <1>2, <2>1, AwayStep
<1> QED
  BY <1>4, <1>5 DEF TakeUp, recover, approve, undo, retry, apply_pending_ready

\* What others do, and what the store does by itself: a document that was at
\* one path only is there still.
LEMMA AsideKeeps ==
  ASSUME FInv, HInv', UNCHANGED <<receipts, copy, detail, thread>>,
         \A p : OnlyAt(p) => OnlyAt(p)',
         \A r \in ReceiptId : Between(r) => Between(r)'
  PROVE  FInv'
<1>1. ASSUME NEW r \in ReceiptId
      PROVE  (Unmoved(r) => Unmoved(r)') /\ (Moved(r) => Moved(r)')
  BY DEF Unmoved, Moved
<1>2. ASSUME NEW r \in ReceiptId, NEW stage, JournalSays(r, stage) PROVE JournalSays(r, stage)'
  BY <1>1, <1>2 DEF JournalSays, RenameSays, CopySays
<1>3. ASSUME NEW r \in ReceiptId, NEW pc, NEW stage, NEW seen, Knows(pc, r, stage, seen)
      PROVE  Knows(pc, r, stage, seen)'
  BY <1>1, <1>3 DEF Knows
<1>4. \A r \in ReceiptId : (IsNewest(r, D)' <=> IsNewest(r, D)) /\ (Written(r)' <=> Written(r))
  BY DEF IsNewest, Written
<1>5. JournalIsSo'
  <2>1. ASSUME NEW r \in ReceiptId, IsNewest(r, D)' PROVE JournalSays(r, receipts[r].stage)'
    <3>1. PICK stage : stage = receipts[r].stage
      OBVIOUS
    <3>2. JournalSays(r, stage)'
      BY <1>2, <1>4, <2>1, <3>1 DEF FInv, JournalIsSo
    <3> QED BY <3>1, <3>2
  <2> QED BY <1>4, <2>1 DEF FInv, JournalIsSo
<1>6. ASSUME NEW t \in Thread PROVE Reached(t)'
  <2>1. PICK r : r = thread[t].r
    OBVIOUS
  <2>2. PICK seen : seen = thread[t].seen
    OBVIOUS
  <2>3. PICK stage : stage = receipts[r].stage
    OBVIOUS
  <2>4. PICK pc : pc = thread[t].pc
    OBVIOUS
  <2>5. (pc \in AtWork => r \in ReceiptId /\ IsNewest(r, D)) /\ Knows(pc, r, stage, seen)
    BY <2>1, <2>2, <2>3, <2>4 DEF FInv, Reached, HInv, InHand
  <2>6. Knows(pc, r, stage, seen)'
    BY <1>3, <2>5, NothingToKnow
  <2> QED BY <1>4, <2>1, <2>2, <2>3, <2>4, <2>5, <2>6 DEF Reached
<1>7. NoCopyLeft' /\ OneWorks'
  BY DEF FInv, NoCopyLeft, OneWorks, At
<1> QED BY <1>5, <1>6, <1>7 DEF FInv

\* Nobody else moves the document: it is edited where it is, or one of two
\* copies goes.
LEMMA OthersKeep ==
  ASSUME FInv, HInv', NEW p \in Place, Occupy(p) \/ Edit(p) \/ Discard(p)
  PROVE  FInv'
<1>1. /\ UNCHANGED <<receipts, copy, detail, thread>> /\ disk \in [Place -> Content]
      /\ \/ disk[p] = "none" /\ disk' = [disk EXCEPT ![p] = "other"]
         \/ disk[p] = "doc" /\ disk' = [disk EXCEPT ![p] = "edited"]
         \/ /\ disk[p] \in Document /\ disk' = [disk EXCEPT ![p] = "none"]
            /\ \E q \in Place \ {p} : disk[q] \in Document
  <2>1. disk \in [Place -> Content]
    BY DEF FInv, HInv, Types
  <2> QED BY <2>1 DEF Occupy, Edit, Discard, Exists, storeVars
<1>2. \A q \in Place \ {p} : disk'[q] = disk[q]
  BY <1>1
<1>3. {"other", "none"} \cap Document = {} /\ {"doc", "edited"} = Document
  BY DEF Document
<1>4. \A q \in Place : disk'[q] \in Document => disk[q] \in Document
  BY <1>1, <1>2, <1>3
<1>5. ASSUME NEW x, OnlyAt(x) PROVE OnlyAt(x)'
  <2>1. ~ \E q \in Place \ {p} : disk[p] \in Document /\ disk[q] \in Document
    BY <1>5 DEF OnlyAt
  <2>2. \A q \in Place : disk[q] \in Document => disk'[q] \in Document
    BY <1>1, <1>2, <1>3, <2>1
  <2> QED BY <1>4, <1>5, <2>2 DEF OnlyAt
<1>6. ASSUME NEW r \in ReceiptId, Between(r) PROVE Between(r)'
  BY <1>1, <1>4, <1>6 DEF Between
<1> QED BY <1>1, <1>5, <1>6, AsideKeeps

\* Sessions come and go, time passes, and a process that dies has nobody at
\* work: what the journal says stands.
LEMMA ProcessKeeps ==
  ASSUME FInv, HInv', (\E s \in Session : Start(s) \/ Quit(s) \/ Die(s)) \/ Pass
  PROVE  FInv'
<1>1. UNCHANGED <<receipts, disk, copy, detail>>
  BY DEF Start, Quit, Die, Pass, open, drop, Crash, Tick, fileVars
<1>2. (\A p : OnlyAt(p) => OnlyAt(p)') /\ \A r \in ReceiptId : Between(r) => Between(r)'
  BY <1>1 DEF OnlyAt, Between
<1>3. CASE UNCHANGED thread
  BY <1>1, <1>2, <1>3, AsideKeeps
<1>4. CASE thread' = [t \in Thread |-> Idle]
  <2>1. \A t \in Thread : thread'[t].pc = "idle" /\ "idle" \notin AtWork
    BY <1>4, Points DEF Idle
  <2>2. OneWorks'
    BY <2>1 DEF OneWorks, At
  <2>3. ASSUME NEW t \in Thread PROVE Reached(t)'
    <3>1. Knows(thread[t].pc, thread[t].r, receipts[thread[t].r].stage, thread[t].seen)'
      BY <2>1 DEF Knows, AtWork, HoldsSource, HoldsBoth, HoldsDestination
    <3> QED BY <2>1, <3>1 DEF Reached
  <2>4. JournalStands /\ \A r \in ReceiptId : receipts'[r].stage = receipts[r].stage
    BY <1>1 DEF JournalStands
  <2>5. JournalIsSo' /\ NoCopyLeft'
    BY <1>1, <2>4, SameJournal
  <2> QED BY <2>2, <2>3, <2>5 DEF FInv
<1> QED BY <1>3, <1>4 DEF Start, Quit, Die, Pass, fileVars

\* The document starts at its own path, and nothing has been written.
LEMMA InitKeeps == FileInit => FInv
<1> SUFFICES ASSUME FileInit PROVE FInv
  OBVIOUS
<1>1. EmptyReceipt.item = 0 /\ D # 0
  BY SMT DEF EmptyReceipt, D
<1>2. \A r \in ReceiptId : ~ Written(r) /\ ~ IsNewest(r, D)
  BY <1>1 DEF FileInit, Written, IsNewest
<1>3. OnlyAt("orig")
  BY DEF FileInit, OnlyAt, Document, Place
<1>4. JournalIsSo /\ NoCopyLeft
  BY <1>2, <1>3 DEF FileInit, JournalIsSo, NoCopyLeft
<1>5. \A t \in Thread : thread[t].pc = "idle" /\ "idle" \notin AtWork
  BY Points DEF FileInit, Idle
<1>6. OneWorks
  BY <1>5 DEF OneWorks, At
<1>7. ASSUME NEW t \in Thread PROVE Reached(t)
  BY <1>5, NothingToKnow DEF Reached
<1> QED BY <1>4, <1>6, <1>7, InitHolds DEF FInv

\* Every step of the one thread, and of everybody else, preserves it.
LEMMA NextKeeps == ~ Overlap /\ FInv /\ [FileNext]_vars => FInv'
<1> SUFFICES ASSUME ~ Overlap, FInv, [FileNext]_vars PROVE FInv'
  OBVIOUS
<1>1. HInv'
  BY NextHolds DEF FInv
<1>2. CASE UNCHANGED vars
  <2>1. UNCHANGED <<receipts, disk, copy, detail, thread>>
    BY <1>2 DEF vars, fileVars, storeVars
  <2>2. (\A p : OnlyAt(p) => OnlyAt(p)') /\ \A r \in ReceiptId : Between(r) => Between(r)'
    BY <2>1 DEF OnlyAt, Between
  <2> QED BY <1>1, <2>1, <2>2, AsideKeeps
<1>3. ASSUME NEW t \in Thread, NEW s \in Session, GoOn(t, s) PROVE FInv'
  <2>1. CASE reconcile(t, s)
    BY <1>1, <2>1, examineKeeps, cleanupKeeps, resolveKeeps, catch_upKeeps, delete_sourceKeeps,
       AwayKeeps
       DEF reconcile
  <2> QED
    BY <1>1, <1>3, <2>1, planKeeps, same_volume_transferKeeps, cross_volume_transferKeeps, AwayKeeps
       DEF GoOn
<1> QED
  BY <1>1, <1>2, <1>3, TakeUpKeeps, ProcessKeeps, OthersKeep DEF FileNext, Recover

\* With one thread at a time, the journal's stages and the threads' points
\* say where the document is, whatever fails, whoever dies and whoever edits.
THEOREM FilingInvariance == ~ Overlap => (FileSpec => []FInv)
<1>1. ~ Overlap /\ FInv /\ [FileNext]_vars => FInv'
  BY NextKeeps
<1>2. CASE ~ Overlap
  <2>1. FInv /\ [FileNext]_vars => FInv'
    BY <1>1, <1>2
  <2> QED BY <2>1, InitKeeps, PTL DEF FileSpec
<1> QED BY <1>2

\* A receipt that is over says where the document is, and where it is not.
LEMMA SettledIsSo == FInv => SettledAgreesWithDisk /\ FinishedLeavesNoTemporary
<1> SUFFICES ASSUME FInv PROVE SettledAgreesWithDisk /\ FinishedLeavesNoTemporary
  OBVIOUS
<1>1. ASSUME Newest # NULL, receipts[Newest].stage \in Terminal
      PROVE  /\ disk[SettledSource(Newest)] \in Document
             /\ disk[SettledOther(Newest)] \notin Document
  <2>1. PICK r \in ReceiptId : r = Newest /\ IsNewest(r, D) /\ Written(r)
    BY <1>1, NewestIs DEF IsNewest, Written
  <2>2. JournalSays(r, receipts[r].stage)
    BY <2>1 DEF FInv, JournalIsSo
  <2>3. /\ receipts[r].stage = "complete" => Moved(r)
        /\ receipts[r].stage = "rolled_back" => Unmoved(r)
    BY <2>2 DEF JournalSays, RenameSays, CopySays
  <2>4. detail[r].src \in Place /\ detail[r].dst \in Place /\ detail[r].src # detail[r].dst
    BY <2>1 DEF FInv, HInv, Paths, Place, Name
  <2>5. receipts[r].stage \in {"complete", "rolled_back"}
    BY <1>1, <2>1 DEF Terminal
  <2>6. disk[SettledSource(r)] \in Document /\ disk[SettledOther(r)] \notin Document
    BY <2>3, <2>4, <2>5 DEF SettledSource, SettledOther, Moved, Unmoved, OnlyAt
  <2> QED BY <2>1, <2>6
<1>2. SettledAgreesWithDisk
  BY <1>1 DEF SettledAgreesWithDisk
<1>3. FinishedLeavesNoTemporary
  BY DEF FInv, NoCopyLeft, FinishedLeavesNoTemporary
<1> QED BY <1>2, <1>3

\* A complete receipt means the document is at its destination and gone from
\* its source, a rolled-back one the other way round: a rename is written
\* down before it is believed, and a deletion is proven by its handle.
THEOREM JournalAgreesWithDisk == ~ Overlap => (FileSpec => []SettledAgreesWithDisk)
  BY FilingInvariance, SettledIsSo, PTL

\* A finished operation leaves no temporary copy in a watched folder.
THEOREM NoTemporaryIsLeft == ~ Overlap => (FileSpec => []FinishedLeavesNoTemporary)
  BY FilingInvariance, SettledIsSo, PTL

-----------------------------------------------------------------------------
(* What a step does to the files *)

\* The journal says that an operation is under way, or was left undecided.
Undecided == Newest # NULL /\ receipts[Newest].stage \in Unfinished

\* The journal is written while the row is applying, and no file is touched.
Noted == disk' = disk /\ (receipts' = receipts \/ items[D].status = "applying")

\* The document is moved to a path that is free, a copy of it is published
\* at one, or the source is deleted.
Transferred ==
  /\ UNCHANGED storeVars
  /\ Undecided
  /\ \E p, q \in Place :
       \/ disk[p] \in Document /\ disk[q] = "none" /\ Move(p, q)
       \/ disk[q] = "none" /\ disk' = [disk EXCEPT ![q] = "doc"]
       \/ disk[p] = "doc" /\ disk' = [disk EXCEPT ![p] = "none"]

\* A thread at work on an unfinished receipt.
LEMMA AtUndecided ==
  ASSUME FInv, NEW t \in Thread, thread[t].pc \in AtWork,
         receipts[thread[t].r].stage \in Unfinished
  PROVE  Undecided
<1>1. thread[t].r \in ReceiptId /\ IsNewest(thread[t].r, D)
  BY InWork
<1>2. Newest = thread[t].r
  BY <1>1, NewestIs
<1> QED BY <1>1, <1>2, OneDocument DEF Undecided

\* same_volume_transfer moves the document, and nothing but it.
LEMMA same_volume_transferMoves ==
  ASSUME FInv, NEW t \in Thread, NEW s \in Session, same_volume_transfer(t, s)
  PROVE  Noted \/ Transferred
<1> DEFINE r == thread[t].r
           d == detail[r]
           stage == receipts[r].stage
<1>1. CASE /\ thread[t].pc \in {"rename", "moveBack"} /\ UNCHANGED storeVars
           /\ \E p, q \in {d.src, d.dst} :
                /\ p # q /\ CanMove(t, p, q) /\ Move(p, q)
                /\ p = IF thread[t].pc = "rename" THEN d.src ELSE d.dst
  <2>1. thread[t].pc \in AtWork
    BY <1>1 DEF AtWork
  <2>2. /\ Knows(thread[t].pc, r, stage, thread[t].seen) /\ JournalSays(r, stage)
        /\ d.src \in Place /\ d.dst \in Place
    BY <2>1, InWork
  <2>3. /\ stage \in Unfinished
        /\ thread[t].pc = "rename" => Unmoved(r)
        /\ thread[t].pc = "moveBack" => Moved(r)
    BY <1>1, <2>2 DEF Knows, Unfinished
  <2>4. Undecided
    BY <2>1, <2>3, AtUndecided
  <2>5. PICK p, q \in {d.src, d.dst} :
                /\ p # q /\ CanMove(t, p, q) /\ Move(p, q)
                /\ p = IF thread[t].pc = "rename" THEN d.src ELSE d.dst
    BY <1>1
  <2>6. disk[p] \in Document /\ disk[q] = "none" /\ p \in Place /\ q \in Place
    BY <1>1, <2>2, <2>3, <2>5 DEF Unmoved, Moved, OnlyAt, CanMove, Exists
  <2> QED BY <1>1, <2>4, <2>5, <2>6 DEF Transferred
<1>2. CASE disk' = disk
  <2>1. receipts' = receipts \/ items[D].status = "applying"
    BY DEF same_volume_transfer, Write, Rename, update_receipt, Holds, OwnsApplying, storeVars
  <2> QED BY <1>2, <2>1 DEF Noted
<1>3. ASSUME NEW p \in {d.src, d.dst}, NEW q \in {d.src, d.dst}, CanMove(t, p, q)
      PROVE  p # q
  BY <1>3 DEF CanMove
<1>4. ASSUME disk' # disk
      PROVE  /\ thread[t].pc \in {"rename", "moveBack"} /\ UNCHANGED storeVars
             /\ \E p, q \in {d.src, d.dst} :
                  /\ CanMove(t, p, q) /\ Move(p, q)
                  /\ p = IF thread[t].pc = "rename" THEN d.src ELSE d.dst
  BY <1>4 DEF same_volume_transfer, Rename, At
<1> QED BY <1>1, <1>2, <1>3, <1>4

\* So does cross_volume_transfer.
LEMMA cross_volume_transferMoves ==
  ASSUME FInv, NEW t \in Thread, NEW s \in Session, cross_volume_transfer(t, s)
  PROVE  Noted \/ Transferred
<1> DEFINE r == thread[t].r
           d == detail[r]
           stage == receipts[r].stage
<1>1. ASSUME thread[t].pc \in {"publish", "delete"}
      PROVE  Undecided /\ d.src \in Place /\ d.dst \in Place
  <2>1. thread[t].pc \in AtWork
    BY <1>1 DEF AtWork, HoldsSource, HoldsBoth
  <2>2. Knows(thread[t].pc, r, stage, thread[t].seen) /\ d.src \in Place /\ d.dst \in Place
    BY <2>1, InWork
  <2>3. stage \in Unfinished
    BY <1>1, <2>2 DEF Knows, Unfinished, HoldsBoth
  <2> QED BY <2>1, <2>2, <2>3, AtUndecided
<1>2. CASE disk' = disk
  <2>1. receipts' = receipts \/ items[D].status = "applying"
    BY DEF cross_volume_transfer, Write, copy_new_locked, temp_failure, publish, delete_source,
           update_receipt, renew_operation_lease, Holds, OwnsApplying, storeVars
  <2> QED BY <1>2, <2>1 DEF Noted
<1>3. CASE /\ At(t, "publish") /\ copy[r] = "doc" /\ ~ Exists(d.dst) /\ UNCHANGED storeVars
           /\ disk' = [disk EXCEPT ![d.dst] = copy[r]]
  BY <1>1, <1>3 DEF At, Exists, Transferred
<1>4. CASE At(t, "delete") /\ disk' = [disk EXCEPT ![d.src] = "none"] /\ UNCHANGED storeVars
  <2>1. d.src \in Held(t)
    BY <1>4, HeldIs DEF At, HoldsBoth
  <2>2. disk[d.src] = "doc"
    BY <2>1 DEF FInv, HInv, HeldIsDocument
  <2> QED BY <1>1, <1>4, <2>2 DEF At, Transferred
<1>5. \/ disk' = disk \/ publish(t) \/ delete_source(t, s, "fence", "delete", "deleted")
  BY DEF cross_volume_transfer, copy_new_locked, temp_failure
<1>6. CASE publish(t)
  BY <1>2, <1>3, <1>6 DEF publish
<1>7. CASE delete_source(t, s, "fence", "delete", "deleted")
  BY <1>2, <1>4, <1>7 DEF delete_source
<1> QED BY <1>2, <1>5, <1>6, <1>7

\* reconcile deletes the source of a publication it has proven; the rest of
\* it, and of what a thread does, touches no file.
LEMMA GoOnMoves ==
  ASSUME FInv, NEW t \in Thread, NEW s \in Session, GoOn(t, s)
  PROVE  Noted \/ Transferred
<1> DEFINE r == thread[t].r
           d == detail[r]
<1>1. CASE At(t, "deleteSource") /\ disk' = [disk EXCEPT ![d.src] = "none"] /\ UNCHANGED storeVars
  <2>1. thread[t].pc \in AtWork
    BY <1>1 DEF At, AtWork, HoldsBoth
  <2>2. Knows(thread[t].pc, r, receipts[r].stage, thread[t].seen) /\ d.src \in Place
    BY <2>1, InWork
  <2>3. receipts[r].stage \in Unfinished
    BY <1>1, <2>2 DEF Knows, Unfinished, HoldsBoth, At
  <2>4. d.src \in Held(t)
    BY <1>1, HeldIs DEF At, HoldsBoth
  <2>5. disk[d.src] = "doc"
    BY <2>4 DEF FInv, HInv, HeldIsDocument
  <2> QED BY <1>1, <2>1, <2>2, <2>3, <2>5, AtUndecided DEF Transferred
<1>2. CASE delete_source(t, s, "refence", "deleteSource", "confirm")
  <2>1. CASE disk' = disk
    <3>1. receipts' = receipts
      BY <1>2 DEF delete_source, renew_operation_lease, storeVars
    <3> QED BY <2>1, <3>1 DEF Noted
  <2> QED BY <1>1, <1>2, <2>1 DEF delete_source
<1>3. CASE \/ examine(t, s) \/ cleanup_reconciled_temporary(t, s) \/ resolve(t, s)
           \/ catch_up(t, s) \/ park_unsettled(t, s) \/ claim(t, s)
  <2>1. receipts' = receipts \/ items[D].status = "applying"
    BY <1>3 DEF examine, cleanup_reconciled_temporary, resolve, catch_up, park_unsettled, claim,
                resolve_empty_applying, renew_operation_lease, resolve_reconciled_rollback,
                resolve_verified_operation, update_receipt, park_applying_for_review,
                claim_applying_reconciliation, Holds, OwnsApplying, storeVars
  <2>2. disk' = disk
    BY <1>3 DEF examine, cleanup_reconciled_temporary, resolve, catch_up, park_unsettled, claim
  <2> QED BY <2>1, <2>2 DEF Noted
<1>4. CASE \/ apply_if_unchanged(t, s) \/ plan(t, s) \/ reconciliation_error(t, s)
           \/ finish(t, s) \/ review(t, s) \/ report_settled(t, s)
  <2>1. receipts' = receipts \/ items[D].status = "applying"
    BY <1>4 DEF apply_if_unchanged, plan, reconciliation_error, finish, review, report_settled,
                Review, begin_applying, mark_needs_review, create_receipt, BindReceipt,
                defer_published_reconciliation, record_applying_rollback, finish_applying,
                OwnsApplying, storeVars
  <2>2. disk' = disk
    BY <1>4 DEF apply_if_unchanged, plan, reconciliation_error, finish, review, report_settled
  <2> QED BY <2>1, <2>2 DEF Noted
<1> QED
  BY <1>2, <1>3, <1>4, same_volume_transferMoves, cross_volume_transferMoves DEF GoOn, reconcile

\* Another program, or a person, does something to the files.
Interfered == UNCHANGED storeVars /\ \E p \in Place : Occupy(p) \/ Edit(p) \/ Discard(p)

\* A step writes a note, transfers the document, or is somebody else's.
LEMMA StepMoves ==
  ASSUME FInv, [FileNext]_vars
  PROVE  Noted \/ Transferred \/ Interfered
<1>1. CASE UNCHANGED vars
  BY <1>1 DEF Noted, vars, storeVars, fileVars
<1>2. ASSUME NEW t \in Thread, NEW s \in Session, TakeUp(t, s) \/ recover(t, s) PROVE Noted
  BY <1>2 DEF Noted, TakeUp, recover, approve, undo, retry, keep_original, apply_pending_ready,
              fileVars, storeVars, approve_user_edit, begin_applying,
              claim_deferred_reconciliation, complete_keep_original, cas_status
<1>3. CASE (\E s \in Session : Start(s) \/ Quit(s) \/ Die(s)) \/ Pass
  BY <1>3 DEF Noted, Start, Quit, Die, Pass, open, drop, Crash, Tick, fileVars
<1>4. CASE \E p \in Place : Occupy(p) \/ Edit(p) \/ Discard(p)
  BY <1>4 DEF Interfered, Occupy, Edit, Discard
<1> QED BY <1>1, <1>2, <1>3, <1>4, GoOnMoves DEF FileNext, Recover

\* What anybody else put at a path stays there, and what a person wrote into
\* the document survives every step that is Intern's.
LEMMA UntouchedStep ==
  ASSUME FInv, [FileNext]_vars
  PROVE  /\ \A p \in Place : disk[p] = "other" => disk'[p] = "other"
         /\ (\E p \in Place : disk[p] = "edited") /\ others' = others
              => \E p \in Place : disk'[p] = "edited"
<1>1. disk \in [Place -> Content] /\ others \in Nat
  BY DEF FInv, HInv, Types
<1>2. CASE Noted
  BY <1>2 DEF Noted
<1>3. CASE Transferred
  <2>1. ASSUME NEW p \in Place, NEW q \in Place, disk[p] \in Document, disk[q] = "none",
               disk' = [disk EXCEPT ![q] = disk[p], ![p] = "none"]
        PROVE  /\ \A x \in Place : disk[x] = "other" => disk'[x] = "other"
               /\ (\E x \in Place : disk[x] = "edited") => \E x \in Place : disk'[x] = "edited"
    <3>1. p # q /\ disk'[q] = disk[p] /\ \A x \in Place \ {p, q} : disk'[x] = disk[x]
      BY <1>1, <2>1 DEF Document
    <3> QED BY <2>1, <3>1 DEF Document
  <2>2. ASSUME NEW q \in Place, disk[q] = "none", disk' = [disk EXCEPT ![q] = "doc"]
        PROVE  /\ \A x \in Place : disk[x] = "other" => disk'[x] = "other"
               /\ (\E x \in Place : disk[x] = "edited") => \E x \in Place : disk'[x] = "edited"
    BY <1>1, <2>2
  <2>3. ASSUME NEW p \in Place, disk[p] = "doc", disk' = [disk EXCEPT ![p] = "none"]
        PROVE  /\ \A x \in Place : disk[x] = "other" => disk'[x] = "other"
               /\ (\E x \in Place : disk[x] = "edited") => \E x \in Place : disk'[x] = "edited"
    BY <1>1, <2>3
  <2> QED BY <1>3, <2>1, <2>2, <2>3 DEF Transferred, Move
<1>4. CASE Interfered
  <2>1. others' # others
    BY <1>1, <1>4, SMT DEF Interfered, Occupy, Edit, Discard, Interfere
  <2>2. PICK p \in Place : Occupy(p) \/ Edit(p) \/ Discard(p)
    BY <1>4 DEF Interfered
  <2>3. disk'[p] = disk[p] \/ disk[p] # "other"
    BY <2>2 DEF Occupy, Edit, Discard, Exists, Document
  <2>4. \A x \in Place \ {p} : disk'[x] = disk[x]
    BY <1>1, <2>2 DEF Occupy, Edit, Discard
  <2>5. disk[p] = "other" => disk'[p] = "other"
    BY <1>1, <2>2 DEF Occupy, Edit, Discard, Exists, Document
  <2> QED BY <2>1, <2>4, <2>5
<1> QED BY <1>2, <1>3, <1>4, StepMoves

\* No rename replaces, no deletion is made but of the unedited document under
\* its own handle: others' files are left as they are, and so is what a person
\* wrote into the document.
THEOREM NothingOfOthersIsTouched == ~ Overlap => (FileSpec => OthersFilesAreUntouched)
<1>1. FInv /\ [FileNext]_vars =>
        [/\ \A p \in Place : disk[p] = "other" => disk'[p] = "other"
         /\ (\E p \in Place : disk[p] = "edited") /\ others' = others
              => \E p \in Place : disk'[p] = "edited"]_vars
  BY UntouchedStep
<1> QED BY <1>1, FilingInvariance, PTL DEF FileSpec, OthersFilesAreUntouched

-----------------------------------------------------------------------------
(* Filing implements its abstraction *)

\* What is claimed is so: the operation is under way, or undecided, or the
\* document is where it is said to be.
BeliefIsSo ==
  /\ Belief \in {"working", "unsure"} <=> items[D].status = "applying" \/ Undecided
  /\ items[D].status = "applying" <=> Belief = "working"
  /\ Belief \notin {"working", "unsure"} => Belief = Filing!Says(Where)

\* A receipt that is over, and the absence of one, place the document.
LEMMA BeliefIsRight == FInv => BeliefIsSo
<1> SUFFICES ASSUME FInv PROVE BeliefIsSo
  OBVIOUS
<1>1. CASE items[D].status = "applying"
  BY <1>1 DEF BeliefIsSo, Belief
<1>2. CASE items[D].status # "applying" /\ Newest = NULL
  <2>1. \A r \in ReceiptId : ~ Written(r)
    BY <1>2, NewestIs, OneDocument
  <2>2. OnlyAt("orig")
    BY <2>1 DEF FInv, JournalIsSo
  <2>3. Where = "orig"
    BY <2>2 DEF OnlyAt, Place, Where
  <2> QED BY <1>2, <2>3 DEF BeliefIsSo, Belief, Undecided, Filing!Says
<1>3. CASE items[D].status # "applying" /\ Newest # NULL
  <2>1. PICK r \in ReceiptId : r = Newest /\ IsNewest(r, D) /\ Written(r)
    BY <1>3, NewestIs DEF IsNewest, Written
  <2>2. CASE receipts[r].stage \in Unfinished
    BY <1>3, <2>1, <2>2 DEF BeliefIsSo, Belief, Undecided
  <2>3. CASE receipts[r].stage \notin Unfinished
    <3>1. receipts[r].stage \in {"complete", "rolled_back"}
      BY <2>1, <2>3, StageInHand DEF FInv, Stage, Terminal
    <3>2. JournalSays(r, receipts[r].stage)
      BY <2>1 DEF FInv, JournalIsSo
    <3>3. /\ receipts[r].stage = "complete" => Moved(r)
          /\ receipts[r].stage = "rolled_back" => Unmoved(r)
      BY <3>2 DEF JournalSays, RenameSays, CopySays
    <3>4. \/ receipts[r].dir = "apply" /\ detail[r].src = "orig" /\ detail[r].dst \in Name
          \/ receipts[r].dir = "undo" /\ detail[r].src \in Name /\ detail[r].dst = "orig"
      BY <2>1 DEF FInv, HInv, Paths
    <3>5. "orig" \notin Name /\ "orig" \in Place
      BY DEF Name, Place
    <3>6. Where = IF (receipts[r].dir = "apply") <=> (receipts[r].stage = "complete")
                    THEN "filed" ELSE "orig"
      BY <3>1, <3>3, <3>4, <3>5 DEF Where, Moved, Unmoved, OnlyAt
    <3>7. Belief = IF (receipts[r].dir = "apply") <=> (receipts[r].stage = "complete")
                     THEN "filed" ELSE "unfiled"
      BY <1>3, <2>1, <2>3, <3>1, <3>4 DEF Belief
    <3> QED BY <1>3, <2>1, <2>3, <3>6, <3>7 DEF BeliefIsSo, Undecided, Filing!Says
  <2> QED BY <2>2, <2>3
<1> QED BY <1>1, <1>2, <1>3

\* A claim follows from the journal, and from whether the row is applying.
LEMMA SameBelief ==
  ASSUME receipts' = receipts, (items'[D].status = "applying") <=> (items[D].status = "applying")
  PROVE  Belief' = Belief
<1>1. Newest' = Newest
  BY DEF Newest
<1> QED BY <1>1 DEF Belief

\* The document is at its own path, or it is not.
LEMMA WhereIs == Where \in {"orig", "filed"} /\ Where' \in {"orig", "filed"}
BY DEF Where

\* Every step of filing is one of the abstract filing, or a stutter of it.
LEMMA AtomicStep ==
  ASSUME FInv, FInv', [FileNext]_vars
  PROVE  [Filing!Next]_(Filing!vars)
<1>1. BeliefIsSo
  BY BeliefIsRight
<1>2. BeliefIsSo'
  BY BeliefIsRight, PTL
<1>3. CASE Noted
  <2>1. Where' = Where
    BY <1>3 DEF Noted, Where
  <2>2. CASE (items'[D].status = "applying") <=> (items[D].status = "applying")
    <3>1. Belief' = Belief
      BY <1>1, <1>2, <1>3, <2>2, SameBelief DEF Noted, BeliefIsSo
    <3> QED BY <2>1, <3>1 DEF Filing!vars
  <2>3. CASE items'[D].status = "applying" /\ items[D].status # "applying"
    BY <1>1, <1>2, <2>1, <2>3 DEF BeliefIsSo, Filing!Next, Filing!Begin
  <2>4. CASE items'[D].status # "applying" /\ items[D].status = "applying"
    <3>1. Belief = "working" /\ Belief' \in {"unsure", Filing!Says(Where)'}
      BY <1>1, <1>2, <2>4 DEF BeliefIsSo
    <3>2. Filing!Says(Where)' = Filing!Says(Where)
      BY <2>1 DEF Filing!Says
    <3> QED BY <2>1, <3>1, <3>2 DEF Filing!Next, Filing!Settle, Filing!GiveUp
  <2> QED BY <2>2, <2>3, <2>4
<1>4. ASSUME UNCHANGED storeVars PROVE [Filing!Next]_(Filing!vars)
  <2>1. CASE Belief \in {"working", "unsure"}
    <3>1. Belief' = Belief
      BY <1>4, SameBelief DEF storeVars
    <3> QED BY <2>1, <3>1, WhereIs DEF Filing!Next, Filing!Move, Filing!vars, Filing!Place
  <2>2. CASE Belief \notin {"working", "unsure"}
    <3>1. Belief' = Belief
      BY <1>4, SameBelief DEF storeVars
    <3>2. Belief = Filing!Says(Where) /\ Belief' = Filing!Says(Where)'
      BY <1>1, <1>2, <2>2, <3>1 DEF BeliefIsSo
    <3>3. Where' = Where
      BY <3>1, <3>2, WhereIs DEF Filing!Says
    <3> QED BY <3>1, <3>3 DEF Filing!vars
  <2> QED BY <2>1, <2>2
<1> QED BY <1>3, <1>4, StepMoves DEF Transferred, Interfered

\* The document starts at its own name, unfiled.
LEMMA AtomicInit == FileInit => Filing!Init
<1> SUFFICES ASSUME FileInit PROVE Filing!Init
  OBVIOUS
<1>1. FInv
  BY InitKeeps
<1>2. Where = "orig"
  BY DEF FileInit, Where, Document, Place
<1>3. items[D].status = "ready"
  BY OneDocument DEF FileInit, EmptyRow
<1>4. Newest = NULL
  BY SMT DEF FileInit, Newest, EmptyReceipt, D
<1>5. Belief = "unfiled"
  BY <1>3, <1>4 DEF Belief
<1> QED BY <1>2, <1>5 DEF Filing!Init

\* However many steps an operation takes, and whatever fails, dies or comes
\* between them, where the document is and what the journal says of it change
\* as in the abstract filing: no step moves a document Intern claims to know
\* the place of, and no step makes a claim that is wrong.
THEOREM FilingImplementsAtomicFiling == ~ Overlap => (FileSpec => FilingIsAtomic)
<1>1. FInv /\ FInv' /\ [FileNext]_vars => [Filing!Next]_(Filing!vars)
  BY AtomicStep
<1> QED BY <1>1, AtomicInit, FilingInvariance, PTL DEF FileSpec, FilingIsAtomic, Filing!Spec

-----------------------------------------------------------------------------
(* The queue is one lane while files are moved *)

\* A journal write, landed or not, leaves the document in its lane.
LEMMA WriteLives ==
  ASSUME LInv, IInv', NEW t \in Thread, NEW s \in Session, NEW expected, NEW next, NEW temp,
         NEW differs, NEW then, Write(t, s, expected, next, temp, differs, then)
  PROVE  Lives
<1>1. CASE update_receipt(s, D, thread[t].r, expected, next)
  BY <1>1, OneDocument, RenewingLives
<1>2. CASE UNCHANGED storeVars
  BY <1>2, NothingShown DEF storeVars
<1> QED BY <1>1, <1>2 DEF Write

\* A transfer writes its journal, renews its lease before it deletes, and
\* otherwise leaves the store alone.
LEMMA TransferLives ==
  ASSUME LInv, IInv', NEW t \in Thread, NEW s \in Session,
         \/ same_volume_transfer(t, s) \/ cross_volume_transfer(t, s)
         \/ delete_source(t, s, "refence", "deleteSource", "confirm")
  PROVE  Lives
<1>1. CASE UNCHANGED storeVars
  BY <1>1, NothingShown DEF storeVars
<1>2. CASE \E stage : renew_operation_lease(s, D, thread[t].r, stage)
  BY <1>2, OneDocument, RenewingLives
<1>3. CASE temp_failure(t, s)
  BY <1>1, <1>2, <1>3 DEF temp_failure
<1>4. CASE copy_new_locked(t) \/ publish(t)
  BY <1>1, <1>4 DEF copy_new_locked, publish
<1>5. ASSUME NEW fence, NEW delete, NEW then, delete_source(t, s, fence, delete, then)
      PROVE  Lives
  BY <1>1, <1>2, <1>5 DEF delete_source
<1>6. CASE same_volume_transfer(t, s)
  BY <1>1, <1>6, WriteLives DEF same_volume_transfer
<1>7. CASE cross_volume_transfer(t, s)
  BY <1>1, <1>3, <1>4, <1>5, <1>7, WriteLives DEF cross_volume_transfer
<1> QED BY <1>5, <1>6, <1>7

\* So does what begins an operation, ends it and looks at what is left.
LEMMA GoOnLives ==
  ASSUME LInv, IInv', NEW t \in Thread, NEW s \in Session, GoOn(t, s)
  PROVE  Lives
<1>0. D \in Item
  BY OneDocument
<1>1. CASE UNCHANGED storeVars
  BY <1>1, NothingShown DEF storeVars
<1>2. CASE mark_needs_review(s, D)
  BY <1>0, <1>2, mark_needs_reviewLives
<1>3. CASE apply_if_unchanged(t, s)
  BY <1>0, <1>1, <1>2, <1>3, begin_applyingLives DEF apply_if_unchanged, Review
<1>4. CASE plan(t, s)
  BY <1>0, <1>1, <1>4, RenewingLives DEF plan
<1>5. CASE reconciliation_error(t, s)
  BY <1>0, <1>1, <1>5, RenewingLives, ParkingLives DEF reconciliation_error
<1>6. CASE finish(t, s)
  BY <1>0, <1>1, <1>6, SettlingLives DEF finish
<1>7. CASE review(t, s) \/ report_settled(t, s)
  BY <1>1, <1>2, <1>7 DEF review, report_settled
<1>8. CASE reconcile(t, s)
  <2>1. CASE examine(t, s)
    BY <1>0, <1>1, <2>1, SettlingLives DEF examine
  <2>2. CASE cleanup_reconciled_temporary(t, s)
    BY <1>0, <1>1, <2>2, RenewingLives DEF cleanup_reconciled_temporary
  <2>3. CASE resolve(t, s)
    BY <1>0, <1>1, <2>3, SettlingLives DEF resolve
  <2>4. CASE catch_up(t, s)
    BY <1>0, <1>1, <2>4, RenewingLives DEF catch_up
  <2>5. CASE park_unsettled(t, s)
    BY <1>0, <1>1, <2>5, ParkingLives DEF park_unsettled
  <2>6. CASE claim(t, s)
    BY <1>0, <1>1, <2>6, RenewingLives DEF claim
  <2> QED BY <1>8, <2>1, <2>2, <2>3, <2>4, <2>5, <2>6, TransferLives DEF reconcile
<1> QED
  BY <1>3, <1>4, <1>5, <1>6, <1>7, <1>8, TransferLives DEF GoOn

\* And what takes it up.
LEMMA TakeUpLives ==
  ASSUME LInv, IInv', NEW t \in Thread, NEW s \in Session, TakeUp(t, s) \/ recover(t, s)
  PROVE  Lives
<1>0. D \in Item
  BY OneDocument
<1>1. CASE approve(t, s)
  BY <1>0, <1>1, approve_user_editLives DEF approve
<1>2. CASE undo(t, s)
  BY <1>0, <1>2, begin_applyingLives DEF undo
<1>3. CASE retry(t, s)
  BY <1>0, <1>3, claim_deferred_reconciliationLives DEF retry
<1>4. CASE keep_original(t, s)
  BY <1>0, <1>4, cas_statusLives DEF keep_original, complete_keep_original
<1>5. CASE apply_pending_ready(t, s) \/ recover(t, s)
  BY <1>5, NothingShown DEF apply_pending_ready, recover, storeVars
<1> QED BY <1>1, <1>2, <1>3, <1>4, <1>5 DEF TakeUp

\* Filing implements the lifecycle too, whatever the two threads do at once:
\* however many steps an operation takes, whatever fails in them and whoever
\* recovers it, its document leaves the lane once, to where such an operation
\* may end, and enters it from where the work starts.
THEOREM FilingIsOneLane == FileSpec => OneLane
<1>1. FileInit => HInv /\ NothingLeftWhenReady /\ Life!Init
  <2> SUFFICES ASSUME FileInit PROVE HInv /\ NothingLeftWhenReady /\ Life!Init
    OBVIOUS
  <2>1. \A i \in Item : items[i].status = "ready" /\ items[i].error = "none"
    BY DEF FileInit, EmptyRow
  <2>2. HInv
    BY InitHolds
  <2>3. Life!Init
    BY <2>1, <2>2, AtRestBegins DEF HInv, Active, Processing
  <2> QED BY <2>1, <2>2, <2>3 DEF NothingLeftWhenReady
<1>2. HInv /\ NothingLeftWhenReady /\ [FileNext]_vars =>
        HInv' /\ NothingLeftWhenReady' /\ [Life!Next]_Shown
  <2> SUFFICES ASSUME HInv, NothingLeftWhenReady, [FileNext]_vars
               PROVE  HInv' /\ NothingLeftWhenReady' /\ [Life!Next]_Shown
    OBVIOUS
  <2>1. HInv' /\ LInv /\ IInv'
    <3>1. HInv'
      BY NextHolds
    <3> QED BY <3>1 DEF HInv, LInv
  <2>2. Lives
    <3>1. CASE UNCHANGED vars
      BY <2>1, <3>1, NothingShown DEF vars, storeVars
    <3>2. ASSUME NEW t \in Thread, NEW s \in Session,
                 (Live(s) /\ TakeUp(t, s)) \/ GoOn(t, s) \/ Recover(t, s)
          PROVE  Lives
      BY <2>1, <3>2, TakeUpLives, GoOnLives DEF Recover
    <3>3. ASSUME NEW s \in Session, Start(s) \/ Quit(s) \/ Die(s)
          PROVE  Lives
      BY <2>1, <3>3, SessionsLive DEF Start, Quit, Die
    <3>4. CASE Pass
      BY <2>1, <3>4, SessionsLive DEF Pass
    <3>5. ASSUME NEW p \in Place, Occupy(p) \/ Edit(p) \/ Discard(p)
          PROVE  Lives
      BY <2>1, <3>5, NothingShown DEF Occupy, Edit, Discard, storeVars
    <3> QED BY <3>1, <3>2, <3>3, <3>4, <3>5 DEF FileNext
  <2> QED BY <2>1, <2>2 DEF Lives, LivesOn
<1> QED
  BY <1>1, <1>2, PTL DEF FileSpec, OneLane, Life!Spec
=============================================================================
